------------------------------ MODULE MCClient ------------------------------
(***************************************************************************)
(* The tray's remaining components, and the algorithms of the core crate   *)
(* that work on the lines of a log, for TLC.  A behaviour exercises one of   *)
(* them and leaves the others in their initial state.                      *)
(***************************************************************************)
EXTENDS Reparse, Inference, LineParser, LauncherTail, CrashScan, Health,
        UnknownLines, BurstDetection

CONSTANTS
  WindowKinds,    \* kinds of lines in a window given to detect_bursts
  MaxWindow       \* bound on its length (exploration only)

ASSUME WindowBound == MaxWindow \in Nat

VARIABLES part, window

(* Seconds between two logged events; a negative one is out of order.      *)
MCGaps == {-1, 0, 1, 3}

(* Lines: without a shell; an event, its tags and what its body has.       *)
L(e, b) == [shell |-> TRUE, event |-> e, tags |-> {}, body |-> b]
MCGameLines ==
  {[shell |-> FALSE, event |-> NoName, tags |-> {}, body |-> {}],
   L("Init", {"CCIGBroker::FastShutdown"}),
   L("SHUDEvent_OnNotification", {"HUD_NOTIFICATION", "Incapacitated:"}),
   L("Actor Death", {"ShopFlowResponse"}), L("Hit", {"narrow"}), L("Hit", {"wide"}),
   L(NoName, {"ShopBuyRequest", "ShopFlowResponse"}), L("Stream started", {})}

Rl(i, m, e, x, ok) == [id |-> i, match_kind |-> m, event_name |-> e, regex |-> x, compiles |-> ok]
MCManifests ==
  {<<>>,
   <<Rl("r1", "event_name", "Hit", "narrow", TRUE), Rl("r2", "event_name", "Hit", "wide", TRUE)>>,
   <<Rl("r3", "body_keyword", "ShopFlowResponse", "ShopFlowResponse", FALSE),
     Rl("r4", "body_keyword", "ShopFlowResponse", "ShopFlowResponse", TRUE)>>}

MCTexts == {Banner, [level |-> "info", words |-> {"patch", "failed"}]}

(* Unrecognised lines: one shape whose samples have the player's handle in *)
(* different places, and one with a line too large to submit, whose score  *)
(* depends on how often it is seen.                                        *)
Odd(h, t, has, marks) == [shape |-> h, tag |-> t, has |-> has, marks |-> marks]
MCOddLines ==
  {Odd("s1", "new", {"digits"}, {[kind |-> "own", at |-> 1], [kind |-> "geid", at |-> 3]}),
   Odd("s1", "new", {"digits"}, {[kind |-> "own", at |-> 2], [kind |-> "geid", at |-> 3]}),
   Odd("s2", "known", {"digits", "keyword", "huge"}, {}),
   Odd("s2", "known", {"digits", "keyword"}, {[kind |-> "shard", at |-> 1]})}

(* The shape of burst_rules.rs: one rule that tolerates a line between     *)
(* members, one that does not.                                             *)
MCRules == << [id |-> "loadout", anchor |-> "a", member |-> "a", min |-> 3, gap |-> 1],
              [id |-> "stowed", anchor |-> "b", member |-> "b", min |-> 2, gap |-> 0] >>

(* The window grows line by line as successive drains of the log see it.   *)
Grow == Len(window) < MaxWindow /\ \E k \in WindowKinds : window' = Append(window, k)
-----------------------------------------------------------------------------
ClientParts == {"reparse", "infer", "parser", "launcher", "crashes", "health", "unknown",
                "burst"}

clientVars == <<part, reparseVars, logged, parserVars, launcherVars, crashVars,
                healthVars, unknownVars, window>>

ClientInit ==
  /\ part \in ClientParts
  /\ ReparseInit /\ LoggedInit /\ ParserInit /\ LauncherInit
  /\ CrashInit /\ HealthInit /\ UnknownInit /\ window = <<>>
  /\ part # "parser" => published = <<>>

ClientNext ==
  /\ part' = part
  /\ \/ /\ part = "reparse" /\ ReparseNext
        /\ UNCHANGED <<logged, parserVars, launcherVars, crashVars, healthVars, unknownVars, window>>
     \/ /\ part = "infer" /\ LoggedNext
        /\ UNCHANGED <<reparseVars, parserVars, launcherVars, crashVars, healthVars, unknownVars, window>>
     \/ /\ part = "parser" /\ ParserNext
        /\ UNCHANGED <<reparseVars, logged, launcherVars, crashVars, healthVars, unknownVars, window>>
     \/ /\ part = "launcher" /\ LauncherNext
        /\ UNCHANGED <<reparseVars, logged, parserVars, crashVars, healthVars, unknownVars, window>>
     \/ /\ part = "crashes" /\ CrashNext
        /\ UNCHANGED <<reparseVars, logged, parserVars, launcherVars, healthVars, unknownVars, window>>
     \/ /\ part = "health" /\ HealthNext
        /\ UNCHANGED <<reparseVars, logged, parserVars, launcherVars, crashVars, unknownVars, window>>
     \/ /\ part = "unknown" /\ UnknownNext
        /\ UNCHANGED <<reparseVars, logged, parserVars, launcherVars, crashVars, healthVars, window>>
     \/ /\ part = "burst" /\ Grow
        /\ UNCHANGED <<reparseVars, logged, parserVars, launcherVars, crashVars, healthVars, unknownVars>>

ClientSpec == ClientInit /\ [][ClientNext]_clientVars

(* Threads of the parser, commands of the health card and submissions: one *)
(* set of model values for all, interchangeable in each part.              *)
ClientSymmetry == Permutations(LineWorkers \cup HealthCalls \cup SubmitCalls)
-----------------------------------------------------------------------------
Hits(w) == DetectBursts(w, MCRules)

(* The scan of detect_bursts, with its gap budget, resumption and first-   *)
(* rule-wins bookkeeping, finds exactly the bursts the rules mean, each    *)
(* once, and no two of them share a line.                                  *)
FindsWhatIsMeant ==
  /\ Hits(window) = MeantBursts(window, MCRules)
  /\ \A g, h \in Hits(window) : g # h => g.members \cap h.members = {}

(* A line that arrives later never undoes a burst: each one is still there *)
(* in the longer window, with the same anchor and maybe more members.      *)
BurstsOnlyGrow ==
  window # <<>> =>
    \A h \in Hits(Front(window)) : \E g \in Hits(window) :
      g.rule = h.rule /\ Anchor(g) = Anchor(h) /\ h.members \subseteq g.members

(* What the tray keeps of the log files is complete and counted once: a    *)
(* reparse reclassifies every stored line, the cursor never passes a row   *)
(* the server has not got, the launcher's log is read to its end and each  *)
(* of its lines kept once, and so is each crash.                           *)
LogsKept ==
  CASE part = "reparse" -> ReparseTypeOK /\ ReclassifiedAll /\ SentIsSynced
    [] part = "launcher" -> LauncherCaughtUp /\ LauncherOnce
    [] part = "crashes" -> CrashOnce
    [] OTHER -> TRUE

(* What is derived from the lines is what the definitions mean: the rules  *)
(* of the parser only add, noise is not sampled, and bursts and inferred   *)
(* events agree with their reference.                                      *)
DerivedAsMeant ==
  CASE part = "parser" -> RulesOnlyAdd /\ NoiseNotSampled
    [] part = "burst" -> FindsWhatIsMeant /\ BurstsOnlyGrow
    [] part = "infer" -> InferenceAgrees
    [] OTHER -> TRUE
=============================================================================
