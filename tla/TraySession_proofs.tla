------------------------- MODULE TraySession_proofs -------------------------
(***************************************************************************)
(* Proofs about TraySession for any number of worker slots, tokens and     *)
(* restarts and for every choice of commands: what the stored config says  *)
(* is what a worker runs, or a respawn that will see to it is under way.   *)
(***************************************************************************)
EXTENDS TraySession, TLAPS

(* Stored and loaded configs hold tokens that were issued.                 *)
Issued == 1..lastToken \cup {NoToken}
TokensIssued ==
  /\ file \in Configs => file.token \in Issued
  /\ \A a \in Actors : copy[a].token \in Issued

Typed == TypeOK /\ TokensIssued
-----------------------------------------------------------------------------
Runs(cfg) == \E w \in Workers : Live(w) /\ token[w] = cfg.token

(* A respawn that has yet to load the config.                              *)
Reloads == \E a \in {"pair", "save"} : pc[a] \in {"saved", "take", "respawn"}

(* A worker runs with cfg, or a respawn will start one with it or read the *)
(* file again.                                                             *)
Served(cfg) ==
  Startable(cfg) =>
    Runs(cfg) \/ Reloads \/ \E a \in {"pair", "save"} : pc[a] = "start" /\ copy[a] = cfg

(* The copy that dismiss_health is about to save is not followed by a      *)
(* respawn; a copy that is fresh is the file's, unless a save has begun.   *)
Touches == "touch" \in fresh /\ pc["touch"] \in {"loaded", "truncated"}

FileServed ==
  ~raced => /\ file \in Configs => Served(file)
            /\ Touches => Served(copy["touch"])

FreshCopy ==
  /\ "touch" \in fresh /\ pc["touch"] = "loaded" /\ ~Saving => copy["touch"] = Loaded
  /\ file = Torn => fresh = {}

(* The token is gone from a copy that a worker is about to save.           *)
WorkerClears ==
  \A w \in Workers : pc[w] \in {"loaded", "truncated"} => copy[w].token = NoToken

(* The handle is a task that runs, and an aborted one is not yet dropped.  *)
HandleRuns ==
  /\ handle # NoWorker => pc[handle] # "off" /\ handle \notin aborted
  /\ \A w \in aborted : pc[w] # "off"

(* The inductive invariant.                                                *)
SessionInv == Typed /\ FileServed /\ FreshCopy /\ WorkerClears /\ HandleRuns
-----------------------------------------------------------------------------
PCs == {"off", "idle", "redeemed", "loaded", "truncated", "saved", "take",
        "respawn", "start", "wait", "sent", "clear", "flag", "yes", "no"}

LEMMA ActorNames ==
  /\ {"pair", "save", "touch", "me", "submit", "hydrate"} \subseteq Actors
  /\ Workers \subseteq Actors /\ \A w \in Workers : w \notin AllParts
  /\ Callers \subseteq Actors
  BY WorkersAssumption DEF Actors, AllParts, Callers

LEMMA GotoTyped ==
  ASSUME Typed, NEW a \in Actors, NEW step \in PCs, Goto(a, step)
  PROVE  /\ pc' \in [Actors -> PCs] /\ pc'[a] = step
         /\ \A b \in Actors \ {a} : pc'[b] = pc[b]
  BY DEF Typed, TypeOK, Goto, PCs

LEMMA LeaveTyped ==
  ASSUME Typed, NEW a \in Actors, NEW step \in PCs, Leave(a, step)
  PROVE  /\ pc' \in [Actors -> PCs] /\ pc'[a] = step
         /\ \A b \in Actors \ {a} : pc'[b] = pc[b] /\ token'[b] = token[b] /\ copy'[b] = copy[b]
         /\ token' \in [Actors -> Issued] /\ copy' \in [Actors -> Configs]
         /\ token'[a] = NoToken /\ copy'[a] = Default
         /\ \A b \in Actors : copy'[b].token \in Issued
<1>1. Default \in Configs /\ Default.token \in Issued
  BY DEF Default, Configs, Issued
<1>2. token \in [Actors -> Issued] /\ NoToken \in Issued
  BY DEF Typed, TypeOK, Issued
<1>. QED  BY <1>1, <1>2 DEF Typed, TypeOK, TokensIssued, Leave, PCs

(* What a load yields, with or without the token.                          *)
LEMMA LoadedTyped ==
  ASSUME Typed, file # Torn
  PROVE  /\ Loaded \in Configs /\ Loaded.token \in Issued
         /\ \A e \in BOOLEAN : /\ [Loaded EXCEPT !.enabled = e] \in Configs
                               /\ [Loaded EXCEPT !.enabled = e].token \in Issued
         /\ [Loaded EXCEPT !.token = NoToken] \in Configs
         /\ [Loaded EXCEPT !.token = NoToken].token = NoToken
<1>1. Loaded \in Configs /\ Loaded.token \in Issued
  BY DEF Typed, TypeOK, TokensIssued, Loaded, Default, Configs, Issued
<1>. QED  BY <1>1 DEF Configs

LEMMA LoadToTyped ==
  ASSUME Typed, NEW a \in Actors, NEW step \in PCs, NEW cfg \in Configs, cfg.token \in Issued,
         LoadTo(a, step, cfg)
  PROVE  /\ pc' \in [Actors -> PCs] /\ pc'[a] = step
         /\ copy' \in [Actors -> Configs] /\ copy'[a] = cfg
         /\ \A b \in Actors \ {a} : pc'[b] = pc[b] /\ copy'[b] = copy[b]
         /\ \A b \in Actors : copy'[b].token \in Issued
         /\ fresh' \subseteq Actors /\ UNCHANGED token
         /\ raced' \in BOOLEAN /\ (~raced' => ~raced /\ ~Saving)
<1>1. raced' \in BOOLEAN /\ (~raced' => ~raced /\ ~Saving)
  BY Zenon DEF LoadTo
<1>. QED  BY <1>1, GotoTyped DEF LoadTo, Typed, TypeOK, TokensIssued

LEMMA WriteFileTyped ==
  ASSUME Typed, NEW a \in Actors, WriteFile(a)
  PROVE  /\ file' \in Configs \cup {Empty, Torn}
         /\ file' \in Configs => file' = copy[a]
         /\ file' \in Configs => file'.token \in Issued
         /\ fresh' = {} /\ raced' \in BOOLEAN /\ (~raced' => ~raced /\ a \in fresh)
<1>1. raced' \in BOOLEAN /\ (~raced' => ~raced /\ a \in fresh)
  BY Zenon DEF WriteFile
<1>2. file' = copy[a] \/ file' = Torn
  BY DEF WriteFile
<1>. QED  BY <1>1, <1>2, NoneAssumption DEF WriteFile, Typed, TypeOK, TokensIssued

(* Every step keeps types and issues a token before anybody holds it.      *)
LEMMA TypedStep ==
  ASSUME Typed, [Next]_vars
  PROVE  Typed'
<1>. USE ActorNames, NoneAssumption, BoundsAssumption
<1>. DEFINE same == UNCHANGED <<lastToken, revoked, restarts, file, authLost, handle, aborted, hangar>>
<1>1. lastToken \in Nat /\ token \in [Actors -> Issued] /\ pc \in [Actors -> PCs]
  BY DEF Typed, TypeOK, Issued, PCs
<1>2. ASSUME lastToken \in Nat, UNCHANGED lastToken, UNCHANGED file \/ file' \notin Configs \/ file'.token \in Issued,
             revoked' \subseteq 1..lastToken, restarts' \in 0..MaxRestarts,
             file' \in Configs \cup {Empty, Torn}, authLost' \in BOOLEAN,
             handle' \in Workers \cup {NoWorker}, pc' \in [Actors -> PCs],
             token' \in [Actors -> Issued], copy' \in [Actors -> Configs],
             \A b \in Actors : copy'[b].token \in Issued, aborted' \subseteq Workers,
             hangar' \in [pc : {"off", "wait", "sent"}, token : Tokens \cup {NoToken}],
             fresh' \subseteq Actors, raced' \in BOOLEAN
      PROVE  Typed'
  BY <1>2 DEF Typed, TypeOK, TokensIssued, Issued, PCs
<1>3. CASE UNCHANGED vars
  BY <1>3 DEF vars, server, history, locals, Typed, TypeOK, TokensIssued, Issued
<1>4. CASE PairRedeem
  <2>1. pc' \in [Actors -> PCs]
    BY <1>4, GotoTyped DEF PairRedeem, PCs
  <2>2. lastToken' = lastToken + 1 /\ lastToken' \in 0..MaxTokens
    BY <1>1, <1>4 DEF PairRedeem, Typed, TypeOK
  <2>3. token' \in [Actors -> Issued']
    BY <1>1, <1>4, <2>2 DEF PairRedeem, Issued
  <2>. QED  BY <1>1, <1>4, <2>1, <2>2, <2>3 DEF PairRedeem, history, Typed, TypeOK, TokensIssued, Issued, PCs
<1>5. ASSUME NEW a \in Actors, NEW step \in PCs, Goto(a, step),
             UNCHANGED <<lastToken, revoked, restarts, file, handle, token, copy, hangar, fresh, raced>>,
             authLost' \in BOOLEAN, aborted' \subseteq Workers, handle' \in Workers \cup {NoWorker}
      PROVE  Typed'
  BY <1>5, GotoTyped DEF Typed, TypeOK, TokensIssued, Issued, PCs
<1>6. ASSUME NEW a \in Actors, NEW step \in PCs, Leave(a, step),
             UNCHANGED <<lastToken, revoked, restarts, handle, hangar>>,
             file' \in Configs \cup {Empty, Torn}, file' \in Configs => file'.token \in Issued,
             authLost' \in BOOLEAN, aborted' \subseteq Workers, fresh' \subseteq Actors, raced' \in BOOLEAN
      PROVE  Typed'
  BY <1>6, LeaveTyped DEF Typed, TypeOK, TokensIssued, Issued, PCs
<1>7. ASSUME NEW a \in Actors, NEW step \in PCs, NEW cfg \in Configs, cfg.token \in Issued,
             LoadTo(a, step, cfg), same
      PROVE  Typed'
  BY <1>7, LoadToTyped DEF Typed, TypeOK, TokensIssued, Issued, PCs
<1>8. ASSUME NEW a \in Actors, LoadFails(a), same
      PROVE  Typed'
  BY <1>6, <1>8 DEF LoadFails, Typed, TypeOK, TokensIssued, PCs
<1>9. CASE PairLoad
  <2>1. [token |-> token["pair"], enabled |-> TRUE] \in Configs /\ token["pair"] \in Issued
    BY <1>1 DEF Configs, Issued, Tokens, Typed, TypeOK
  <2>2. PICK cfg \in Configs : cfg = [token |-> token["pair"], enabled |-> TRUE]
    BY <2>1
  <2>. QED  BY <1>7, <1>8, <1>9, <2>1, <2>2 DEF PairLoad, server, PCs
<1>10. ASSUME NEW a \in Actors, NEW step \in PCs, WriteFile(a), Goto(a, step), UNCHANGED token,
              UNCHANGED <<lastToken, revoked, restarts, authLost, handle, aborted, hangar>>,
              copy' = copy \/ copy' = [copy EXCEPT ![a] = Default]
       PROVE  Typed'
  <2>1. Default \in Configs /\ Default.token \in Issued
    BY DEF Default, Configs, Issued
  <2>2. copy' \in [Actors -> Configs] /\ \A b \in Actors : copy'[b].token \in Issued
    BY <1>10, <2>1 DEF Typed, TypeOK, TokensIssued
  <2>. QED  BY <1>10, <2>2, GotoTyped, WriteFileTyped DEF Typed, TypeOK, TokensIssued, Issued, PCs
<1>11. CASE PairSaved \/ SaveSaved
  BY <1>10, <1>11 DEF PairSaved, SaveSaved, server, PCs
<1>12. CASE PairClearsLost
  BY <1>5, <1>12 DEF PairClearsLost, server, history, Typed, TypeOK, PCs
<1>13. CASE GetConfig
  <2>1. PICK e \in BOOLEAN : LoadTo("save", "loaded", [Loaded EXCEPT !.enabled = e])
    BY <1>13 DEF GetConfig
  <2>2. [Loaded EXCEPT !.enabled = e] \in Configs /\ [Loaded EXCEPT !.enabled = e].token \in Issued
    BY <2>1, LoadedTyped DEF LoadTo
  <2>3. PICK cfg \in Configs : cfg = [Loaded EXCEPT !.enabled = e]
    BY <2>2
  <2>. QED  BY <1>7, <1>13, <2>1, <2>2, <2>3 DEF GetConfig, server, PCs
<1>14. CASE TouchLoad
  <2>1. Loaded \in Configs /\ Loaded.token \in Issued
    BY <1>14, LoadedTyped DEF TouchLoad, LoadTo
  <2>2. PICK cfg \in Configs : cfg = Loaded
    BY <2>1
  <2>. QED  BY <1>7, <1>14, <2>1, <2>2 DEF TouchLoad, server, PCs
<1>15. CASE TouchSaved
  BY <1>6, <1>15, WriteFileTyped DEF TouchSaved, server, Typed, TypeOK, PCs
<1>16. ASSUME NEW a \in Actors, Truncate(a) PROVE Typed'
  <2>1. pc' \in [Actors -> PCs]
    BY <1>16, GotoTyped DEF Truncate, PCs
  <2>. QED  BY <1>2, <1>16, <2>1 DEF Truncate, server, history, Typed, TypeOK, TokensIssued, Issued
<1>17. ASSUME NEW a \in Actors, SaveFails(a) PROVE Typed'
  <2>1. CASE Leave(a, "idle")
    BY <1>6, <1>17, <2>1 DEF SaveFails, server, Typed, TypeOK, TokensIssued, PCs
  <2>2. CASE Goto(a, "flag") /\ UNCHANGED <<token, copy>>
    <3>1. pc' \in [Actors -> PCs]
      BY <2>2, GotoTyped DEF PCs
    <3>. QED  BY <1>2, <1>17, <2>2, <3>1 DEF SaveFails, server, Typed, TypeOK, TokensIssued, Issued
  <2>. QED  BY <1>17, <2>1, <2>2 DEF SaveFails
<1>18. ASSUME NEW a \in {"pair", "save"}, Take(a) PROVE Typed'
  <2>1. pc' \in [Actors -> PCs]
    BY <1>18, GotoTyped DEF Take, PCs
  <2>2. handle' \in Workers \cup {NoWorker} /\ aborted' \subseteq Workers
    BY <1>18 DEF Take, Typed, TypeOK
  <2>. QED  BY <1>1, <1>2, <1>18, <2>1, <2>2 DEF Take, server, history, Typed, TypeOK, TokensIssued, Issued
<1>19. ASSUME NEW a \in {"pair", "save"}, RespawnLoad(a) PROVE Typed'
  <2>1. CASE LoadTo(a, "start", Loaded)
    <3>1. Loaded \in Configs /\ Loaded.token \in Issued
      BY <2>1, LoadedTyped DEF LoadTo
    <3>2. PICK cfg \in Configs : cfg = Loaded
      BY <3>1
    <3>. QED  BY <1>7, <1>19, <2>1, <3>1, <3>2 DEF RespawnLoad, server, PCs
  <2>. QED  BY <1>8, <1>19, <2>1 DEF RespawnLoad, server
<1>20. ASSUME NEW a \in {"pair", "save"}, RespawnStart(a) PROVE Typed'
  <2>1. Default \in Configs /\ Default.token \in Issued /\ NoToken \in Issued
    BY DEF Default, Configs, Issued
  <2>2. copy[a].token \in Issued
    BY DEF Typed, TokensIssued
  <2>3. PICK w \in Workers \cup {NoWorker} :
          /\ handle' = w
          /\ pc' = [b \in Actors |-> IF b = w THEN "wait" ELSE IF b = a THEN "idle" ELSE pc[b]]
          /\ token' = [b \in Actors |-> IF b = w THEN copy[a].token
                                        ELSE IF b = a THEN NoToken ELSE token[b]]
    BY <1>20 DEF RespawnStart
  <2>4. pc' \in [Actors -> PCs] /\ token' \in [Actors -> Issued]
    BY <1>1, <2>1, <2>2, <2>3 DEF PCs
  <2>5. copy' \in [Actors -> Configs] /\ \A b \in Actors : copy'[b].token \in Issued
    BY <1>20, <2>1 DEF RespawnStart, Typed, TypeOK, TokensIssued
  <2>. QED  BY <1>1, <1>2, <1>20, <2>3, <2>4, <2>5 DEF RespawnStart, server, history, Typed, TypeOK
<1>21. ASSUME NEW w \in Workers, Worker(w) PROVE Typed'
  <2>1. CASE SendBatch(w) \/ BatchEnds(w) \/ BatchRefused(w) \/ FlagLost(w)
    BY <1>5, <2>1 DEF SendBatch, BatchEnds, BatchRefused, FlagLost, server, history, Typed, TypeOK, PCs
  <2>2. CASE ClearLoad(w)
    <3>1. CASE LoadTo(w, "loaded", [Loaded EXCEPT !.token = NoToken])
      <4>1. [Loaded EXCEPT !.token = NoToken] \in Configs /\ [Loaded EXCEPT !.token = NoToken].token \in Issued
        BY <3>1, LoadedTyped DEF LoadTo, Issued
      <4>2. PICK cfg \in Configs : cfg = [Loaded EXCEPT !.token = NoToken]
        BY <4>1
      <4>. QED  BY <1>7, <2>2, <3>1, <4>1, <4>2 DEF ClearLoad, server, PCs
    <3>2. CASE Goto(w, "flag") /\ UNCHANGED <<token, copy, fresh, raced>>
      BY <1>5, <2>2, <3>2 DEF ClearLoad, server, Typed, TypeOK, PCs
    <3>. QED  BY <2>2, <3>1, <3>2 DEF ClearLoad
  <2>3. CASE ClearSaved(w)
    BY <1>10, <2>3 DEF ClearSaved, server, PCs
  <2>4. CASE Drop(w)
    BY <1>6, <2>4 DEF Drop, server, history, Typed, TypeOK, TokensIssued, PCs
  <2>. QED  BY <1>21, <2>1, <2>2, <2>3, <2>4 DEF Worker
<1>22. ASSUME NEW a \in {"me", "submit"}, Send(a) PROVE Typed'
  <2>1. pc' \in [Actors -> PCs]
    BY <1>22, GotoTyped DEF Send, PCs
  <2>2. token' \in [Actors -> Issued]
    BY <1>1, <1>22, LoadedTyped DEF Send
  <2>. QED  BY <1>1, <1>2, <1>22, <2>1, <2>2 DEF Send, server, history, Typed, TypeOK, TokensIssued
<1>23. ASSUME NEW a \in Callers, Answered(a) PROVE Typed'
  <2>1. CASE (Goto(a, "yes") \/ Goto(a, "no")) /\ UNCHANGED <<token, copy>>
    BY <1>5, <1>23, <2>1 DEF Answered, server, history, Typed, TypeOK, PCs
  <2>2. CASE Leave(a, "idle")
    BY <1>6, <1>23, <2>2 DEF Answered, server, history, Typed, TypeOK, TokensIssued, PCs
  <2>. QED  BY <1>23, <2>1, <2>2 DEF Answered
<1>24. ASSUME NEW a \in Callers, Apply(a) PROVE Typed'
  BY <1>6, <1>24 DEF Apply, server, Typed, TypeOK, TokensIssued, PCs
<1>25. CASE HangarPush \/ HangarAnswered
  BY <1>1, <1>2, <1>25 DEF HangarPush, HangarAnswered, server, history, locals, Typed, TypeOK, TokensIssued
<1>26. CASE Restart
  <2>1. PICK cfg \in Configs : cfg = (IF file = Torn THEN Default ELSE Loaded) /\ cfg.token \in Issued
    <3>1. Default \in Configs /\ Default.token \in Issued
      BY DEF Default, Configs, Issued
    <3>. QED  BY <3>1, LoadedTyped
  <2>2. handle' \in Workers \cup {NoWorker} /\ restarts' \in 0..MaxRestarts
    BY <1>26 DEF Restart, Typed, TypeOK
  <2>3. pc' \in [Actors -> PCs]
    BY <1>26 DEF Restart, PCs
  <2>4. token' \in [Actors -> Issued]
    BY <1>26, <2>1 DEF Restart, Issued
  <2>5. copy' \in [Actors -> Configs] /\ \A b \in Actors : copy'[b].token \in Issued
    BY <1>26 DEF Restart, Default, Configs, Issued
  <2>6. hangar' \in [pc : {"off", "wait", "sent"}, token : Tokens \cup {NoToken}]
    BY <1>26, <2>1 DEF Restart, Configs
  <2>. QED  BY <1>1, <1>2, <1>26, <2>2, <2>3, <2>4, <2>5, <2>6 DEF Restart, Typed, TypeOK
<1>27. ASSUME NEW t \in Tokens, Revoke(t) PROVE Typed'
  BY <1>1, <1>2, <1>27 DEF Revoke, server, history, locals, Typed, TypeOK, TokensIssued
<1>. QED  BY <1>3, <1>4, <1>9, <1>11, <1>12, <1>13, <1>14, <1>15, <1>16, <1>17, <1>18, <1>19, <1>20, <1>21,
             <1>22, <1>23, <1>24, <1>25, <1>26, <1>27 DEF Next

LEMMA TypedStart ==
  ASSUME Init
  PROVE  Typed
<1>. USE ActorNames, NoneAssumption, BoundsAssumption DEF Init
<1>1. Default \in Configs /\ Default.token = NoToken
  BY DEF Default, Configs
<1>2. TokensIssued
  BY <1>1 DEF TokensIssued, Issued
<1>3. hangar \in [pc : {"off", "wait", "sent"}, token : Tokens \cup {NoToken}] /\ copy \in [Actors -> Configs]
  BY <1>1
<1>4. lastToken \in 0..MaxTokens /\ restarts \in 0..MaxRestarts
  BY SMT
<1>5. authLost \in BOOLEAN /\ raced \in BOOLEAN
  BY Zenon
<1>. QED  BY <1>2, <1>3, <1>4, <1>5 DEF Typed, TypeOK

(* The stored token, the session flags and the tasks' locals have their    *)
(* types, and nobody holds a token that was not issued.                    *)
THEOREM TrayTyped == Spec => []TypeOK
<1>1. Init => Typed
  BY TypedStart
<1>2. Typed /\ [Next]_vars => Typed'
  BY TypedStep
<1>3. Typed => TypeOK
  BY DEF Typed
<1>. QED  BY <1>1, <1>2, <1>3, PTL DEF Spec
-----------------------------------------------------------------------------
(* Served, of the next state.                                              *)
ServedNext(cfg) ==
  Startable(cfg) =>
    \/ \E w \in Workers : Live(w)' /\ token'[w] = cfg.token
    \/ \E a \in {"pair", "save"} : pc'[a] \in {"saved", "take", "respawn"}
    \/ \E a \in {"pair", "save"} : pc'[a] = "start" /\ copy'[a] = cfg

LEMMA FileServedNext ==
  ASSUME ~raced' => /\ file' \in Configs => ServedNext(file')
                    /\ Touches' => ServedNext(copy'["touch"])
  PROVE  FileServed'
  BY DEF FileServed, ServedNext, Served, Runs, Reloads, Startable

(* Tasks run on, and respawns that have begun go on.                       *)
TasksRun == \A w \in Workers : Live(w) => Live(w)' /\ token'[w] = token[w]
RespawnsGoOn ==
  \A a \in {"pair", "save"} :
    /\ pc[a] \in {"saved", "take", "respawn"} => pc'[a] \in {"saved", "take", "respawn"}
    /\ pc[a] = "start" => pc'[a] = "start" /\ copy'[a] = copy[a]

(* A config stays served while tasks run on and respawns go on.            *)
LEMMA ServedKept ==
  ASSUME TasksRun, RespawnsGoOn
  PROVE  \A cfg : Served(cfg) => ServedNext(cfg)
  BY DEF TasksRun, RespawnsGoOn, Served, ServedNext, Runs, Reloads

(* Steps of actor a that leave the file, the handle and who is fresh.      *)
LEMMA LocalStep ==
  ASSUME SessionInv, Typed', NEW a \in Actors,
         UNCHANGED <<file, handle, aborted, fresh, raced>>,
         \A b \in Actors \ {a} : pc'[b] = pc[b] /\ token'[b] = token[b] /\ copy'[b] = copy[b],
         pc[a] \notin {"off", "respawn", "start", "truncated"},
         pc'[a] \notin {"off", "loaded", "truncated"},
         a \in Workers => token'[a] = token[a],
         pc[a] \in {"saved", "take"} => pc'[a] \in {"saved", "take", "respawn"}
  PROVE  SessionInv'
<1>. USE ActorNames DEF SessionInv
<1>1. TasksRun /\ RespawnsGoOn
  BY DEF Live, TasksRun, RespawnsGoOn
<1>2. Touches' => Touches /\ UNCHANGED copy["touch"]
  BY DEF Touches
<1>3. FileServed'
  BY <1>1, <1>2, ServedKept, FileServedNext DEF FileServed
<1>4. FreshCopy'
  <2>1. Saving' <=> Saving
    BY DEF Saving
  <2>. QED  BY <2>1 DEF FreshCopy, Loaded
<1>5. WorkerClears' /\ HandleRuns'
  BY NoneAssumption DEF WorkerClears, HandleRuns, Typed, TypeOK
<1>. QED  BY <1>3, <1>4, <1>5

(* A command or a worker loads the config to change and save it.           *)
LEMMA LoadStep ==
  ASSUME SessionInv, Typed', NEW a \in Actors, NEW cfg \in Configs, cfg.token \in Issued,
         LoadTo(a, "loaded", cfg), UNCHANGED <<file, handle, aborted>>,
         pc[a] \notin {"off", "saved", "take", "respawn", "start", "truncated"},
         a = "touch" => cfg = Loaded, a \in Workers => cfg.token = NoToken
  PROVE  SessionInv'
<1>. USE ActorNames DEF SessionInv
<1>1. /\ pc'[a] = "loaded" /\ copy'[a] = cfg
      /\ \A b \in Actors \ {a} : pc'[b] = pc[b] /\ copy'[b] = copy[b]
      /\ UNCHANGED token /\ (~raced' => ~raced /\ ~Saving) /\ file # Torn
      /\ fresh' = fresh \cup {a}
  BY LoadToTyped DEF PCs, LoadTo
<1>2. TasksRun /\ RespawnsGoOn
  BY <1>1 DEF Live, TasksRun, RespawnsGoOn
<1>3. ~raced => /\ file \in Configs => ServedNext(file)
                /\ Touches => ServedNext(copy["touch"])
  BY <1>2, ServedKept DEF FileServed
<1>4. CASE a = "touch"
  <2>1. ~raced /\ file \in Configs => ServedNext(Loaded)
    BY <1>3, NoneAssumption DEF Loaded
  <2>2. file \notin Configs => ServedNext(Loaded)
    BY <1>1 DEF Loaded, Typed, TypeOK, Default, ServedNext, Startable
  <2>3. FileServed'
    BY <1>1, <1>3, <1>4, <2>1, <2>2, FileServedNext
  <2>4. FreshCopy'
    BY <1>1, <1>4 DEF FreshCopy, Loaded
  <2>. QED  BY <1>1, <1>4, <2>3, <2>4, NoneAssumption DEF WorkerClears, HandleRuns, Typed, TypeOK, AllParts
<1>5. CASE a # "touch"
  <2>1. Touches' => Touches /\ UNCHANGED copy["touch"]
    BY <1>1, <1>5 DEF Touches
  <2>2. FileServed'
    BY <1>1, <1>3, <2>1, FileServedNext
  <2>3. Saving' <=> Saving
    BY <1>1 DEF Saving
  <2>4. FreshCopy'
    BY <1>1, <1>5, <2>3 DEF FreshCopy, Loaded
  <2>5. WorkerClears' /\ HandleRuns'
    BY <1>1, NoneAssumption DEF WorkerClears, HandleRuns, Typed, TypeOK
  <2>. QED  BY <2>2, <2>4, <2>5
<1>. QED  BY <1>4, <1>5

(* The file is truncated: nothing is stored until the save goes on.        *)
LEMMA TruncateStep ==
  ASSUME SessionInv, Typed', NEW a \in Actors, Truncate(a)
  PROVE  SessionInv'
<1>. USE ActorNames, NoneAssumption DEF SessionInv
<1>1. /\ pc[a] = "loaded" /\ pc'[a] = "truncated" /\ \A b \in Actors \ {a} : pc'[b] = pc[b]
      /\ file' = Empty /\ UNCHANGED <<handle, token, copy, aborted, fresh, raced>>
  BY GotoTyped DEF Truncate, history, PCs
<1>2. TasksRun /\ RespawnsGoOn
  BY <1>1 DEF Live, TasksRun, RespawnsGoOn
<1>3. Touches' => Touches
  BY <1>1 DEF Touches
<1>4. FileServed'
  BY <1>1, <1>2, <1>3, ServedKept, FileServedNext DEF FileServed
<1>5. FreshCopy'
  BY <1>1 DEF FreshCopy, Saving
<1>6. WorkerClears' /\ HandleRuns'
  BY <1>1 DEF WorkerClears, HandleRuns, Typed, TypeOK
<1>. QED  BY <1>4, <1>5, <1>6

(* A save ends, and with it everybody's knowledge of the file.             *)
LEMMA SaveEnds ==
  ASSUME SessionInv, Typed', NEW a \in Actors, UNCHANGED <<handle, aborted>>, fresh' = {},
         \A b \in Actors \ {a} : pc'[b] = pc[b] /\ token'[b] = token[b] /\ copy'[b] = copy[b],
         pc[a] = "truncated", pc'[a] \notin {"off", "loaded", "truncated"},
         a \in Workers => token'[a] = token[a],
         ~raced' => ~raced,
         ~raced' /\ file' \in Configs =>
           \/ file' = file
           \/ ~Startable(file')
           \/ a \in {"pair", "save"} /\ pc'[a] \in {"saved", "take"}
           \/ a = "touch" /\ a \in fresh /\ file' = copy[a]
  PROVE  SessionInv'
<1>. USE ActorNames, NoneAssumption DEF SessionInv
<1>1. TasksRun /\ RespawnsGoOn
  BY DEF Live, TasksRun, RespawnsGoOn
<1>2. ~Touches' /\ FreshCopy'
  BY DEF Touches, FreshCopy
<1>3. ~raced' /\ file' \in Configs => ServedNext(file')
  <2>. SUFFICES ASSUME ~raced', file' \in Configs PROVE ServedNext(file')
    OBVIOUS
  <2>1. CASE file' = file \/ (a = "touch" /\ a \in fresh /\ file' = copy[a])
    BY <1>1, <2>1, ServedKept DEF FileServed, Touches
  <2>2. CASE ~Startable(file') \/ (a \in {"pair", "save"} /\ pc'[a] \in {"saved", "take"})
    BY <2>2 DEF ServedNext
  <2>. QED  BY <2>1, <2>2
<1>4. FileServed'
  BY <1>2, <1>3, FileServedNext
<1>5. WorkerClears' /\ HandleRuns'
  BY DEF WorkerClears, HandleRuns, Typed, TypeOK
<1>. QED  BY <1>2, <1>4, <1>5

(* respawn aborts the task it took; it will load the config again.         *)
LEMMA TakeStep ==
  ASSUME SessionInv, Typed', NEW a \in {"pair", "save"}, Take(a)
  PROVE  SessionInv'
<1>. USE ActorNames, NoneAssumption DEF SessionInv
<1>1. /\ pc[a] = "take" /\ pc'[a] = "respawn" /\ \A b \in Actors \ {a} : pc'[b] = pc[b]
      /\ handle' = NoWorker /\ aborted' = aborted \cup ({handle} \ {NoWorker})
      /\ UNCHANGED <<file, token, copy, fresh, raced>>
  BY GotoTyped DEF Take, history, PCs
<1>2. \A cfg : ServedNext(cfg)
  BY <1>1 DEF ServedNext
<1>3. FileServed'
  BY <1>2, FileServedNext
<1>4. FreshCopy'
  <2>1. Saving' <=> Saving
    BY <1>1 DEF Saving
  <2>. QED  BY <1>1, <2>1 DEF FreshCopy, Loaded
<1>5. WorkerClears'
  BY <1>1 DEF WorkerClears
<1>6. HandleRuns'
  BY <1>1 DEF HandleRuns, Typed, TypeOK, AllParts
<1>. QED  BY <1>3, <1>4, <1>5, <1>6

(* ... it has loaded what is stored, unless a save is under way.           *)
LEMMA RespawnLoadStep ==
  ASSUME SessionInv, Typed', NEW a \in {"pair", "save"}, RespawnLoad(a)
  PROVE  SessionInv'
<1>. USE ActorNames, NoneAssumption DEF SessionInv
<1>1. pc[a] = "respawn" /\ UNCHANGED <<file, handle, aborted>>
  BY DEF RespawnLoad
<1>2. CASE LoadTo(a, "start", Loaded)
  <2>1. Loaded \in Configs /\ Loaded.token \in Issued /\ file # Torn /\ fresh' = fresh
    BY <1>2, LoadedTyped DEF LoadTo
  <2>2. PICK cfg \in Configs : cfg = Loaded
    BY <2>1
  <2>3. /\ pc'[a] = "start" /\ copy'[a] = Loaded
        /\ \A b \in Actors \ {a} : pc'[b] = pc[b] /\ copy'[b] = copy[b]
        /\ UNCHANGED token /\ (~raced' => ~raced /\ ~Saving)
    BY <1>2, <2>1, <2>2, LoadToTyped DEF PCs
  <2>4. ServedNext(Loaded)
    BY <2>3 DEF ServedNext
  <2>5. Saving' <=> Saving
    BY <1>1, <2>3 DEF Saving
  <2>6. ~raced' /\ Touches' => copy'["touch"] = Loaded
    BY <2>1, <2>3 DEF Touches, FreshCopy, Saving
  <2>7. FileServed'
    BY <1>1, <2>4, <2>6, FileServedNext DEF Loaded
  <2>8. FreshCopy'
    BY <1>1, <2>1, <2>3, <2>5 DEF FreshCopy, Loaded
  <2>9. WorkerClears' /\ HandleRuns'
    BY <1>1, <2>3 DEF WorkerClears, HandleRuns, Typed, TypeOK, AllParts
  <2>. QED  BY <2>7, <2>8, <2>9
<1>3. CASE LoadFails(a)
  <2>1. /\ file = Torn /\ UNCHANGED <<fresh, raced>> /\ pc'[a] = "idle"
        /\ \A b \in Actors \ {a} : pc'[b] = pc[b] /\ token'[b] = token[b] /\ copy'[b] = copy[b]
    BY <1>3, LeaveTyped DEF LoadFails, PCs
  <2>2. fresh' = {} /\ ~Touches' /\ FreshCopy'
    BY <2>1 DEF FreshCopy, Touches
  <2>3. FileServed'
    BY <1>1, <2>1, <2>2, FileServedNext
  <2>4. WorkerClears' /\ HandleRuns'
    BY <1>1, <2>1 DEF WorkerClears, HandleRuns, Typed, TypeOK, AllParts
  <2>. QED  BY <2>2, <2>3, <2>4
<1>. QED  BY <1>2, <1>3 DEF RespawnLoad

(* ... and it starts a task in a free slot with what it has loaded.        *)
LEMMA RespawnStartStep ==
  ASSUME SessionInv, Typed', NEW a \in {"pair", "save"}, RespawnStart(a)
  PROVE  SessionInv'
<1>. USE ActorNames, NoneAssumption DEF SessionInv
<1>1. PICK cfg : cfg = copy[a]
  OBVIOUS
<1>2. PICK w : /\ w \in IF Startable(cfg) THEN {v \in Workers : pc[v] = "off"} ELSE {NoWorker}
               /\ handle' = w
               /\ pc' = [b \in Actors |-> IF b = w THEN "wait" ELSE IF b = a THEN "idle" ELSE pc[b]]
               /\ token' = [b \in Actors |-> IF b = w THEN cfg.token
                                             ELSE IF b = a THEN NoToken ELSE token[b]]
  BY <1>1 DEF RespawnStart
<1>3. /\ pc[a] = "start" /\ copy' = [copy EXCEPT ![a] = Default]
      /\ UNCHANGED <<file, aborted, fresh, raced>>
  BY DEF RespawnStart, history
<1>4. /\ \A b \in Actors \ {a} : copy'[b] = copy[b]
      /\ \A b \in Actors \ {a, w} : pc'[b] = pc[b] /\ token'[b] = token[b]
      /\ pc'[a] = "idle"
  <2>1. a # w
    BY <1>2 DEF AllParts, Actors
  <2>. QED  BY <1>2, <1>3, <2>1 DEF Typed, TypeOK
<1>5. TasksRun
  BY <1>2, <1>3, <1>4 DEF TasksRun, Live, AllParts
<1>6. Startable(cfg) => w \in Workers /\ Live(w)' /\ token'[w] = cfg.token
  BY <1>2, <1>3 DEF Live, HandleRuns
<1>7. \A c : Served(c) => ServedNext(c)
  <2>. SUFFICES ASSUME NEW c, Served(c), Startable(c) PROVE ServedNext(c)
    BY DEF ServedNext
  <2>1. CASE Runs(c)
    BY <1>5, <2>1 DEF Runs, TasksRun, ServedNext
  <2>2. CASE Reloads
    BY <1>2, <1>3, <1>4, <2>2 DEF Reloads, ServedNext, AllParts
  <2>3. CASE \E b \in {"pair", "save"} : pc[b] = "start" /\ copy[b] = c
    <3>1. PICK b \in {"pair", "save"} : pc[b] = "start" /\ copy[b] = c
      BY <2>3
    <3>2. CASE b = a
      BY <1>1, <1>6, <3>1, <3>2 DEF ServedNext
    <3>3. CASE b # a
      BY <1>2, <1>4, <3>1, <3>3 DEF ServedNext, AllParts
    <3>. QED  BY <3>2, <3>3
  <2>. QED  BY <2>1, <2>2, <2>3 DEF Served
<1>8. Touches' => Touches /\ UNCHANGED copy["touch"]
  BY <1>2, <1>3, <1>4 DEF Touches, AllParts
<1>9. FileServed'
  BY <1>3, <1>7, <1>8, FileServedNext DEF FileServed
<1>10. FreshCopy'
  <2>1. Saving' <=> Saving
    BY <1>2, <1>3, <1>4 DEF Saving, Typed, TypeOK
  <2>. QED  BY <1>2, <1>3, <1>4, <2>1 DEF FreshCopy, Loaded, AllParts
<1>11. WorkerClears' /\ HandleRuns'
  BY <1>2, <1>3, <1>4 DEF WorkerClears, HandleRuns, Typed, TypeOK, AllParts
<1>. QED  BY <1>9, <1>10, <1>11

LEMMA DropStep ==
  ASSUME SessionInv, Typed', NEW w \in Workers, Drop(w)
  PROVE  SessionInv'
<1>. USE ActorNames, NoneAssumption DEF SessionInv
<1>1. /\ w \in aborted /\ pc[w] \in {"wait", "sent"} /\ pc'[w] = "off" /\ aborted' = aborted \ {w}
      /\ \A b \in Actors \ {w} : pc'[b] = pc[b] /\ token'[b] = token[b] /\ copy'[b] = copy[b]
      /\ UNCHANGED <<file, handle, fresh, raced>>
  BY LeaveTyped DEF Drop, history, PCs
<1>2. TasksRun /\ RespawnsGoOn
  BY <1>1 DEF Live, TasksRun, RespawnsGoOn, AllParts
<1>3. Touches' => Touches /\ UNCHANGED copy["touch"]
  BY <1>1 DEF Touches, AllParts
<1>4. FileServed'
  BY <1>1, <1>2, <1>3, ServedKept, FileServedNext DEF FileServed
<1>5. FreshCopy'
  <2>1. Saving' <=> Saving
    BY <1>1 DEF Saving
  <2>. QED  BY <1>1, <2>1 DEF FreshCopy, Loaded, AllParts
<1>6. WorkerClears' /\ HandleRuns'
  BY <1>1 DEF WorkerClears, HandleRuns, Typed, TypeOK
<1>. QED  BY <1>4, <1>5, <1>6

(* A start runs what is stored.                                            *)
LEMMA RestartStep ==
  ASSUME SessionInv, Typed', Restart
  PROVE  SessionInv'
<1>. USE ActorNames, NoneAssumption DEF SessionInv
<1>1. PICK cfg : cfg = (IF file = Torn THEN Default ELSE Loaded)
  OBVIOUS
<1>2. /\ (Startable(cfg) /\ handle' \in Workers) \/ (~Startable(cfg) /\ handle' = NoWorker)
      /\ \A b \in Actors : pc'[b] \notin {"loaded", "truncated"}
      /\ \A w \in Workers : w = handle' => pc'[w] = "wait" /\ token'[w] = cfg.token
      /\ aborted' = {} /\ fresh' = {} /\ file' = file
  <2>1. PICK step, tk :
          /\ pc' = step /\ token' = tk
          /\ step = [b \in Actors |->
                      CASE b = handle' -> "wait"
                        [] b = "hydrate" /\ "hydrate" \in Parts /\ cfg.token # NoToken -> "sent"
                        [] b \in Workers \ {handle'} -> "off"
                        [] OTHER -> "idle"]
          /\ tk = [b \in Actors |->
                    IF b = handle' \/ (b = "hydrate" /\ ("hydrate" \in Parts /\ cfg.token # NoToken))
                    THEN cfg.token ELSE NoToken]
    BY <1>1 DEF Restart
  <2>2. /\ (Startable(cfg) /\ handle' \in Workers) \/ (~Startable(cfg) /\ handle' = NoWorker)
        /\ aborted' = {} /\ fresh' = {} /\ file' = file
    BY <1>1 DEF Restart
  <2>3. \A b \in Actors : pc'[b] \notin {"loaded", "truncated"}
    BY <2>1
  <2>4. \A w \in Workers : w = handle' => pc'[w] = "wait" /\ token'[w] = cfg.token
    BY <2>1 DEF Actors, AllParts, Callers
  <2>. QED  BY <2>2, <2>3, <2>4
<1>3. FreshCopy' /\ WorkerClears' /\ HandleRuns' /\ ~Touches'
  BY <1>2 DEF FreshCopy, WorkerClears, HandleRuns, Touches
<1>4. file \in Configs => ServedNext(file)
  BY <1>1, <1>2 DEF ServedNext, Live, Loaded
<1>5. FileServed'
  BY <1>2, <1>3, <1>4, FileServedNext
<1>. QED  BY <1>3, <1>5

LEMMA SessionStep ==
  ASSUME SessionInv, [Next]_vars
  PROVE  SessionInv'
<1>. USE ActorNames, NoneAssumption
<1>1. Typed /\ Typed'
  BY TypedStep DEF SessionInv
<1>2. ASSUME UNCHANGED <<file, handle, pc, token, copy, aborted, fresh, raced>>
      PROVE  SessionInv'
  BY <1>1, <1>2 DEF SessionInv, FileServed, FreshCopy, WorkerClears, HandleRuns, Served, Runs, Reloads,
       Startable, Touches, Saving, Loaded, Live
<1>3. CASE PairRedeem \/ PairClearsLost
  <2>1. /\ pc'["pair"] \in {"redeemed", "take"} /\ pc["pair"] \in {"idle", "saved"}
        /\ pc["pair"] = "saved" => pc'["pair"] = "take"
        /\ \A b \in Actors \ {"pair"} : pc'[b] = pc[b] /\ token'[b] = token[b] /\ copy'[b] = copy[b]
        /\ UNCHANGED <<file, handle, aborted, fresh, raced>>
    BY <1>1, <1>3, GotoTyped DEF PairRedeem, PairClearsLost, history, PCs, Typed, TypeOK
  <2>. QED  BY <1>1, <2>1, LocalStep DEF AllParts
<1>4. CASE PairLoad
  <2>1. CASE LoadTo("pair", "loaded", [token |-> token["pair"], enabled |-> TRUE])
    <3>1. PICK cfg \in Configs : cfg = [token |-> token["pair"], enabled |-> TRUE] /\ cfg.token \in Issued
      <4>1. token["pair"] \in Issued /\ token["pair"] \in Tokens \cup {NoToken}
        BY <1>1, BoundsAssumption DEF Typed, TypeOK, Issued, Tokens
      <4>2. [token |-> token["pair"], enabled |-> TRUE] \in Configs
        BY <4>1 DEF Configs
      <4>. QED  BY <4>1, <4>2
    <3>. QED  BY <1>1, <1>4, <2>1, <3>1, LoadStep DEF PairLoad, AllParts
  <2>2. CASE LoadFails("pair")
    <3>1. /\ pc["pair"] = "redeemed" /\ pc'["pair"] = "idle" /\ UNCHANGED <<file, handle, aborted, fresh, raced>>
          /\ \A b \in Actors \ {"pair"} : pc'[b] = pc[b] /\ token'[b] = token[b] /\ copy'[b] = copy[b]
      BY <1>1, <1>4, <2>2, LeaveTyped DEF PairLoad, LoadFails, PCs
    <3>. QED  BY <1>1, <3>1, LocalStep DEF AllParts
  <2>. QED  BY <1>4, <2>1, <2>2 DEF PairLoad
<1>5. CASE GetConfig
  <2>1. PICK e \in BOOLEAN : LoadTo("save", "loaded", [Loaded EXCEPT !.enabled = e])
    BY <1>5 DEF GetConfig
  <2>2. PICK cfg \in Configs : cfg = [Loaded EXCEPT !.enabled = e] /\ cfg.token \in Issued
    BY <1>1, <2>1, LoadedTyped DEF LoadTo
  <2>. QED  BY <1>1, <1>5, <2>1, <2>2, LoadStep DEF GetConfig, AllParts
<1>6. CASE TouchLoad
  <2>1. PICK cfg \in Configs : cfg = Loaded /\ cfg.token \in Issued
    BY <1>1, <1>6, LoadedTyped DEF TouchLoad, LoadTo
  <2>. QED  BY <1>1, <1>6, <2>1, LoadStep DEF TouchLoad, AllParts
<1>7. CASE PairSaved \/ SaveSaved
  <2>1. PICK a \in {"pair", "save"} : /\ WriteFile(a) /\ (Goto(a, "saved") \/ Goto(a, "take"))
                                      /\ UNCHANGED <<handle, token, copy, aborted>>
    BY <1>7 DEF PairSaved, SaveSaved
  <2>2. /\ pc[a] = "truncated" /\ pc'[a] \in {"saved", "take"} /\ \A b \in Actors \ {a} : pc'[b] = pc[b]
        /\ fresh' = {} /\ (~raced' => ~raced)
    BY <1>1, <2>1, GotoTyped, WriteFileTyped DEF WriteFile, PCs
  <2>. QED  BY <1>1, <2>1, <2>2, SaveEnds DEF AllParts
<1>8. CASE TouchSaved
  <2>1. /\ pc["touch"] = "truncated" /\ pc'["touch"] = "idle" /\ UNCHANGED <<handle, aborted>>
        /\ \A b \in Actors \ {"touch"} : pc'[b] = pc[b] /\ token'[b] = token[b] /\ copy'[b] = copy[b]
        /\ fresh' = {} /\ (~raced' => ~raced /\ "touch" \in fresh)
        /\ file' \in Configs => file' = copy["touch"]
    BY <1>1, <1>8, LeaveTyped, WriteFileTyped DEF TouchSaved, WriteFile, PCs
  <2>. QED  BY <1>1, <2>1, SaveEnds DEF AllParts
<1>9. ASSUME NEW a \in Actors, SaveFails(a) PROVE SessionInv'
  <2>1. /\ pc[a] = "truncated" /\ pc'[a] \in {"idle", "flag"} /\ UNCHANGED <<file, handle, aborted, raced>>
        /\ \A b \in Actors \ {a} : pc'[b] = pc[b] /\ token'[b] = token[b] /\ copy'[b] = copy[b]
        /\ fresh' = {} /\ (a \in Workers => token'[a] = token[a])
    BY <1>1, <1>9, LeaveTyped, GotoTyped DEF SaveFails, PCs
  <2>. QED  BY <1>1, <2>1, SaveEnds
<1>10. ASSUME NEW w \in Workers, Worker(w) PROVE SessionInv'
  <2>1. CASE SendBatch(w) \/ BatchEnds(w) \/ BatchRefused(w) \/ FlagLost(w)
    <3>1. /\ pc[w] \in {"wait", "sent", "flag"} /\ pc'[w] \in {"wait", "sent", "clear"}
          /\ \A b \in Actors \ {w} : pc'[b] = pc[b]
          /\ UNCHANGED <<file, handle, token, copy, aborted, fresh, raced>>
      BY <1>1, <2>1, GotoTyped DEF SendBatch, BatchEnds, BatchRefused, FlagLost, history, PCs
    <3>. QED  BY <1>1, <3>1, LocalStep
  <2>2. CASE ClearLoad(w)
    <3>1. CASE LoadTo(w, "loaded", [Loaded EXCEPT !.token = NoToken])
      <4>1. PICK cfg \in Configs : cfg = [Loaded EXCEPT !.token = NoToken] /\ cfg.token = NoToken
        BY <1>1, <3>1, LoadedTyped DEF LoadTo
      <4>2. NoToken \in Issued /\ w # "touch"
        BY DEF Issued, AllParts
      <4>. QED  BY <1>1, <2>2, <3>1, <4>1, <4>2, LoadStep DEF ClearLoad
    <3>2. CASE Goto(w, "flag") /\ UNCHANGED <<token, copy, fresh, raced>>
      <4>1. /\ pc[w] = "clear" /\ pc'[w] = "flag" /\ \A b \in Actors \ {w} : pc'[b] = pc[b]
            /\ UNCHANGED <<file, handle, token, copy, aborted, fresh, raced>>
        BY <1>1, <2>2, <3>2, GotoTyped DEF ClearLoad, PCs
      <4>. QED  BY <1>1, <4>1, LocalStep
    <3>. QED  BY <2>2, <3>1, <3>2 DEF ClearLoad
  <2>3. CASE ClearSaved(w)
    <3>1. /\ pc[w] = "truncated" /\ pc'[w] = "flag" /\ UNCHANGED <<handle, aborted, token>>
          /\ \A b \in Actors \ {w} : pc'[b] = pc[b] /\ copy'[b] = copy[b]
          /\ fresh' = {} /\ (~raced' => ~raced)
          /\ file' \in Configs => file' = copy[w]
      BY <1>1, <2>3, GotoTyped, WriteFileTyped DEF ClearSaved, WriteFile, PCs, Typed, TypeOK
    <3>2. file' \in Configs => ~Startable(file')
      BY <3>1 DEF SessionInv, WorkerClears, Startable
    <3>. QED  BY <1>1, <3>1, <3>2, SaveEnds
  <2>. QED  BY <1>1, <1>10, <2>1, <2>2, <2>3, DropStep DEF Worker
<1>11. ASSUME NEW a \in {"me", "submit"}, Send(a) PROVE SessionInv'
  <2>1. /\ pc[a] = "idle" /\ pc'[a] = "sent" /\ a \notin Workers
        /\ \A b \in Actors \ {a} : pc'[b] = pc[b] /\ token'[b] = token[b] /\ copy'[b] = copy[b]
        /\ UNCHANGED <<file, handle, aborted, fresh, raced>>
    BY <1>1, <1>11, GotoTyped DEF Send, history, PCs, Typed, TypeOK, AllParts, Callers
  <2>. QED  BY <1>1, <2>1, LocalStep
<1>12. ASSUME NEW a \in Callers, Answered(a) \/ Apply(a) PROVE SessionInv'
  <2>1. /\ pc[a] \in {"sent", "yes", "no"} /\ pc'[a] \in {"yes", "no", "idle"} /\ a \notin Workers
        /\ \A b \in Actors \ {a} : pc'[b] = pc[b] /\ token'[b] = token[b] /\ copy'[b] = copy[b]
        /\ UNCHANGED <<file, handle, aborted, fresh, raced>>
    BY <1>1, <1>12, GotoTyped, LeaveTyped DEF Answered, Apply, history, PCs, AllParts
  <2>. QED  BY <1>1, <2>1, LocalStep
<1>13. CASE UNCHANGED vars \/ HangarPush \/ HangarAnswered \/ \E t \in Tokens : Revoke(t)
  BY <1>2, <1>13 DEF vars, HangarPush, HangarAnswered, Revoke, locals, history
<1>. QED  BY <1>1, <1>3, <1>4, <1>5, <1>6, <1>7, <1>8, <1>9, <1>10, <1>11, <1>12, <1>13,
             TruncateStep, TakeStep, RespawnLoadStep, RespawnStartStep, RestartStep
          DEF Next

(* Whatever the order of pairing, settings, refusals and restarts: when no *)
(* save or respawn is under way and no save has raced, what config.toml    *)
(* says is what a live worker runs (sync.rs, commands.rs).                 *)
THEOREM ConfigAlwaysRunning == Spec => []ConfigIsRunning
<1>1. Init => SessionInv
  <2>. SUFFICES ASSUME Init PROVE SessionInv
    OBVIOUS
  <2>1. Typed
    BY TypedStart
  <2>2. FileServed /\ FreshCopy
    BY ActorNames, NoneAssumption DEF Init, FileServed, FreshCopy, Touches
  <2>3. WorkerClears /\ HandleRuns
    BY ActorNames, NoneAssumption DEF Init, WorkerClears, HandleRuns
  <2>. QED  BY <2>1, <2>2, <2>3 DEF SessionInv
<1>2. SessionInv /\ [Next]_vars => SessionInv'
  BY SessionStep
<1>3. SessionInv => ConfigIsRunning
  BY ActorNames, NoneAssumption
     DEF SessionInv, FileServed, Served, Runs, Reloads, ConfigIsRunning, Quiet, Loaded
<1>. QED  BY <1>1, <1>2, <1>3, PTL DEF Spec
=============================================================================
