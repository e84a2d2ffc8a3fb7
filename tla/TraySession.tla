----------------------------- MODULE TraySession -----------------------------
(***************************************************************************)
(* The device session of the desktop client (crates/starstats-client):     *)
(* config.toml, AccountStatus::auth_lost, the sync worker of sync.rs, the  *)
(* hangar worker of hangar.rs, and the commands of commands.rs that load,  *)
(* change and save the config or answer to a 401.  Commands and workers    *)
(* run in parallel on the async runtime; config::save truncates the file   *)
(* and then writes it, and nothing orders it with a load elsewhere.        *)
(***************************************************************************)
EXTENDS Integers, FiniteSets

CONSTANTS
  Parts,        \* the commands and helpers in use, of AllParts
  Workers,      \* slots for sync worker tasks, live or being torn down
  MaxTokens,    \* bound on device tokens ever issued (exploration only)
  MaxRevoked,   \* bound on tokens revoked (exploration only)
  MaxRestarts,  \* bound on restarts of the tray (exploration only)
  NoToken, NoWorker,
  Empty,        \* config.toml missing or just truncated
  Torn          \* config.toml that does not parse: two writes overlaid

(* Callers send a request and act on the answer: refresh_account_info,     *)
(* submit_unknown_lines and the hydration of a start.                      *)
Callers == {"me", "submit", "hydrate"}
AllParts == {"pair", "save", "touch", "hangar"} \cup Callers

ASSUME PartsAssumption == Parts \subseteq AllParts
ASSUME WorkersAssumption == Workers \cap (AllParts) = {}
ASSUME BoundsAssumption == {MaxTokens, MaxRevoked, MaxRestarts} \subseteq Nat

Tokens == 1..MaxTokens
Configs == [token : Tokens \cup {NoToken}, enabled : BOOLEAN]
Default == [token |-> NoToken, enabled |-> FALSE]
Actors == AllParts \cup Workers

ASSUME NoneAssumption ==
  NoToken \notin Nat /\ NoWorker \notin Actors /\ Empty # Torn /\ {Empty, Torn} \cap Configs = {}

VARIABLES
  lastToken,    \* tokens 1..lastToken have been issued by pairing
  revoked,      \* tokens whose device the server has revoked
  file,         \* config.toml: a config, Empty or Torn
  authLost,     \* AccountStatus::auth_lost
  handle,       \* AppState::sync_handle
  pc,           \* [Actors -> step of the command or worker]
  token,        \* [Actors -> token it holds]
  copy,         \* [Actors -> config it has loaded]
  aborted,      \* workers told to stop
  hangar,       \* hangar worker: [pc, token]
  restarts,     \* restarts of the tray so far
  fresh,        \* history: actors about to save a copy of the present file
  raced         \* history: a stale copy was saved or a half-saved file read

server == <<lastToken, revoked, restarts>>
history == <<fresh, raced>>
locals == <<pc, token, copy>>
vars == <<server, file, authLost, handle, locals, aborted, hangar, history>>

Init ==
  /\ lastToken = 0 /\ revoked = {} /\ restarts = 0
  /\ file = Empty
  /\ authLost = FALSE
  /\ handle = NoWorker
  /\ pc = [a \in Actors |-> IF a \in Workers THEN "off" ELSE "idle"]
  /\ token = [a \in Actors |-> NoToken]
  /\ copy = [a \in Actors |-> Default]
  /\ aborted = {}
  /\ hangar = [pc |-> "off", token |-> NoToken]
  /\ fresh = {} /\ raced = FALSE

(* A command returns, or a task ends, and its locals are gone.             *)
Leave(a, step) ==
  /\ pc' = [pc EXCEPT ![a] = step]
  /\ token' = [token EXCEPT ![a] = NoToken]
  /\ copy' = [copy EXCEPT ![a] = Default]

Goto(a, step) == pc' = [pc EXCEPT ![a] = step]
Live(w) == pc[w] # "off" /\ w \notin aborted
-----------------------------------------------------------------------------
(* config::load and config::save.                                          *)
Saving == \E a \in Actors : pc[a] = "truncated"

Loaded == IF file = Empty THEN Default ELSE file

(* load succeeds and the actor goes on with the result, changed by its     *)
(* edit.                                                                   *)
LoadTo(a, step, cfg) ==
  /\ file # Torn
  /\ copy' = [copy EXCEPT ![a] = cfg]
  /\ fresh' = IF step = "loaded" THEN fresh \cup {a} ELSE fresh
  /\ raced' = (raced \/ Saving)
  /\ Goto(a, step)
  /\ UNCHANGED token

(* load fails and the command returns.                                     *)
LoadFails(a) ==
  /\ file = Torn
  /\ Leave(a, "idle")
  /\ UNCHANGED <<fresh, raced>>

(* fs::write opens the file for truncation ...                             *)
Truncate(a) ==
  /\ pc[a] = "loaded"
  /\ file' = Empty
  /\ Goto(a, "truncated")
  /\ UNCHANGED <<server, authLost, handle, token, copy, aborted, hangar, history>>

(* ... and writes it from the start; over what another save has written    *)
(* since, the longer old text stays behind the new one.                    *)
WriteFile(a) ==
  /\ pc[a] = "truncated"
  /\ file' \in {copy[a]} \cup (IF file = Empty THEN {} ELSE {Torn})
  /\ raced' = (raced \/ a \notin fresh)
  /\ fresh' = {}

(* The write fails: a command returns the error and leaves the truncated   *)
(* file; a worker logs it and goes on.                                     *)
SaveFails(a) ==
  /\ pc[a] = "truncated"
  /\ fresh' = {}
  /\ \/ a \notin Workers /\ Leave(a, "idle")
     \/ a \in Workers /\ Goto(a, "flag") /\ UNCHANGED <<token, copy>>
  /\ UNCHANGED <<server, file, authLost, handle, aborted, hangar, raced>>
-----------------------------------------------------------------------------
(* sync::respawn, called by pair_device and save_config.                   *)

Take(a) ==
  /\ pc[a] = "take"
  /\ handle' = NoWorker
  /\ aborted' = aborted \cup ({handle} \ {NoWorker})
  /\ Goto(a, "respawn")
  /\ UNCHANGED <<server, file, authLost, token, copy, hangar, history>>

(* config::load of respawn; an error leaves the worker stopped.            *)
RespawnLoad(a) ==
  /\ pc[a] = "respawn"
  /\ LoadTo(a, "start", Loaded) \/ LoadFails(a)
  /\ UNCHANGED <<server, file, authLost, handle, aborted, hangar>>

(* sync::start for cfg: a task if sync is enabled and the config complete. *)
Startable(cfg) == cfg.enabled /\ cfg.token # NoToken

RespawnStart(a) ==
  LET cfg == copy[a]
      next == IF Startable(cfg) THEN {w \in Workers : pc[w] = "off"} ELSE {NoWorker}
  IN
  /\ pc[a] = "start"
  /\ \E w \in next :
       /\ handle' = w
       /\ pc' = [b \in Actors |-> IF b = w THEN "wait" ELSE IF b = a THEN "idle" ELSE pc[b]]
       /\ token' = [b \in Actors |-> IF b = w THEN cfg.token
                                     ELSE IF b = a THEN NoToken ELSE token[b]]
  /\ copy' = [copy EXCEPT ![a] = Default]
  /\ UNCHANGED <<server, file, authLost, aborted, hangar, history>>
-----------------------------------------------------------------------------
(* Mutant of PairRedeem: a token nobody has issued.                        *)
PairRedeemUncounted ==
  /\ "pair" \in Parts /\ pc["pair"] = "idle"
  /\ lastToken < MaxTokens
  /\ token' = [token EXCEPT !["pair"] = lastToken + 1]
  /\ Goto("pair", "redeemed")
  /\ UNCHANGED <<server, file, authLost, handle, copy, aborted, hangar, history>>

(* pair_device: the server issues a token ...                              *)
PairRedeem ==
  /\ "pair" \in Parts /\ pc["pair"] = "idle"
  /\ lastToken < MaxTokens
  /\ lastToken' = lastToken + 1
  /\ token' = [token EXCEPT !["pair"] = lastToken + 1]
  /\ Goto("pair", "redeemed")
  /\ UNCHANGED <<revoked, restarts, file, authLost, handle, copy, aborted, hangar, history>>

(* ... the config is loaded and gets the token, or the command fails ...   *)
PairLoad ==
  /\ pc["pair"] = "redeemed"
  /\ \/ LoadTo("pair", "loaded", [token |-> token["pair"], enabled |-> TRUE])
     \/ LoadFails("pair")
  /\ UNCHANGED <<server, file, authLost, handle, aborted, hangar>>

PairSaved ==
  /\ WriteFile("pair") /\ Goto("pair", "saved")
  /\ UNCHANGED <<server, authLost, handle, token, copy, aborted, hangar>>

(* ... auth_lost is cleared before the respawn.                            *)
PairClearsLost ==
  /\ pc["pair"] = "saved"
  /\ authLost' = FALSE
  /\ Goto("pair", "take")
  /\ UNCHANGED <<server, file, handle, token, copy, aborted, hangar, history>>

(* get_config hands the UI a copy in which the user may toggle enabled ... *)
GetConfig ==
  /\ "save" \in Parts /\ pc["save"] = "idle"
  /\ \E e \in BOOLEAN : LoadTo("save", "loaded", [Loaded EXCEPT !.enabled = e])
  /\ UNCHANGED <<server, file, authLost, handle, aborted, hangar>>

(* Mutant of SaveSaved: save_config does not respawn.                      *)
SaveSavedOnly ==
  /\ WriteFile("save") /\ Leave("save", "idle")
  /\ UNCHANGED <<server, authLost, handle, aborted, hangar>>

(* ... that save_config writes whole before it respawns.                   *)
SaveSaved ==
  /\ WriteFile("save") /\ Goto("save", "take")
  /\ UNCHANGED <<server, authLost, handle, token, copy, aborted, hangar>>

(* dismiss_health and get_or_create_client_anon_id: load, change a field   *)
(* of no concern here, save.                                               *)
TouchLoad ==
  /\ "touch" \in Parts /\ pc["touch"] = "idle"
  /\ LoadTo("touch", "loaded", Loaded)
  /\ UNCHANGED <<server, file, authLost, handle, aborted, hangar>>

TouchSaved ==
  /\ WriteFile("touch") /\ Leave("touch", "idle")
  /\ UNCHANGED <<server, authLost, handle, aborted, hangar>>
-----------------------------------------------------------------------------
(* The server.                                                             *)
Revoke(t) ==
  /\ t \in 1..lastToken \ revoked
  /\ Cardinality(revoked) < MaxRevoked
  /\ revoked' = revoked \cup {t}
  /\ UNCHANGED <<lastToken, restarts, file, authLost, handle, locals, aborted, hangar, history>>

(* The extractor accepts a token that is not revoked.  It may refuse any:  *)
(* a lookup of the device that fails is answered 401 as well.              *)
Accepts(t) == t \notin revoked
-----------------------------------------------------------------------------
(* The sync worker.                                                        *)

(* A loop iteration that finds events to send; auth_lost skips it.         *)
SendBatch(w) ==
  /\ pc[w] = "wait" /\ w \notin aborted
  /\ ~authLost
  /\ Goto(w, "sent")
  /\ UNCHANGED <<server, file, authLost, handle, token, copy, aborted, hangar, history>>

(* 2xx, a network error or another status: back to the loop.               *)
BatchEnds(w) ==
  /\ pc[w] = "sent" /\ w \notin aborted
  /\ Goto(w, "wait")
  /\ UNCHANGED <<server, file, authLost, handle, token, copy, aborted, hangar, history>>

(* 401: from here to the flag there is no await, so no abort either.       *)
BatchRefused(w) ==
  /\ pc[w] = "sent" /\ w \notin aborted
  /\ Goto(w, "clear")
  /\ UNCHANGED <<server, file, authLost, handle, token, copy, aborted, hangar, history>>

(* clear_persisted_device_token loads ...; a failure is only logged.       *)
ClearLoad(w) ==
  /\ pc[w] = "clear"
  /\ \/ LoadTo(w, "loaded", [Loaded EXCEPT !.token = NoToken])
     \/ file = Torn /\ Goto(w, "flag") /\ UNCHANGED <<token, copy, fresh, raced>>
  /\ UNCHANGED <<server, file, authLost, handle, aborted, hangar>>

(* ... and saves.                                                          *)
ClearSaved(w) ==
  /\ WriteFile(w) /\ Goto(w, "flag")
  /\ copy' = [copy EXCEPT ![w] = Default]
  /\ UNCHANGED <<server, authLost, handle, token, aborted, hangar>>

(* Mutant of FlagLost: the worker bails out before it sets the flag.       *)
FlagLostMissing(w) ==
  /\ pc[w] = "flag"
  /\ Goto(w, "wait")
  /\ UNCHANGED <<server, file, authLost, handle, token, copy, aborted, hangar, history>>

FlagLost(w) ==
  /\ pc[w] = "flag"
  /\ authLost' = TRUE
  /\ Goto(w, "wait")
  /\ UNCHANGED <<server, file, handle, token, copy, aborted, hangar, fresh, raced>>

(* An aborted task is dropped at its next await.                           *)
Drop(w) ==
  /\ w \in aborted /\ pc[w] \in {"wait", "sent"}
  /\ Leave(w, "off")
  /\ aborted' = aborted \ {w}
  /\ UNCHANGED <<server, file, authLost, handle, hangar, history>>
-----------------------------------------------------------------------------
(* refresh_account_info and submit_unknown_lines send the stored token.    *)
Send(a) ==
  /\ a \in Parts \cap {"me", "submit"} /\ pc[a] = "idle"
  /\ file # Torn /\ Loaded.token # NoToken
  /\ token' = [token EXCEPT ![a] = Loaded.token]
  /\ Goto(a, "sent")
  /\ UNCHANGED <<server, file, authLost, handle, copy, aborted, hangar, history>>

(* Answered by the server, not yet acted on; "idle": a network error.      *)
Answered(a) ==
  /\ pc[a] = "sent"
  /\ \/ Accepts(token[a]) /\ Goto(a, "yes") /\ UNCHANGED <<token, copy>>
     \/ Goto(a, "no") /\ UNCHANGED <<token, copy>>
     \/ Leave(a, "idle")
  /\ UNCHANGED <<server, file, authLost, handle, aborted, hangar, history>>

(* fetch_me (hydration, refresh) writes the answer into auth_lost; a       *)
(* submission only sets it.  Neither clears the stored token.              *)
Apply(a) ==
  /\ \/ /\ pc[a] = "yes"
        /\ authLost' = IF a = "submit" THEN authLost ELSE FALSE
     \/ /\ pc[a] = "no"
        /\ authLost' = TRUE
  /\ Leave(a, "idle")
  /\ UNCHANGED <<server, file, handle, aborted, hangar, fresh, raced>>
-----------------------------------------------------------------------------
(* The hangar worker keeps the token it was started with; its push is      *)
(* gated on auth_lost and a refusal is only recorded.                      *)
HangarPush ==
  /\ hangar.pc = "wait" /\ ~authLost
  /\ hangar' = [hangar EXCEPT !.pc = "sent"]
  /\ UNCHANGED <<server, file, authLost, handle, locals, aborted, history>>

HangarAnswered ==
  /\ hangar.pc = "sent"
  /\ hangar' = [hangar EXCEPT !.pc = "wait"]
  /\ UNCHANGED <<server, file, authLost, handle, locals, aborted, history>>

(* The tray is closed or dies, and starts: start_sync_workers loads the    *)
(* config (its default if that fails), starts the workers and asks for     *)
(* /v1/auth/me when there is a token.                                      *)
Restart ==
  LET cfg == IF file = Torn THEN Default ELSE Loaded
      fetches == "hydrate" \in Parts /\ cfg.token # NoToken
      pushes == "hangar" \in Parts /\ cfg.token # NoToken
      started(w) == [a \in Actors |->
                       CASE a = w -> "wait"
                         [] a = "hydrate" /\ fetches -> "sent"
                         [] a \in Workers \ {w} -> "off"
                         [] OTHER -> "idle"]
  IN
  /\ restarts < MaxRestarts /\ restarts' = restarts + 1
  /\ \/ Startable(cfg) /\ \E w \in Workers : handle' = w
     \/ ~Startable(cfg) /\ handle' = NoWorker
  /\ pc' = started(handle')
  /\ token' = [a \in Actors |-> IF a = handle' \/ (a = "hydrate" /\ fetches)
                                THEN cfg.token ELSE NoToken]
  /\ copy' = [a \in Actors |-> Default]
  /\ aborted' = {} /\ authLost' = FALSE
  /\ hangar' = IF pushes THEN [pc |-> "wait", token |-> cfg.token]
                          ELSE [pc |-> "off", token |-> NoToken]
  /\ fresh' = {} /\ raced' = FALSE
  /\ UNCHANGED <<lastToken, revoked, file>>
-----------------------------------------------------------------------------
Worker(w) ==
  \/ SendBatch(w) \/ BatchEnds(w) \/ BatchRefused(w)
  \/ ClearLoad(w) \/ ClearSaved(w) \/ FlagLost(w) \/ Drop(w)

Next ==
  \/ PairRedeem \/ PairLoad \/ PairSaved \/ PairClearsLost
  \/ GetConfig \/ SaveSaved
  \/ TouchLoad \/ TouchSaved
  \/ \E a \in Actors : Truncate(a) \/ SaveFails(a)
  \/ \E a \in {"pair", "save"} : Take(a) \/ RespawnLoad(a) \/ RespawnStart(a)
  \/ \E w \in Workers : Worker(w)
  \/ \E a \in {"me", "submit"} : Send(a)
  \/ \E a \in Callers : Answered(a) \/ Apply(a)
  \/ HangarPush \/ HangarAnswered
  \/ Restart
  \/ \E t \in Tokens : Revoke(t)

Spec == Init /\ [][Next]_vars

(* Worker tasks and commands that have started are scheduled, and a        *)
(* request that is sent for ever is answered now and then.                 *)
Fairness ==
  /\ \A w \in Workers :
       /\ WF_vars(SendBatch(w)) /\ SF_vars(token[w] \in revoked /\ BatchRefused(w))
       /\ WF_vars(BatchEnds(w))
       /\ WF_vars(ClearLoad(w)) /\ WF_vars(Truncate(w)) /\ WF_vars(ClearSaved(w))
       /\ WF_vars(FlagLost(w)) /\ WF_vars(Drop(w))
  /\ \A a \in Callers : WF_vars(Apply(a))

FairSpec == Spec /\ Fairness
-----------------------------------------------------------------------------
(* Types of the stored config, the session flags and the tasks' locals.    *)
TypeOK ==
  /\ lastToken \in 0..MaxTokens /\ revoked \subseteq 1..lastToken /\ restarts \in 0..MaxRestarts
  /\ file \in Configs \cup {Empty, Torn}
  /\ authLost \in BOOLEAN
  /\ handle \in Workers \cup {NoWorker}
  /\ pc \in [Actors -> {"off", "idle", "redeemed", "loaded", "truncated", "saved", "take",
                         "respawn", "start", "wait", "sent", "clear", "flag", "yes", "no"}]
  /\ token \in [Actors -> 1..lastToken \cup {NoToken}]
  /\ copy \in [Actors -> Configs]
  /\ aborted \subseteq Workers
  /\ hangar \in [pc : {"off", "wait", "sent"}, token : Tokens \cup {NoToken}]
  /\ fresh \subseteq Actors /\ raced \in BOOLEAN

(* No save or respawn is under way.                                        *)
Quiet == \A a \in Actors : pc[a] \notin {"truncated", "saved", "take", "respawn", "start"}

(* Unless a save raced with another access to config.toml: when no save or *)
(* respawn is under way and the config holds a token and enables sync, a   *)
(* live worker drains with that token (sync.rs 62-74), whatever the order  *)
(* of pairing, settings, refusals and restarts that led there.             *)
ConfigIsRunning ==
  ~raced /\ Quiet /\ file \in Configs /\ Startable(Loaded)
    => \E w \in Workers : Live(w) /\ token[w] = file.token

(* A task that has a revoked token finds out: in the end sync is paused    *)
(* (auth_lost) or no live worker holds that token (sync.rs 15-18).         *)
RevokedNoticed ==
  \A t \in Tokens :
    (t \in revoked /\ \E w \in Workers : Live(w) /\ token[w] = t)
      ~> (authLost \/ \A w \in Workers : Live(w) => token[w] # t)
=============================================================================
