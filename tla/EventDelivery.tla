---------------------------- MODULE EventDelivery ----------------------------
(***************************************************************************)
(* From the tray's SQLite table to the server's events table: the sync     *)
(* worker's drain loop (crates/starstats-client/src/sync.rs), the tables   *)
(* it reads and writes (storage.rs), respawn, and the ingest handler with  *)
(* its ON CONFLICT insert (crates/starstats-server/src/ingest.rs, repo.rs).*)
(*                                                                         *)
(* An event is its local id: the idempotency_key is unique per row of the  *)
(* table and every attempt to send a row carries the same key.  A worker   *)
(* is a task with the account and token of the config it was started from; *)
(* respawn aborts one and starts the next, and an abort takes effect only  *)
(* where the task awaits, so two of them can overlap.  The steps of a save *)
(* of config.toml are TraySession's subject: here each is one step.        *)
(***************************************************************************)
EXTENDS Integers, FiniteSets

CONSTANTS
  MaxEvents,    \* bound on the ids the tail hands out (exploration only)
  BatchSize,    \* RemoteSyncConfig.batch_size, at least 1
  MaxSpawns     \* bound on the workers ever started (exploration only)

ASSUME MaxEventsAssumption == MaxEvents \in Nat
ASSUME BatchSizeAssumption == BatchSize \in Nat \ {0}
ASSUME MaxSpawnsAssumption == MaxSpawns \in Nat \ {0}

Ids == 1..MaxEvents
Workers == 1..MaxSpawns
(* Accounts, one claimed_handle each, in the order of their first pairing. *)
Accounts == 1..MaxSpawns
(* No token, or sync disabled.                                             *)
NoAccount == 0

VARIABLES
  lastId,       \* events.id AUTOINCREMENT: the last id given out
  stored,       \* ids of the rows of the local events table
  cursor,       \* sync_cursor.last_event_id
  config,       \* the account config.toml has a token for, or NoAccount
  authLost,     \* AccountStatus::auth_lost
  spawned,      \* workers started so far; worker number spawned is current
  account,      \* [Workers -> the account it sends for]
  pc,           \* [Workers -> where its task is]
  aborted,      \* [Workers -> abort() was called on its handle]
  batch,        \* [Workers -> ids of the batch in flight]
  high,         \* [Workers -> highest_id of that batch]
  late,         \* <<id, account>> that a request nobody waits for may insert
  rows,         \* [Ids -> accounts the server's events table has the event for]
  answered,     \* history: ids in a batch the server answered with 200
  refused,      \* history: ids whose insert failed inside such a batch
  settled       \* history: <<id, account>> behind the cursor at a worker's start

table == <<lastId, stored>>
session == <<config, authLost, spawned, account, aborted, settled>>
flight == <<pc, batch, high>>
server == <<rows, answered, refused>>
vars == <<table, cursor, session, flight, late, server>>

(* "off": no task; "idle": between drains; "awaiting": in send() or json();*)
(* "answered": past the last await of drain_once, cursor not yet written.  *)
Places == {"off", "idle", "awaiting", "answered"}

Init ==
  /\ lastId = 0 /\ stored = {} /\ cursor = 0
  /\ config = 1 /\ authLost = FALSE
  /\ spawned = 1
  /\ account = [w \in Workers |-> IF w = 1 THEN config ELSE NoAccount]
  /\ pc = [w \in Workers |-> IF w = 1 THEN "idle" ELSE "off"]
  /\ aborted = [w \in Workers |-> FALSE]
  /\ batch = [w \in Workers |-> {}]
  /\ high = [w \in Workers |-> 0]
  /\ late = {}
  /\ rows = [i \in Ids |-> {}]
  /\ answered = {} /\ refused = {} /\ settled = {}

Leave(w, place) ==
  /\ pc' = [pc EXCEPT ![w] = place]
  /\ batch' = [batch EXCEPT ![w] = {}]
  /\ high' = [high EXCEPT ![w] = 0]
-----------------------------------------------------------------------------
(* Mutant of InsertEvent: ids are reused after a delete (no AUTOINCREMENT).*)
InsertEventReusesId ==
  /\ \E i \in Ids \ stored :
       /\ \A j \in stored : j < i
       /\ \A j \in Ids \ stored : (\A k \in stored : k < j) => i =< j
       /\ stored' = stored \cup {i}
       /\ lastId' = i
  /\ UNCHANGED <<cursor, session, flight, late, server>>

(* insert_event of a new idempotency_key.                                  *)
InsertEvent ==
  /\ lastId < MaxEvents
  /\ lastId' = lastId + 1
  /\ stored' = stored \cup {lastId + 1}
  /\ UNCHANGED <<cursor, session, flight, late, server>>

(* delete_event_by_id: a re-parse folds burst members into their summary.  *)
DeleteEvent(i) ==
  /\ i \in stored
  /\ stored' = stored \ {i}
  /\ UNCHANGED <<lastId, cursor, session, flight, late, server>>
-----------------------------------------------------------------------------
(* read_unsent: the first BatchSize rows above the cursor, up to row h.    *)
Unsent(h) == {i \in stored : cursor < i /\ i =< h}

(* Mutant of IsBatchEnd: a batch is sent only when it is full.             *)
IsBatchEndFull(h) == h \in stored /\ h > cursor /\ Cardinality(Unsent(h)) = BatchSize

IsBatchEnd(h) ==
  /\ h \in stored /\ h > cursor
  /\ Cardinality(Unsent(h)) =< BatchSize
  /\ Cardinality(Unsent(h)) < BatchSize => \A i \in stored : i =< h

(* drain_once up to its first await, unless auth_lost is set.  A task      *)
(* aborted while it runs this far still gets here; it goes no further.     *)
StartDrain(w) ==
  /\ pc[w] = "idle" /\ ~authLost
  /\ \E h \in stored :
       /\ IsBatchEnd(h)
       /\ batch' = [batch EXCEPT ![w] = Unsent(h)]
       /\ high' = [high EXCEPT ![w] = h]
  /\ pc' = [pc EXCEPT ![w] = "awaiting"]
  /\ UNCHANGED <<table, cursor, session, late, server>>

(* What the server may insert of the requests that are now on their way    *)
(* with nobody waiting; what it has got already it does not insert.        *)
Underway(w) == IF pc[w] = "awaiting" THEN batch[w] \X {account[w]} ELSE {}
Lost(S) == late' = {p \in late \cup S : p[2] \notin rows'[p[1]]}

(* EventStore::insert for the events of S, one statement each, ON CONFLICT *)
(* (claimed_handle, idempotency_key) DO NOTHING: the same event of another *)
(* account is another row.                                                 *)
Insert(a, S) == rows' = [i \in Ids |-> IF i \in S THEN rows[i] \cup {a} ELSE rows[i]]

(* Mutant of Ingest: the handler answers 200 before its inserts.           *)
IngestAnswersFirst(w) ==
  /\ pc[w] = "awaiting" /\ ~aborted[w]
  /\ answered' = answered \cup batch[w]
  /\ pc' = [pc EXCEPT ![w] = "answered"]
  /\ UNCHANGED <<table, cursor, session, batch, high, rows, refused>>
  /\ Lost(Underway(w))

(* The handler processes w's batch and w receives its 200: a failing       *)
(* insert only counts as rejected.                                         *)
Ingest(w) ==
  /\ pc[w] = "awaiting" /\ ~aborted[w]
  /\ \E bad \in SUBSET batch[w] :
       /\ Insert(account[w], batch[w] \ bad)
       /\ refused' = refused \cup bad
  /\ answered' = answered \cup batch[w]
  /\ pc' = [pc EXCEPT ![w] = "answered"]
  /\ UNCHANGED <<table, cursor, session, batch, high>>
  /\ Lost({})

(* 401 or 403, before any insert: the token is revoked, its account gone,  *)
(* or the device could not be looked up.  The stored token is cleared,     *)
(* whosever it is by now, unless that fails, and the worker pauses.        *)
IngestRejected(w) ==
  /\ pc[w] = "awaiting" /\ ~aborted[w]
  /\ config' \in {NoAccount, config}
  /\ authLost' = TRUE
  /\ Leave(w, "idle")
  /\ UNCHANGED <<table, cursor, spawned, account, aborted, settled, late, server>>

(* The request fails half way: the server dies, answers with another error,*)
(* or its answer is lost or unreadable.  drain_once returns Err.           *)
IngestFails(w) ==
  /\ pc[w] = "awaiting" /\ ~aborted[w]
  /\ \E done \in SUBSET batch[w] : Insert(account[w], done)
  /\ Leave(w, "idle")
  /\ UNCHANGED <<table, cursor, session, answered, refused>>
  /\ Lost({})

(* The 30 s timeout fires while the request is still on its way.           *)
Timeout(w) ==
  /\ pc[w] = "awaiting" /\ ~aborted[w]
  /\ Leave(w, "idle")
  /\ UNCHANGED <<table, cursor, session, server>>
  /\ Lost(Underway(w))

(* The server gets a request nobody waits for any more, or loses it: one   *)
(* of its inserts.                                                         *)
IngestLate(p) ==
  /\ p \in late
  /\ late' = late \ {p}
  /\ Insert(p[2], {p[1]})
  /\ UNCHANGED <<table, cursor, session, flight, answered, refused>>

(* Mutant of WriteCursor: up to everything stored, not up to the batch.    *)
WriteCursorToEnd(w) ==
  /\ pc[w] = "answered"
  /\ cursor' = lastId
  /\ Leave(w, "idle")
  /\ UNCHANGED <<table, session, late, server>>

(* write_sync_cursor(highest_id), whatever the cursor has become since.    *)
WriteCursor(w) ==
  /\ pc[w] = "answered"
  /\ cursor' = high[w]
  /\ Leave(w, "idle")
  /\ UNCHANGED <<table, session, late, server>>

(* The cursor cannot be written: drain_once returns Err after a 200.       *)
WriteCursorFails(w) ==
  /\ pc[w] = "answered"
  /\ Leave(w, "idle")
  /\ UNCHANGED <<table, cursor, session, late, server>>
-----------------------------------------------------------------------------
(* What is behind the cursor, also for a task about to write an older one, *)
(* and neither in account a's rows nor on its way there.                   *)
Behind(a) ==
  {i \in 1..cursor :
     /\ \A w \in Workers : pc[w] = "answered" => i =< high[w]
     /\ a \notin rows[i]
     /\ \A w \in Workers : pc[w] = "awaiting" /\ account[w] = a => i \notin batch[w]
     /\ <<i, a>> \notin late}

(* sync::start: the next task, if the config has a token and enables sync. *)
start(a) ==
  IF a = NoAccount
  THEN UNCHANGED <<spawned, account, settled>>
  ELSE /\ spawned < MaxSpawns /\ spawned' = spawned + 1
       /\ account' = [account EXCEPT ![spawned + 1] = a]
       /\ settled' = IF a = account[spawned] THEN settled ELSE settled \cup (Behind(a) \X {a})

(* respawn: abort the current worker, start the next one for config a.     *)
Respawn(a) ==
  /\ config' = a /\ start(a)
  /\ aborted' = [aborted EXCEPT ![spawned] = pc[spawned] # "off"]
  /\ pc' = IF a = NoAccount THEN pc ELSE [pc EXCEPT ![spawned'] = "idle"]
  /\ UNCHANGED <<table, cursor, batch, high, late, server>>

(* Mutant of Pair: a new pairing starts over from the first event.         *)
PairFromStart(a) ==
  /\ config' = a /\ start(a) /\ authLost' = FALSE /\ cursor' = 0
  /\ aborted' = [aborted EXCEPT ![spawned] = TRUE]
  /\ pc' = [pc EXCEPT ![spawned'] = "idle"]
  /\ UNCHANGED <<table, batch, high, late, server>>

(* pair_device with a code of account a, paired before or the next new one.*)
Pair(a) ==
  /\ \A b \in 1..(a - 1) : \E w \in Workers : account[w] = b
  /\ Respawn(a) /\ authLost' = FALSE

(* save_config: the settings the user sees may be older than the config    *)
(* and bring an earlier token back, or switch sync off.                    *)
SaveConfig(a) ==
  /\ a = NoAccount \/ \E w \in Workers : a = account[w]
  /\ Respawn(a) /\ UNCHANGED authLost

(* The answer to /v1/auth/me (hydration, refresh_account_info) or to       *)
(* submit_unknown_lines, however late, with whatever token was sent.       *)
AccountAnswer ==
  /\ authLost' \in BOOLEAN
  /\ UNCHANGED <<table, cursor, config, spawned, account, aborted, settled, flight, late, server>>

(* The runtime drops an aborted task at its next await; its request may    *)
(* have left.                                                              *)
Drop(w) ==
  /\ aborted[w] /\ pc[w] \in {"idle", "awaiting"}
  /\ Leave(w, "off")
  /\ aborted' = [aborted EXCEPT ![w] = FALSE]
  /\ UNCHANGED <<table, cursor, config, authLost, spawned, account, settled, server>>
  /\ Lost(Underway(w))

(* The tray dies and is started again: only SQLite and config.toml survive.*)
Restart ==
  /\ start(config) /\ authLost' = FALSE
  /\ pc' = [w \in Workers |->
              IF w = spawned + 1 /\ config # NoAccount THEN "idle" ELSE "off"]
  /\ batch' = [w \in Workers |-> {}]
  /\ high' = [w \in Workers |-> 0]
  /\ aborted' = [w \in Workers |-> FALSE]
  /\ UNCHANGED <<table, cursor, config, server>>
  /\ Lost(UNION {Underway(w) : w \in Workers})

Next ==
  \/ InsertEvent
  \/ \E i \in stored : DeleteEvent(i)
  \/ \E w \in Workers :
       \/ StartDrain(w) \/ Ingest(w) \/ IngestRejected(w) \/ IngestFails(w)
       \/ Timeout(w) \/ WriteCursor(w) \/ WriteCursorFails(w) \/ Drop(w)
  \/ \E p \in late : IngestLate(p)
  \/ \E a \in Accounts : Pair(a)
  \/ \E a \in Accounts \cup {NoAccount} : SaveConfig(a)
  \/ AccountAnswer
  \/ Restart

Spec == Init /\ [][Next]_vars

(* The loop runs for ever, and a request made again and again is answered  *)
(* in the end, as is a cursor write: failures other than a lost session    *)
(* are not permanent.                                                      *)
FairSpec ==
  /\ Spec
  /\ \A w \in Workers :
       WF_vars(StartDrain(w)) /\ SF_vars(Ingest(w)) /\ SF_vars(WriteCursor(w))
-----------------------------------------------------------------------------
(* Types; every batch in flight is made of ids already given out.          *)
TypeOK ==
  /\ lastId \in 0..MaxEvents /\ cursor \in 0..lastId
  /\ stored \subseteq 1..lastId
  /\ config \in Accounts \cup {NoAccount} /\ authLost \in BOOLEAN
  /\ spawned \in Workers /\ account \in [Workers -> Accounts \cup {NoAccount}]
  /\ pc \in [Workers -> Places] /\ aborted \in [Workers -> BOOLEAN]
  /\ batch \in [Workers -> SUBSET (1..lastId)] /\ high \in [Workers -> 0..lastId]
  /\ late \subseteq (1..lastId) \X (Accounts \cup {NoAccount})
  /\ rows \in [Ids -> SUBSET (Accounts \cup {NoAccount})]
  /\ answered \subseteq 1..lastId /\ refused \subseteq answered
  /\ settled \subseteq (1..lastId) \X Accounts

(* The cursor never passes an event the server has not answered for, with  *)
(* stale workers, retries, deletions, pairings and restarts in between.    *)
CursorOnlyPastAnswered == \A i \in stored : i =< cursor => i \in answered

(* An event behind the cursor is on the server unless its own insert was   *)
(* refused in a batch answered 200.                                        *)
DeliveredOrRefused ==
  \A i \in stored : i =< cursor => rows[i] # {} \/ i \in refused

(* Nothing is sent to an account that was behind the cursor when the       *)
(* worker for it started: a tray that is paired with another account does  *)
(* not copy the earlier account's events there, whatever an aborted worker *)
(* does to the cursor.  (Events whose cursor was still to be written are   *)
(* sent again, to the new account too.)                                    *)
NotSentToNext == \A p \in settled : p[2] \notin rows[p[1]]

(* A worker of the current config runs and the session is not lost.        *)
Draining == ~authLost /\ pc[spawned] # "off" /\ ~aborted[spawned]

(* Once the session holds for good, every event that stays in the table is *)
(* answered for in the end: a 401, which pauses the loop until the next    *)
(* pairing or /v1/auth/me answer, loses none.                              *)
EventuallyAnswered ==
  <>[]Draining => \A i \in Ids : i \in stored ~> (i \in answered \/ i \notin stored)
=============================================================================
