----------------------------- MODULE GameLogTail -----------------------------
(***************************************************************************)
(* How log lines become local events: the live tail of gamelog.rs and the  *)
(* sweep over rotated logs of backfill.rs (crates/starstats-client), with  *)
(* the game writing and rotating the log and the tray dying at any step.   *)
(*                                                                         *)
(* An offset counts lines.  A line counts as written when its newline is:  *)
(* the tail leaves a partial line for the next drain.                      *)
(***************************************************************************)
EXTENDS BurstDetection

CONSTANTS
  Kinds,        \* line kinds; "u": structural_parse does not take the line,
                \* "x": it does, but classify and the remote rules do not know it
  Rules,        \* burst rules, in the order they are tried
  MaxLines,     \* bound on lines of all sessions (exploration only)
  MaxEarlier,   \* bound on lines logged before the first start (exploration only)
  MaxSessions,  \* bound on launches of the game (exploration only)
  MaxRestarts,  \* bound on restarts of the tray (exploration only)
  MaxErrors     \* bound on I/O errors (exploration only)

(* The built-in rules (burst_rules.rs): ids of their own, and no line      *)
(* counts for two of them.                                                 *)
ASSUME RulesAssumption ==
  /\ Rules \in Seq([id : STRING \ {"line"}, anchor : Kinds, member : Kinds, min : Nat, gap : Nat])
  /\ \A m, n \in DOMAIN Rules :
       m # n => /\ Rules[m].id # Rules[n].id
                /\ {Rules[m].anchor, Rules[m].member} \cap {Rules[n].anchor, Rules[n].member} = {}

ASSUME BoundsAssumption == {MaxLines, MaxEarlier, MaxSessions, MaxRestarts, MaxErrors} \subseteq Nat

VARIABLES
  logs,         \* the log of every session; the last is Game.log
  signal,       \* a notification is waiting in the tail's channel
  offset,       \* the tail task's offset
  cursor,       \* offset stored for Game.log
  tail,         \* the tail task: [pc, sess, from]
  done,         \* [session -> offset stored for its rotated log]
  todo,         \* rotated logs this run of the backfill has yet to read
  stored,       \* rows of events: [sess, rule, lines]
  restarts, errors,
  at,           \* history: sessions offset and cursor count in: [mem, disk]
  missed,       \* history: lines the tail has passed without reading
  failed        \* history: lines whose insert failed

bounds == <<restarts, errors>>
disk == <<cursor, done, stored>>
history == <<at, missed, failed>>
vars == <<logs, signal, offset, tail, todo, disk, bounds, history>>

Sessions == 1..MaxSessions
Lines == [sess : Sessions, line : 1..MaxLines]
Written(l) == l.sess <= Len(logs) /\ l.line <= Len(logs[l.sess])
Waiting == [pc |-> "wait", sess |-> 0, from |-> 0]

(* The tray's first start, before the first launch of the game or after    *)
(* one that has left its log.                                              *)
Init ==
  /\ logs \in {<< <<>> >>} \cup {<<log, <<>> >> : log \in SeqOf(Kinds, MaxEarlier)}
  /\ Len(logs) <= MaxSessions /\ Len(logs[1]) <= MaxLines
  /\ signal = FALSE /\ offset = 0 /\ cursor = 0
  /\ tail = [Waiting EXCEPT !.pc = "open"]
  /\ done = [s \in Sessions |-> 0] /\ todo = 1..(Len(logs) - 1) /\ stored = {}
  /\ restarts = 0 /\ errors = 0
  /\ at = [mem |-> Len(logs), disk |-> Len(logs)] /\ missed = {} /\ failed = {}

Current == Len(logs)
Parsed(s, i) == logs[s][i] # "u"
Recognised(s, i) == logs[s][i] \notin {"u", "x"}
-----------------------------------------------------------------------------
(* Rows.  A row of one line has rule "line"; a summary has its burst's.    *)
LineRow(s, i) == [sess |-> s, rule |-> "line", lines |-> {i}]

(* ingest_one_line on some lines of a session.                             *)
LineRows(s, lines) == {LineRow(s, i) : i \in {k \in lines : Recognised(s, k)}}

(* idempotency_key hashes the source, the offset and the text, for a       *)
(* summary the anchor's with rule and size added.                          *)
SameKey(r, q) ==
  /\ r.sess = q.sess /\ r.rule = q.rule
  /\ Anchor([members |-> r.lines]) = Anchor([members |-> q.lines])
  /\ Cardinality(r.lines) = Cardinality(q.lines)

(* insert_event: ON CONFLICT(idempotency_key) DO NOTHING.  No two rows of a *)
(* batch have the same key.                                                *)
InsertAll(rows, batch) == rows \cup {r \in batch : \A q \in rows : ~SameKey(r, q)}

(* The lines of a session the parser takes, and their bursts.              *)
Window(s, from, to) == [i \in {k \in from + 1..to : Parsed(s, k)} |-> logs[s][i]]
Bursts(s, from, to) == DetectBursts(Window(s, from, to), Rules)

Summaries(s, hits) == {[sess |-> s, rule |-> h.rule, lines |-> h.members] : h \in hits}

(* Mutant of Batch: lines of a burst are stored one by one as well.        *)
BatchAll(s, from, to) ==
  Summaries(s, Bursts(s, from, to)) \cup LineRows(s, from + 1..to)

(* process_buffer on lines from + 1 .. to of session s: the summaries of   *)
(* the bursts among the lines that parse, and every other line on its own. *)
Batch(s, from, to) ==
  Summaries(s, Bursts(s, from, to))
    \cup LineRows(s, (from + 1..to) \ Consumed(Bursts(s, from, to)))

(* backfill_file's rows: line by line, no bursts.                          *)
Replay(s) == LineRows(s, done[s] + 1..Len(logs[s]))

(* What is stored of a batch when the work ends in the middle: summaries   *)
(* are inserted before single lines, both in the order of the log.         *)
Before(r, q) ==
  IF (r.rule = "line") = (q.rule = "line")
  THEN Anchor([members |-> r.lines]) < Anchor([members |-> q.lines])
  ELSE q.rule = "line"

Beginnings(batch) == {p \in SUBSET batch : \A q \in p, r \in batch : Before(r, q) => r \in p}
-----------------------------------------------------------------------------
(* The game appends a line ...                                             *)
WriteLine(k) ==
  /\ Cardinality({l \in Lines : Written(l)}) < MaxLines
  /\ logs' = [logs EXCEPT ![Current] = Append(@, k)]
  /\ signal' = TRUE
  /\ UNCHANGED <<offset, tail, todo, disk, bounds, history>>

(* ... and at launch renames Game.log and starts a new one.                *)
Rotate ==
  /\ Len(logs) < MaxSessions
  /\ logs' = Append(logs, <<>>)
  /\ signal' = TRUE
  /\ UNCHANGED <<offset, tail, todo, disk, bounds, history>>
-----------------------------------------------------------------------------
(* start_tail's loop: a notification, with those queued behind it.         *)
Wake ==
  /\ tail.pc = "wait" /\ signal
  /\ signal' = FALSE
  /\ tail' = [Waiting EXCEPT !.pc = "open"]
  /\ UNCHANGED <<logs, offset, todo, disk, bounds, history>>

Error == errors < MaxErrors /\ errors' = errors + 1

(* drain: the log shrank, so it was rotated.                               *)
StartOffset(len) == IF len < offset THEN 0 ELSE offset

(* drain opens the log and compares its length with the offset.            *)
Open ==
  LET len == Len(logs[Current])
      start == StartOffset(len)
      skipped == IF at.mem = Current THEN {}
                 ELSE {l \in Lines : l.sess = Current /\ l.line <= start}
  IN
  /\ tail.pc = "open"
  /\ offset' = start
  /\ tail' = IF len = start THEN Waiting ELSE [pc |-> "read", sess |-> Current, from |-> start]
  /\ at' = [at EXCEPT !.mem = Current]
  /\ missed' = missed \cup skipped
  /\ UNCHANGED <<logs, signal, todo, disk, bounds, failed>>

OpenFails ==
  /\ tail.pc = "open" /\ Error
  /\ tail' = Waiting
  /\ UNCHANGED <<logs, signal, offset, todo, disk, restarts, history>>

(* Mutant of Read: the cursor is stored before the lines are.              *)
ReadStoresCursor ==
  /\ tail.pc = "read"
  /\ offset' = Len(logs[tail.sess]) /\ cursor' = Len(logs[tail.sess])
  /\ at' = [at EXCEPT !.disk = tail.sess]
  /\ tail' = [tail EXCEPT !.pc = "store"]
  /\ UNCHANGED <<logs, signal, todo, done, stored, bounds, missed, failed>>

(* Every complete line to the end of the file that was opened.             *)
Read ==
  /\ tail.pc = "read"
  /\ offset' = Len(logs[tail.sess])
  /\ tail' = [tail EXCEPT !.pc = "store"]
  /\ UNCHANGED <<logs, signal, todo, disk, bounds, history>>

(* read_line fails (I/O, a line that is not UTF-8): drain returns, the     *)
(* lines read so far are gone and the offset stays where it is.            *)
ReadFails ==
  /\ tail.pc = "read" /\ Error
  /\ \E n \in offset..Len(logs[tail.sess]) :
       /\ offset' = n
       /\ missed' = missed \cup {l \in Lines : l.sess = tail.sess /\ l.line \in (offset + 1)..n}
  /\ tail' = Waiting
  /\ UNCHANGED <<logs, signal, todo, disk, restarts, at, failed>>

Buffered == Batch(tail.sess, tail.from, offset)

LinesOf(r) == {l \in Lines : l.sess = r.sess /\ l.line \in r.lines}

(* process_buffer.                                                         *)
Store ==
  /\ tail.pc = "store"
  /\ stored' = InsertAll(stored, Buffered)
  /\ tail' = [tail EXCEPT !.pc = "cursor"]
  /\ UNCHANGED <<logs, signal, offset, todo, cursor, done, bounds, history>>

(* The same, with one insert failing: a warning, and on to the next.       *)
StoreFails ==
  /\ tail.pc = "store" /\ Error
  /\ \E r \in Buffered :
       /\ stored' = InsertAll(stored, Buffered \ {r})
       /\ failed' = failed \cup LinesOf(r)
  /\ tail' = [tail EXCEPT !.pc = "cursor"]
  /\ UNCHANGED <<logs, signal, offset, todo, cursor, done, restarts, at, missed>>

(* Mutant of WriteCursor: off by one.                                      *)
WriteCursorPastEnd ==
  /\ tail.pc = "cursor"
  /\ cursor' = offset + 1
  /\ at' = [at EXCEPT !.disk = tail.sess]
  /\ tail' = Waiting
  /\ UNCHANGED <<logs, signal, offset, todo, done, stored, bounds, missed, failed>>

(* Mutant of WriteCursor: notifications are coalesced after the drain.     *)
WriteCursorDropsSignal ==
  /\ tail.pc = "cursor"
  /\ cursor' = offset
  /\ at' = [at EXCEPT !.disk = tail.sess]
  /\ tail' = Waiting
  /\ signal' = FALSE
  /\ UNCHANGED <<logs, offset, todo, done, stored, bounds, missed, failed>>

WriteCursor ==
  /\ tail.pc = "cursor"
  /\ cursor' = offset
  /\ at' = [at EXCEPT !.disk = tail.sess]
  /\ tail' = Waiting
  /\ UNCHANGED <<logs, signal, offset, todo, done, stored, bounds, missed, failed>>

WriteCursorFails ==
  /\ tail.pc = "cursor" /\ Error
  /\ tail' = Waiting
  /\ UNCHANGED <<logs, signal, offset, todo, disk, restarts, history>>
-----------------------------------------------------------------------------
(* backfill_file: replay what is past the stored offset, then store it.    *)
Backfill(s) ==
  /\ s \in todo
  /\ stored' = InsertAll(stored, Replay(s))
  /\ done' = [done EXCEPT ![s] = Len(logs[s])]
  /\ todo' = todo \ {s}
  /\ UNCHANGED <<logs, signal, offset, cursor, tail, bounds, history>>

(* The same, with one insert failing.                                      *)
BackfillSkips(s) ==
  /\ s \in todo /\ Error
  /\ \E r \in Replay(s) :
       /\ stored' = InsertAll(stored, Replay(s) \ {r})
       /\ failed' = failed \cup LinesOf(r)
  /\ done' = [done EXCEPT ![s] = Len(logs[s])]
  /\ todo' = todo \ {s}
  /\ UNCHANGED <<logs, signal, offset, cursor, tail, restarts, at, missed>>

(* Mutant of BackfillFails: the offset is stored all the same.             *)
BackfillFailsAdvances(s) ==
  /\ s \in todo /\ Error
  /\ \E p \in Beginnings(Replay(s)) : stored' = InsertAll(stored, p)
  /\ done' = [done EXCEPT ![s] = Len(logs[s])]
  /\ todo' = todo \ {s}
  /\ UNCHANGED <<logs, signal, offset, cursor, tail, restarts, history>>

(* read_line fails after some lines: the file is left for the next start.  *)
BackfillFails(s) ==
  /\ s \in todo /\ Error
  /\ \E p \in Beginnings(Replay(s)) : stored' = InsertAll(stored, p)
  /\ todo' = todo \ {s}
  /\ UNCHANGED <<logs, signal, offset, cursor, done, tail, restarts, history>>

(* The tray stops, with rows as what it has stored by then, and starts:    *)
(* tail and backfill resume from their stored offsets.                     *)
Restart(rows) ==
  /\ restarts < MaxRestarts /\ restarts' = restarts + 1
  /\ stored' = rows
  /\ signal' = FALSE
  /\ offset' = cursor
  /\ at' = [at EXCEPT !.mem = at.disk]
  /\ tail' = [Waiting EXCEPT !.pc = "open"]
  /\ todo' = 1..(Len(logs) - 1)
  /\ UNCHANGED <<logs, cursor, done, errors, missed, failed>>

(* In the middle of process_buffer ...                                     *)
DieStoring ==
  /\ tail.pc = "store"
  /\ \E p \in Beginnings(Buffered) : Restart(InsertAll(stored, p))

(* ... in the middle of a file of the backfill ...                         *)
DieReplaying ==
  \E s \in todo : \E p \in Beginnings(Replay(s)) : Restart(InsertAll(stored, p))

(* ... or anywhere else.                                                   *)
Die == tail.pc # "store" /\ Restart(stored)
-----------------------------------------------------------------------------
TailTask ==
  Wake \/ Open \/ OpenFails \/ Read \/ ReadFails \/ Store \/ StoreFails
    \/ WriteCursor \/ WriteCursorFails

Next ==
  \/ \E k \in Kinds : WriteLine(k)
  \/ Rotate
  \/ TailTask
  \/ \E s \in Sessions : Backfill(s) \/ BackfillSkips(s) \/ BackfillFails(s)
  \/ DieStoring \/ DieReplaying \/ Die

Spec == Init /\ [][Next]_vars

(* The tail task is scheduled; nothing else need happen.                   *)
FairSpec == Spec /\ WF_vars(TailTask)
-----------------------------------------------------------------------------
(* Types of the log, the task state, the tables and the history.           *)
TypeOK ==
  /\ Len(logs) \in Sessions
  /\ \A s \in DOMAIN logs : Len(logs[s]) <= MaxLines /\ ToSet(logs[s]) \subseteq Kinds
  /\ signal \in BOOLEAN /\ offset \in 0..MaxLines /\ cursor \in 0..MaxLines
  /\ tail \in [pc : {"wait", "open", "read", "store", "cursor"},
               sess : 0..MaxSessions, from : 0..MaxLines]
  /\ done \in [Sessions -> 0..MaxLines] /\ todo \subseteq Sessions
  /\ \A r \in stored : LinesOf(r) # {} /\ \A i \in r.lines : i <= Len(logs[r.sess])
  /\ restarts \in 0..MaxRestarts /\ errors \in 0..MaxErrors
  /\ at \in [mem : Sessions, disk : Sessions]
  /\ missed \subseteq Lines /\ failed \subseteq Lines

Events == {l \in Lines : Written(l) /\ Recognised(l.sess, l.line)}
Covered == UNION {LinesOf(r) : r \in stored}

(* The stored offset of Game.log is never past a line whose event is not   *)
(* stored, except lines the tail skipped and inserts that failed: a crash  *)
(* at any step costs nothing (gamelog.rs 187-201).                         *)
CursorOnlyPastStored ==
  \A l \in Events :
    l.sess = at.disk /\ l.line <= cursor => l \in Covered \cup missed \cup failed

(* Once a rotated log has been swept, every line of it has its event, also *)
(* those the live tail had skipped, unless its own insert failed           *)
(* (backfill.rs 135-216).                                                  *)
SweptIsComplete ==
  \A l \in Events : l.sess < Current /\ l.line <= done[l.sess] => l \in Covered \cup failed

(* While the tray keeps running no line is counted twice, as an event of   *)
(* its own and in a burst or in two bursts, wherever a drain happens to    *)
(* cut the log (gamelog.rs, passes 2 and 3 of process_buffer).             *)
CountedOnce ==
  restarts = 0 => \A r, q \in stored : LinesOf(r) \cap LinesOf(q) # {} => r = q

(* A line of the running session is neither stored nor skipped.            *)
Behind ==
  \E i \in DOMAIN logs[Current] :
    /\ Recognised(Current, i)
    /\ [sess |-> Current, line |-> i] \notin missed
    /\ \A r \in stored : r.sess = Current => i \notin r.lines

(* Without I/O errors the tail catches up with the log: no notification is *)
(* lost between the end of a drain and the next wait (gamelog.rs 97-116).  *)
LineNoticed == (Behind /\ errors = 0) ~> (~Behind \/ errors > 0)
=============================================================================
