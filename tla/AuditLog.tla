------------------------------ MODULE AuditLog ------------------------------
(***************************************************************************)
(* PostgresAuditLog::append (crates/starstats-server/src/audit.rs) run by  *)
(* concurrent request handlers, the trigger audit_log_check_chain of       *)
(* migrations/0002_audit_log.sql, and the MinIO mirror of                  *)
(* crates/starstats-server/src/audit_mirror.rs.                            *)
(*                                                                         *)
(* The pool's transactions run at READ COMMITTED.  A statement reads the   *)
(* rows committed when it starts; SELECT ... FOR UPDATE then waits for the *)
(* row it picked and, because an append never updates that row, returns it *)
(* even when later rows were committed during the wait.  nextval is never  *)
(* rolled back.  The trigger function is VOLATILE: its query sees every    *)
(* row committed when the INSERT reaches it.                               *)
(***************************************************************************)
EXTENDS Integers, FiniteSets

CONSTANTS
  Writers,      \* request handlers that may append at the same time
  Payloads,     \* canonical payload bytes
  Seeded,       \* TRUE: the chain already has its first row
  MaxAppends    \* bound on the appends of a behaviour (exploration only)

ASSUME WritersAssumption == Writers # {}
ASSUME PayloadsAssumption == Payloads # {}
ASSUME SeededAssumption == Seeded \in BOOLEAN
ASSUME MaxAppendsAssumption == MaxAppends \in Nat

VARIABLES
  rows,         \* committed rows of audit_log
  nextval,      \* last value the BIGSERIAL sequence of seq has given out
  pc,           \* [Writers -> step of append the handler is in]
  entry,        \* [Writers -> payload it appends]
  tail,         \* [Writers -> tail row its SELECT returns]
  row,          \* [Writers -> row of its INSERT]
  mirror,       \* objects of the audit bucket: [seq in the key -> row]
  begun,        \* appends begun so far
  rejected      \* history: appends refused by the trigger or a unique index

local == <<pc, entry, tail, row>>
vars == <<rows, nextval, local, mirror, begun, rejected>>

ZeroHash == <<>>

(* SHA-256 as a free constructor: equal digests come from equal inputs.    *)
Digest(prev_hash, canonical, seq) == <<prev_hash, canonical, seq>>

(* hashed_seq is the seq that went into the digest: append computes it as  *)
(* the tail's seq plus one and never reads back the one the table assigns. *)
Row(seq, hashed_seq, prev_hash, payload) ==
  [seq |-> seq, hashed_seq |-> hashed_seq, payload |-> payload,
   prev_hash |-> prev_hash, row_hash |-> Digest(prev_hash, payload, hashed_seq)]

Chain == INSTANCE HashChain WITH ZeroHash <- ZeroHash, rows <- rows

NoRow == [seq |-> 0, row_hash |-> ZeroHash]
NoEntry == <<>>

TailRow == IF rows = {} THEN NoRow ELSE CHOOSE r \in rows : Chain!IsLast(r, rows)

(* "select": waiting for the row lock; "locked": has it, or found no row   *)
(* to lock; "indexing": past the trigger; "inserted": has an uncommitted   *)
(* row; "mirroring": has committed it.                                     *)
Steps == {"idle", "select", "locked", "indexing", "inserted", "mirroring"}

(* Transaction w holds the row lock on r until it ends.                    *)
Locks(w, r) ==
  /\ pc[w] \in {"locked", "indexing", "inserted"}
  /\ r # NoRow
  /\ tail[w] = r

Init ==
  /\ \/ /\ Seeded
        /\ \E p \in Payloads : rows = {Row(1, 1, ZeroHash, p)}
        /\ nextval = 1
     \/ ~Seeded /\ rows = {} /\ nextval = 0
  /\ pc = [w \in Writers |-> "idle"]
  /\ entry = [w \in Writers |-> NoEntry]
  /\ tail = [w \in Writers |-> NoRow]
  /\ row = [w \in Writers |-> NoRow]
  /\ mirror = [k \in {} |-> NoRow]
  /\ begun = 0
  /\ rejected = 0

Goto(w, step) == pc' = [pc EXCEPT ![w] = step]

(* append returns and the handler forgets its locals.                      *)
Return(w) ==
  /\ Goto(w, "idle")
  /\ entry' = [entry EXCEPT ![w] = NoEntry]
  /\ tail' = [tail EXCEPT ![w] = NoRow]
  /\ row' = [row EXCEPT ![w] = NoRow]

(* begin; the SELECT starts and its snapshot fixes the tail row.  With no  *)
(* row there is nothing to wait for.                                       *)
Begin(w, p) ==
  /\ pc[w] = "idle"
  /\ begun < MaxAppends
  /\ begun' = begun + 1
  /\ Goto(w, IF rows = {} THEN "locked" ELSE "select")
  /\ entry' = [entry EXCEPT ![w] = p]
  /\ tail' = [tail EXCEPT ![w] = TailRow]
  /\ UNCHANGED <<rows, nextval, row, mirror, rejected>>

(* Mutants of LockTail: FOR UPDATE dropped; a wait for one's own lock.     *)
LockTailUnlocked(w) ==
  /\ pc[w] = "select"
  /\ Goto(w, "locked")
  /\ UNCHANGED <<rows, nextval, entry, tail, row, mirror, begun, rejected>>

LockTailSelfWait(w) ==
  /\ pc[w] = "select"
  /\ \A v \in Writers : pc[v] \in {"idle", "mirroring"}
  /\ Goto(w, "locked")
  /\ UNCHANGED <<rows, nextval, entry, tail, row, mirror, begun, rejected>>

(* The row lock is granted once no other transaction holds it; the row     *)
(* returned is the one of the snapshot.                                    *)
LockTail(w) ==
  /\ pc[w] = "select"
  /\ \A v \in Writers \ {w} : ~ Locks(v, tail[w])
  /\ Goto(w, "locked")
  /\ UNCHANGED <<rows, nextval, entry, tail, row, mirror, begun, rejected>>

(* The row the handler asks the table to insert: digest over tail.seq + 1, *)
(* seq from the sequence.                                                  *)
NewRow(w) == Row(nextval + 1, tail[w].seq + 1, tail[w].row_hash, entry[w])

(* Mutants of ChainCheck: no trigger; a trigger that sorts the wrong way.  *)
ChainCheckNone(w) == TRUE

ChainCheckAscending(w) ==
  \A r \in rows : (\A q \in rows : r.seq =< q.seq) => tail[w].row_hash = r.row_hash

(* audit_log_check_chain: prev_hash must be the latest committed row_hash. *)
ChainCheck(w) == tail[w].row_hash = TailRow.row_hash

(* Mutant of Insert: a seq that is given back.                             *)
InsertKeepsSequence(w) ==
  /\ pc[w] = "locked"
  /\ ChainCheck(w)
  /\ Goto(w, "indexing")
  /\ row' = [row EXCEPT ![w] = NewRow(w)]
  /\ UNCHANGED <<rows, nextval, entry, tail, mirror, begun, rejected>>

(* INSERT takes its seq, then the trigger fires.                           *)
Insert(w) ==
  /\ pc[w] = "locked"
  /\ ChainCheck(w)
  /\ nextval' = nextval + 1
  /\ Goto(w, "indexing")
  /\ row' = [row EXCEPT ![w] = NewRow(w)]
  /\ UNCHANGED <<rows, entry, tail, mirror, begun, rejected>>

(* The trigger raises: the transaction rolls back, append returns Err, the *)
(* caller logs a warning.  The seq it drew stays used.                     *)
InsertRejected(w) ==
  /\ pc[w] = "locked"
  /\ ~ ChainCheck(w)
  /\ nextval' = nextval + 1
  /\ Return(w)
  /\ rejected' = rejected + 1
  /\ UNCHANGED <<rows, mirror, begun>>

(* row_hash is UNIQUE: an equal hash in an open transaction makes the      *)
(* INSERT wait for that transaction, a committed one makes it fail.        *)
HashInFlight(w) ==
  \E v \in Writers \ {w} : pc[v] = "inserted" /\ row[v].row_hash = row[w].row_hash

HashCommitted(w) == \E r \in rows : r.row_hash = row[w].row_hash

IndexRow(w) ==
  /\ pc[w] = "indexing"
  /\ ~ HashInFlight(w)
  /\ ~ HashCommitted(w)
  /\ Goto(w, "inserted")
  /\ UNCHANGED <<rows, nextval, entry, tail, row, mirror, begun, rejected>>

IndexRejected(w) ==
  /\ pc[w] = "indexing"
  /\ HashCommitted(w)
  /\ Return(w)
  /\ rejected' = rejected + 1
  /\ UNCHANGED <<rows, nextval, mirror, begun>>

CheckIndex(w) ==
  /\ pc[w] = "indexing"
  /\ IF HashCommitted(w) THEN IndexRejected(w) ELSE IndexRow(w)

Commit(w) ==
  /\ pc[w] = "inserted"
  /\ rows' = rows \cup {row[w]}
  /\ Goto(w, "mirroring")
  /\ UNCHANGED <<nextval, entry, tail, row, mirror, begun, rejected>>

(* COMMIT reached the database and its answer did not reach append, which  *)
(* returns Err without mirroring the row.                                  *)
CommitUnanswered(w) ==
  /\ pc[w] = "inserted"
  /\ rows' = rows \cup {row[w]}
  /\ Return(w)
  /\ UNCHANGED <<nextval, mirror, begun, rejected>>

(* The connection or the server process dies inside the transaction.       *)
Abort(w) ==
  /\ pc[w] \in {"select", "locked", "indexing", "inserted"}
  /\ Return(w)
  /\ UNCHANGED <<rows, nextval, mirror, begun, rejected>>

(* object_key within one day: the seq append computed, not the stored one. *)
ObjectKey(r) == r.hashed_seq

PutObject(r) ==
  mirror' = [k \in DOMAIN mirror \cup {ObjectKey(r)} |->
               IF k = ObjectKey(r) THEN r ELSE mirror[k]]

(* Mutant of MirrorPut: the row is mirrored before its commit.             *)
MirrorPutEarly(w) ==
  /\ pc[w] \in {"inserted", "mirroring"}
  /\ PutObject(row[w])
  /\ Return(w)
  /\ UNCHANGED <<rows, nextval, begun, rejected>>

(* PutObject replaces whatever object the key holds.                       *)
MirrorPut(w) ==
  /\ pc[w] = "mirroring"
  /\ PutObject(row[w])
  /\ Return(w)
  /\ UNCHANGED <<rows, nextval, begun, rejected>>

(* The PUT failed: a warning, no retry.                                    *)
MirrorFailed(w) ==
  /\ pc[w] = "mirroring"
  /\ Return(w)
  /\ UNCHANGED <<rows, nextval, mirror, begun, rejected>>

Step(w) ==
  \/ LockTail(w) \/ Insert(w) \/ InsertRejected(w)
  \/ CheckIndex(w) \/ Commit(w) \/ MirrorPut(w)

Fault(w) == CommitUnanswered(w) \/ Abort(w) \/ MirrorFailed(w)

Next ==
  \E w \in Writers :
    \/ \E p \in Payloads : Begin(w, p)
    \/ Step(w)
    \/ Fault(w)

Spec == Init /\ [][Next]_vars

(* The database executes every statement it accepted and the runtime polls *)
(* every handler that is ready.                                            *)
FairSpec == Spec /\ \A w \in Writers : WF_vars(Step(w))
-----------------------------------------------------------------------------
(* Types of the variables and the shape of each handler's local state.     *)
TypeOK ==
  /\ nextval \in Nat /\ begun \in Nat /\ rejected \in Nat
  /\ \A r \in rows : r.seq \in 1..nextval /\ r.hashed_seq \in Nat
  /\ pc \in [Writers -> Steps]
  /\ entry \in [Writers -> Payloads \cup {NoEntry}]
  /\ tail \in [Writers -> rows \cup {NoRow}]
  /\ DOMAIN row = Writers
  /\ \A w \in Writers :
       /\ pc[w] \in {"select", "locked"} => entry[w] \in Payloads
       /\ pc[w] \in {"indexing", "inserted", "mirroring"} =>
            row[w].seq \in 1..nextval /\ row[w].hashed_seq \in Nat

(* Two appenders never extend the chain from the same row, whatever they   *)
(* read before the lock was theirs.  (Only the first row has no row to     *)
(* lock: it is left out.)                                                  *)
NoForkAfterGenesis ==
  \A r \in rows, q \in rows :
    r.prev_hash = q.prev_hash /\ r.prev_hash # ZeroHash => r = q

(* The linear scan of the verification job succeeds on the committed rows. *)
ScanVerifies == Chain!Verifies(rows)

(* The table implements the abstract chain: rows are only ever added at    *)
(* the end, each linked to the row that was last.                          *)
ImplementsHashChain == Chain!Spec

(* The mirror holds only committed rows, each under a key of its own; the  *)
(* bucket is under Object Lock, so a PUT over an existing object is a loss.*)
MirrorHoldsCommitted ==
  \A k \in DOMAIN mirror : mirror[k] \in rows /\ ObjectKey(mirror[k]) = k

(* No mirrored object is ever replaced by another row                      *)
(* (audit_mirror.rs object_key: "never collide").                          *)
MirrorNeverOverwrites ==
  [][\A k \in DOMAIN mirror : k \in DOMAIN mirror' /\ mirror'[k] = mirror[k]]_vars

(* An append is refused only when another append committed after this one  *)
(* read the tail: contention costs a row but never stalls everyone.        *)
RejectionMeansProgress ==
  [][rejected' > rejected =>
       \E w \in Writers :
         pc[w] # "idle" /\ pc'[w] = "idle" /\ \E r \in rows : r.seq > tail[w].seq]_vars

(* Every append returns to its caller: row locks and the unique index wait *)
(* only for transactions that end, so handlers never wait on each other.   *)
AppendReturns == \A w \in Writers : pc[w] # "idle" ~> pc[w] = "idle"
=============================================================================
