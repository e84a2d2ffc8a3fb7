----------------------------- MODULE HashChain -----------------------------
(***************************************************************************)
(* What the audit log promises its readers: a table of committed rows that *)
(* only grows, one row at a time, each new row last in seq order and       *)
(* carrying in prev_hash the row_hash of the row that was last until then. *)
(* One linear scan in seq order then verifies the whole table.             *)
(***************************************************************************)
EXTENDS Integers

CONSTANT ZeroHash     \* 32 zero bytes, the prev_hash of the first row

VARIABLE rows         \* the committed rows of the table audit_log

(* The row that ORDER BY seq DESC LIMIT 1 returns.                         *)
IsLast(r, S) == r \in S /\ \A q \in S : q.seq =< r.seq

(* r may follow the rows of S: it is later than all of them and its        *)
(* prev_hash is the row_hash of the last one, or zeros when there is none. *)
Follows(r, S) ==
  /\ \A q \in S : q.seq < r.seq
  /\ S = {} => r.prev_hash = ZeroHash
  /\ \A q \in S : IsLast(q, S) => r.prev_hash = q.row_hash

(* The verification job's scan: every row follows the rows before it.      *)
Verifies(S) == \A r \in S : Follows(r, {q \in S : q.seq < r.seq})

Init == Verifies(rows)

Append == \E r \in rows' : rows' = rows \cup {r} /\ Follows(r, rows)

Spec == Init /\ [][Append]_rows
=============================================================================
