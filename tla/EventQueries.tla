----------------------------- MODULE EventQueries -----------------------------
(***************************************************************************)
(* Reading one handle's events while they are written: the cursor pages of *)
(* GET /v1/me/events, hide and unhide, and the two-statement summary a     *)
(* viewer gets (crates/starstats-server/src/query.rs, repo.rs).            *)
(*                                                                         *)
(* seq is a BIGSERIAL: an insert takes its number when it runs and becomes *)
(* visible when it commits, so rows can appear below ones already read.    *)
(***************************************************************************)
EXTENDS Integers, FiniteSetsExt

CONSTANTS
  PageLimit,     \* limit, after its clamp to at least 1
  MaxSeq         \* bound on the numbers handed out (exploration only)

ASSUME EventQueriesAssumption == PageLimit \in Nat \ {0} /\ MaxSeq \in Nat

VARIABLES
  lastSeq,       \* last value of the sequence
  inserting,     \* seqs of inserts that have not committed
  listed,        \* seqs of the committed rows
  hidden,        \* those with hidden_at set
  pager,         \* a client paging: where it is and what it has
  viewer         \* a shared summary being computed

queryVars == <<lastSeq, inserting, listed, hidden, pager, viewer>>

NoPager == [at |-> "off", low |-> 0, high |-> 0, had |-> {}, due |-> {}, again |-> FALSE]
NoViewer == [at |-> "off", total |-> {}, by_type |-> {}, shown |-> {}]

QueryInit ==
  /\ lastSeq = 0 /\ inserting = {} /\ listed = {} /\ hidden = {}
  /\ pager = NoPager /\ viewer = NoViewer
-----------------------------------------------------------------------------
InsertRow ==
  /\ lastSeq < MaxSeq
  /\ lastSeq' = lastSeq + 1
  /\ inserting' = inserting \cup {lastSeq + 1}
  /\ UNCHANGED <<listed, hidden, pager, viewer>>

(* The viewer's request sees the row from now on.                          *)
Shown(rows) == viewer' = [viewer EXCEPT !.shown = IF viewer.at = "off" THEN {} ELSE @ \cup rows]

(* The insert commits, or is undone and its number is lost.                *)
CommitRow(s) ==
  /\ inserting' = inserting \ {s}
  /\ \/ listed' = listed \cup {s} /\ Shown({s})
     \/ UNCHANGED <<listed, viewer>>
  /\ UNCHANGED <<lastSeq, hidden, pager>>

(* set_event_hidden: the UPDATE, and the audit entry only when it changed  *)
(* a row.                                                                  *)
set_event_hidden(s, hide) ==
  /\ s \in listed /\ (s \in hidden) # hide
  /\ hidden' = IF hide THEN hidden \cup {s} ELSE hidden \ {s}

HideRow(s) ==
  /\ set_event_hidden(s, TRUE)
  /\ UNCHANGED <<lastSeq, inserting, listed, pager, viewer>>

UnhideRow(s) ==
  /\ set_event_hidden(s, FALSE)
  /\ Shown({s})
  /\ UNCHANGED <<lastSeq, inserting, listed, pager>>
-----------------------------------------------------------------------------
(* The PageLimit highest, or lowest, of some rows.                         *)
Highest(S) == {s \in S : Cardinality({r \in S : r > s}) < PageLimit}
Lowest(S) == {s \in S : Cardinality({r \in S : r < s}) < PageLimit}

(* list_filtered by cursor: none, Before(n), After(n).                     *)
list_filtered == Highest(listed)

(* Mutant of list_before: the row of the cursor once more.                 *)
list_before_too(n) == Highest({s \in listed : s =< n})

list_before(n) == Highest({s \in listed : s < n})
list_after(n) == Lowest({s \in listed : s > n})

Turn(page, at) ==
  pager' = [pager EXCEPT
    !.at = at,
    !.low = IF page = {} THEN @ ELSE Min(page \cup (IF pager.at = "off" THEN {} ELSE {@})),
    !.high = IF page = {} THEN @ ELSE Max(page \cup {@}),
    !.had = @ \cup page,
    !.again = @ \/ page \cap pager.had # {}]

(* The first page, without a cursor: the newest rows.                      *)
FirstPage ==
  /\ pager.at = "off" /\ list_filtered # {}
  /\ pager' = [NoPager EXCEPT !.at = "older", !.low = Min(list_filtered), !.high = Max(list_filtered),
                              !.had = list_filtered, !.due = listed]
  /\ UNCHANGED <<lastSeq, inserting, listed, hidden, viewer>>

(* before_seq, until a page comes back short.                              *)
OlderPage ==
  /\ pager.at = "older"
  /\ LET page == list_before(pager.low) IN
       Turn(page, IF Cardinality(page) < PageLimit THEN "newer" ELSE "older")
  /\ UNCHANGED <<lastSeq, inserting, listed, hidden, viewer>>

(* after_seq = next_after, the highest seq the client was given.           *)
NewerPage ==
  /\ pager.at = "newer"
  /\ list_after(pager.high) # {}
  /\ Turn(list_after(pager.high), "newer")
  /\ UNCHANGED <<lastSeq, inserting, listed, hidden, viewer>>

ClosePager == pager.at # "off" /\ pager' = NoPager
              /\ UNCHANGED <<lastSeq, inserting, listed, hidden, viewer>>
-----------------------------------------------------------------------------

(* The rows of every ..._shared query.                                     *)
shared_rows == listed \ hidden

(* summary_for_handle_shared: the total, then the counts by type.          *)
SummaryTotal ==
  /\ viewer.at = "off"
  /\ viewer' = [at |-> "total", total |-> shared_rows, by_type |-> {}, shown |-> listed \ hidden]
  /\ UNCHANGED <<lastSeq, inserting, listed, hidden, pager>>

SummaryByType ==
  /\ viewer.at = "total"
  /\ viewer' = [viewer EXCEPT !.at = "done", !.by_type = shared_rows]
  /\ UNCHANGED <<lastSeq, inserting, listed, hidden, pager>>

SummaryAnswered == viewer.at = "done" /\ viewer' = NoViewer
                   /\ UNCHANGED <<lastSeq, inserting, listed, hidden, pager>>

QueryNext ==
  \/ InsertRow \/ \E s \in inserting : CommitRow(s)
  \/ \E s \in listed : HideRow(s) \/ UnhideRow(s)
  \/ FirstPage \/ OlderPage \/ NewerPage \/ ClosePager
  \/ SummaryTotal \/ SummaryByType \/ SummaryAnswered

QuerySpec == QueryInit /\ [][QueryNext]_queryVars
-----------------------------------------------------------------------------
(* Types.                                                                  *)
QueryTypeOK ==
  /\ lastSeq \in 0..MaxSeq
  /\ inserting \cup listed \subseteq 1..lastSeq /\ inserting \cap listed = {}
  /\ hidden \subseteq listed
  /\ pager.at \in {"off", "older", "newer"} /\ pager.had \cup pager.due \subseteq listed
  /\ viewer.at \in {"off", "total", "done"}

(* However the rows commit, a client that pages back from the newest page  *)
(* until one is short has had every row there was when it began, and no    *)
(* page gives it a row twice.                                              *)
PagesComplete ==
  /\ ~pager.again
  /\ pager.at = "newer" => pager.due \subseteq pager.had

(* A row counts for a viewer only if it was visible at some moment of the  *)
(* request, though the two statements may see different rows.              *)
OnlyShownCounted == viewer.total \cup viewer.by_type \subseteq viewer.shown
=============================================================================
