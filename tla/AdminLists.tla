----------------------------- MODULE AdminLists -----------------------------
(***************************************************************************)
(* The lists that are read by limit and offset, newest first, while rows   *)
(* come and go: the moderators' lists of accounts, organisations and audit *)
(* entries, and a handle's own ingest history (admin_user_routes.rs,       *)
(* admin_org_routes.rs, admin_routes.rs, query.rs).                        *)
(*                                                                         *)
(* One reader turns the pages of one list; a row is its number, in the     *)
(* order of created_at or seq, and whether it matches what is searched     *)
(* for.                                                                    *)
(***************************************************************************)
EXTENDS Lists, SequencesExt

CONSTANTS
  PageMax,       \* ORGS_PAGE_MAX, USERS_PAGE_MAX, AUDIT_PAGE_MAX
  AskedLimits,   \* limits a client asks for
  MaxNumber      \* bound on the rows of a list (exploration only)

ASSUME AdminListsAssumption == PageMax \in Nat \ {0} /\ AskedLimits \subseteq Nat /\ MaxNumber \in Nat

Lists == {"users", "orgs", "audit", "batches"}

VARIABLES
  table,       \* rows of the list being read, newest first
  numbered,    \* rows inserted so far
  reader       \* the list, what was asked for, the pages had, and history: the
               \* rows there were at the start, rows deleted or added since

listVars == <<table, numbered, reader>>

ListsInit ==
  /\ table = <<>> /\ numbered = 0
  /\ reader = [at |-> "off", list |-> "users", q |-> FALSE, limit |-> 1, offset |-> 0,
               had |-> <<>>, due |-> {}, deleted |-> FALSE, added |-> FALSE]

Ids == {table[k].id : k \in DOMAIN table}
Matching(rows, q) == Filtered(rows, {r \in ToSet(rows) : q => r.matches})

(* A row is inserted.                                                      *)
RowAdded(matches) ==
  /\ numbered < MaxNumber /\ numbered' = numbered + 1
  /\ table' = <<[id |-> numbered + 1, matches |-> matches]>> \o table
  /\ reader' = [reader EXCEPT !.added = TRUE]

(* delete_user, delete_org; audit rows stay.                               *)
RowDeleted(id) ==
  /\ reader.list \in {"users", "orgs"}
  /\ table' = Filtered(table, {r \in ToSet(table) : r.id # id})
  /\ reader' = [reader EXCEPT !.deleted = TRUE]
  /\ UNCHANGED numbered
-----------------------------------------------------------------------------
clamp(n, low, high) == IF n < low THEN low ELSE IF n > high THEN high ELSE n

(* ORDER BY ... DESC LIMIT OFFSET of every list; the SQL filters first.    *)
Window(rows, limit, offset) ==
  SubSeq(rows, offset + 1, IF offset + limit < Len(rows) THEN offset + limit ELSE Len(rows))

list_users(q, limit, offset) == Window(Matching(table, q), clamp(limit, 1, PageMax), offset)
list_all(q, limit, offset) == Window(Matching(table, q), clamp(limit, 1, PageMax), offset)
list_entries(action, limit, offset) == Window(Matching(table, action), clamp(limit, 1, PageMax), offset)
ingest_history_for_handle(device, limit, offset) == Window(Matching(table, device), limit, offset)

(* has_more of the answers.                                                *)
more(rows, limit) == Len(rows) >= limit

list_users_admin(q, asked, offset) ==
  LET limit == clamp(asked, 1, PageMax)
      rows == list_users(q, limit, offset)
  IN [rows |-> rows, has_more |-> more(rows, limit)]

list_orgs_admin(q, asked, offset) ==
  LET limit == clamp(asked, 1, PageMax)
      rows == list_all(q, limit, offset)
  IN [rows |-> rows, has_more |-> more(rows, limit)]

list_audit(q, asked, offset) ==
  LET limit == clamp(asked, 1, PageMax)
      rows == list_entries(q, limit, offset)
  IN [rows |-> rows, has_more |-> more(rows, limit)]

(* ingest_history says nothing of more: a client stops at an empty page.   *)
ingest_history(q, asked, offset) ==
  LET rows == ingest_history_for_handle(q, clamp(asked, 1, PageMax), offset)
  IN [rows |-> rows, has_more |-> rows # <<>>]

Answers(list, q, limit, offset) ==
  CASE list = "users" -> list_users_admin(q, limit, offset)
    [] list = "orgs" -> list_orgs_admin(q, limit, offset)
    [] list = "audit" -> list_audit(q, limit, offset)
    [] list = "batches" -> ingest_history(q, limit, offset)
-----------------------------------------------------------------------------
(* The reader starts on a list, then asks from behind what it was given.   *)
StartReading(list, q, limit) ==
  /\ reader.at = "off"
  /\ reader' = [at |-> "reading", list |-> list, q |-> q, limit |-> limit, offset |-> 0,
                had |-> <<>>, due |-> {r.id : r \in ToSet(Matching(table, q))},
                deleted |-> FALSE, added |-> FALSE]
  /\ UNCHANGED <<table, numbered>>

TurnPage ==
  /\ reader.at = "reading"
  /\ LET page == Answers(reader.list, reader.q, reader.limit, reader.offset)
     IN reader' = [reader EXCEPT
          !.at = IF page.has_more THEN "reading" ELSE "done",
          !.offset = @ + Len(page.rows),
          !.had = @ \o page.rows]
  /\ UNCHANGED <<table, numbered>>

ListsNext ==
  \/ \E matches \in BOOLEAN : RowAdded(matches)
  \/ \E id \in Ids : RowDeleted(id)
  \/ \E list \in Lists, q \in BOOLEAN, limit \in AskedLimits : StartReading(list, q, limit)
  \/ TurnPage

ListsSpec == ListsInit /\ [][ListsNext]_listVars
-----------------------------------------------------------------------------
(* A reader that turns pages until the answers say there is no more has    *)
(* had every row there was when it began, also when new rows push the old  *)
(* ones to later pages; it is given a row twice only then.  Rows that are  *)
(* deleted meanwhile pull others to pages already read.                    *)
ListReadComplete ==
  /\ reader.at = "done" /\ ~reader.deleted => reader.due \subseteq {r.id : r \in ToSet(reader.had)}
  /\ ~reader.added => \A i, j \in DOMAIN reader.had : i # j => reader.had[i].id # reader.had[j].id
=============================================================================
