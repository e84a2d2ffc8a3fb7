---------------------------- MODULE Submissions ----------------------------
(***************************************************************************)
(* Parser-rule submissions of crates/starstats-server: submissions.rs (the *)
(* store), submission_routes.rs (users) and admin_submission_routes.rs     *)
(* (moderators).  flag, withdraw and admin_transition are transactions     *)
(* that lock the submission's row first; the other statements commit on    *)
(* their own.  A writer of the row, or of a row that refers to it, waits   *)
(* for the lock.                                                           *)
(***************************************************************************)
EXTENDS Integers, Sequences, FiniteSets, SequencesExt, Lists

CONSTANTS
  SubUsers,       \* accounts
  Voters,         \* those of them that vote (a bound: votes only count)
  SubCalls,       \* requests in progress
  FlagThreshold,  \* AUTO_FLAG_THRESHOLD
  QueueLimits,    \* page sizes asked for, after clamping
  MaxSubmissions  \* bound on submissions (exploration only)

ASSUME SubBounds ==
  /\ FlagThreshold \in Nat \ {0} /\ MaxSubmissions \in Nat
  /\ Voters \subseteq SubUsers /\ QueueLimits \subseteq Nat \ {0}

SubIds == 1..MaxSubmissions
Statuses == {"review", "accepted", "shipped", "rejected", "withdrawn", "flagged"}
NoSub == [status |-> "none"]
Nobody == "nobody"
Idle == [at |-> "free"]

ASSUME NobodyAssumption == Nobody \notin SubCalls

VARIABLES
  submissions,    \* [SubIds -> row, NoSub: none]; a row is [by, status, reason]
  updated,        \* the ids of the rows, the last updated first
  votes, flags,   \* tables: pairs of a submission and a user
  rowLock,        \* [SubIds -> the transaction that locked the row, or Nobody]
  subCall,        \* [SubCalls -> progress of a request]
  dismissed       \* history: submissions whose flags a moderator dismissed

subVars == <<submissions, updated, votes, flags, rowLock, subCall, dismissed>>
tables == <<submissions, updated, votes, flags>>

SubsInit ==
  /\ submissions = [i \in SubIds |-> NoSub] /\ updated = <<>>
  /\ votes = {} /\ flags = {}
  /\ rowLock = [i \in SubIds |-> Nobody]
  /\ subCall = [c \in SubCalls |-> Idle]
  /\ dismissed = {}

Stored(i) == submissions[i] # NoSub
Status(i) == submissions[i].status
Free(i) == rowLock[i] = Nobody
SubAt(c, at) == subCall[c].at = at
SubGo(c, step) == subCall' = [subCall EXCEPT ![c] = step]
Touch(i) == updated' = <<i>> \o Filtered(updated, SubIds \ {i})
FlagCount(i) == Cardinality({f \in flags : f[1] = i})
-----------------------------------------------------------------------------
(* create inserts the row and then looks up the submitter's handle in a    *)
(* column, preferred_username, that the table users does not have: the     *)
(* row is stored and the answer is 500.                                    *)
insert_submission(i, u) ==
  /\ ~Stored(i) /\ \A j \in SubIds : j < i => Stored(j)
  /\ submissions' = [submissions EXCEPT ![i] = [by |-> u, status |-> "review", reason |-> FALSE]]
  /\ Touch(i)

Create(c, u) ==
  /\ SubAt(c, "free")
  /\ \E i \in SubIds :
       /\ insert_submission(i, u)
       /\ SubGo(c, [at |-> "handle", id |-> i])
  /\ UNCHANGED <<votes, flags, rowLock, dismissed>>

(* The lookup fails and the request with it.                               *)
lookup_handle(c) ==
  /\ SubAt(c, "handle") /\ SubGo(c, Idle)
  /\ UNCHANGED <<tables, rowLock, dismissed>>

(* vote: whatever the status; a new vote counts as an update of the row.   *)
vote(i, u) ==
  /\ Stored(i) /\ Free(i) /\ votes' = votes \cup {<<i, u>>}
  /\ IF <<i, u>> \in votes THEN UNCHANGED updated ELSE Touch(i)

unvote(i, u) == votes' = votes \ {<<i, u>>} /\ UNCHANGED updated

(* The handler of both.                                                    *)
vote_handler(i, u) ==
  /\ vote(i, u) \/ unvote(i, u)
  /\ UNCHANGED <<submissions, flags, rowLock, subCall, dismissed>>
-----------------------------------------------------------------------------

(* SELECT ... FOR UPDATE                                                   *)
LockRow(c, i) == Stored(i) /\ Free(i) /\ rowLock' = [rowLock EXCEPT ![i] = c]

Unlocked(c) == [i \in SubIds |-> IF rowLock[i] = c THEN Nobody ELSE rowLock[i]]

FlagLock(c, i, u) ==
  /\ SubAt(c, "free") /\ LockRow(c, i)
  /\ SubGo(c, [at |-> "flag", id |-> i, prior |-> Status(i), user |-> u,
                 others |-> {f[2] : f \in {f \in flags : f[1] = i}}])
  /\ UNCHANGED <<tables, dismissed>>

(* The flag is inserted and the flags are counted: those committed when    *)
(* the lock was given, and its own.  The one that reaches the threshold in *)
(* review escalates.                                                       *)
FlagCommit(c) ==
  /\ SubAt(c, "flag") /\ SubGo(c, Idle) /\ rowLock' = Unlocked(c)
  /\ LET i == subCall[c].id
         u == subCall[c].user
         escalated == /\ u \notin subCall[c].others /\ subCall[c].prior = "review"
                      /\ Cardinality(subCall[c].others \cup {u}) >= FlagThreshold
     IN /\ flags' = flags \cup {<<i, u>>}
        /\ IF escalated THEN submissions' = [submissions EXCEPT ![i].status = "flagged"] /\ Touch(i)
                        ELSE UNCHANGED <<submissions, updated>>
  /\ UNCHANGED <<votes, dismissed>>

(* withdraw: the submitter's own, and in review only.                      *)
WithdrawLock(c, i, u) ==
  /\ SubAt(c, "free") /\ LockRow(c, i)
  /\ submissions[i].by = u /\ Status(i) = "review"
  /\ SubGo(c, [at |-> "withdraw", id |-> i])
  /\ UNCHANGED <<tables, dismissed>>

WithdrawCommit(c) ==
  /\ SubAt(c, "withdraw") /\ SubGo(c, Idle) /\ rowLock' = Unlocked(c)
  /\ Stored(subCall[c].id)
  /\ submissions' = [submissions EXCEPT ![subCall[c].id].status = "withdrawn"]
  /\ Touch(subCall[c].id)
  /\ UNCHANGED <<votes, flags, dismissed>>
-----------------------------------------------------------------------------
(* accept_submission, reject_submission, dismiss_flag                      *)
legal_priors ==
  [accepted |-> {"review", "flagged", "accepted"},
   rejected |-> {"review", "flagged", "rejected"},
   review   |-> {"flagged", "review"}]

(* admin_transition: lock, look at the prior status, write, commit.        *)
TransitionLock(c, i, target) ==
  /\ SubAt(c, "free") /\ LockRow(c, i)
  /\ Status(i) \in legal_priors[target]
  /\ SubGo(c, [at |-> "write", id |-> i, prior |-> Status(i), to |-> target])
  /\ UNCHANGED <<tables, dismissed>>

dismiss(c, i) == TransitionLock(c, i, "review")

TransitionCommit(c) ==
  /\ SubAt(c, "write") /\ SubGo(c, Idle) /\ rowLock' = Unlocked(c)
  /\ Stored(subCall[c].id)
  /\ LET i == subCall[c].id   to == subCall[c].to
     IN IF subCall[c].prior = to THEN UNCHANGED <<submissions, updated, dismissed>>
        ELSE /\ submissions' = [submissions EXCEPT ![i].status = to,
                                                   ![i].reason = @ \/ to = "rejected"]
             /\ Touch(i)
             /\ dismissed' = IF to = "review" THEN dismissed \cup {i} ELSE dismissed
  /\ UNCHANGED <<votes, flags>>

(* The connection or the server is lost: the transaction is rolled back.   *)
SubCallDies(c) ==
  /\ ~SubAt(c, "free") /\ SubGo(c, Idle) /\ rowLock' = Unlocked(c)
  /\ UNCHANGED <<tables, dismissed>>
-----------------------------------------------------------------------------
(* list_admin_queue and list_internal: of the rows that pass the filter,   *)
(* newest update first, a page.                                            *)
PageOfRows(rows, limit, offset) ==
  LET last == IF offset + limit > Len(rows) THEN Len(rows) ELSE offset + limit
  IN SubSeq(rows, offset + 1, last)

QueueStatuses == [review |-> {"review"}, flagged |-> {"flagged"}, all |-> {"review", "flagged"}]

(* queue asks for one row more than the page holds.                        *)
queue(filter, limit, offset) ==
  LET waiting == {i \in SubIds : Status(i) \in QueueStatuses[filter]}
      rows == PageOfRows(Filtered(updated, waiting), limit + 1, offset)
  IN [items |-> SubSeq(rows, 1, IF Len(rows) > limit THEN limit ELSE Len(rows)),
      has_more |-> Len(rows) > limit]

(* list: of one status (or any) and of the caller only, if asked for.      *)
list(statuses, mine, u, limit, offset) ==
  LET asked == {i \in SubIds : Status(i) \in statuses /\ (mine => submissions[i].by = u)}
  IN  PageOfRows(Filtered(updated, asked), limit, offset)
-----------------------------------------------------------------------------
SubsNext ==
  \/ \E u \in Voters, i \in SubIds : vote_handler(i, u)
  \/ \E c \in SubCalls :
    \/ \E u \in SubUsers :
         \/ Create(c, u)
         \/ \E i \in SubIds : FlagLock(c, i, u) \/ WithdrawLock(c, i, u)
    \/ \E i \in SubIds :
         \/ \E target \in {"accepted", "rejected"} : TransitionLock(c, i, target)
         \/ dismiss(c, i)
    \/ lookup_handle(c) \/ FlagCommit(c) \/ WithdrawCommit(c)
    \/ TransitionCommit(c) \/ SubCallDies(c)

SubsSpec == SubsInit /\ [][SubsNext]_subVars
-----------------------------------------------------------------------------
(* Types.  The list of rows by last update holds every row once, and votes *)
(* and flags are about rows that exist.                                    *)
SubsTypeOK ==
  /\ submissions \in [SubIds -> {NoSub} \cup [by : SubUsers, status : Statuses, reason : BOOLEAN]]
  /\ IsInjective(updated) /\ ToSet(updated) = {i \in SubIds : Stored(i)}
  /\ votes \cup flags \subseteq {i \in SubIds : Stored(i)} \X SubUsers
  /\ rowLock \in [SubIds -> SubCalls \cup {Nobody}]

(* Enough flags take a submission out of review, however the requests      *)
(* interleave, unless a moderator has dismissed flags of it (flag: three   *)
(* distinct flaggers route it to a moderator).                             *)
FlaggedInTime ==
  \A i \in SubIds \ dismissed : Status(i) = "review" => FlagCount(i) < FlagThreshold

(* What is decided stays decided: no request takes a submission out of     *)
(* accepted, rejected or withdrawn, whatever it had read before, and a     *)
(* rejected one has its reason (admin_transition, withdraw and flag).      *)
DecidedKept ==
  \A i \in SubIds :
    /\ Status(i) \in {"accepted", "shipped", "rejected", "withdrawn"} => Status(i)' = Status(i)
    /\ Status(i)' = "rejected" => submissions'[i].reason

(* Asking for the next page as long as has_more says so shows every        *)
(* submission of the queue exactly once (queue, limit + 1).                *)
QueueComplete ==
  \A filter \in DOMAIN QueueStatuses, limit \in QueueLimits :
    LET page(k) == queue(filter, limit, k * limit)
        pages == {k \in 0..MaxSubmissions : \A j \in 0..(k - 1) : page(j).has_more}
        shown(k) == ToSet(page(k).items)
    IN /\ UNION {shown(k) : k \in pages} = {i \in SubIds : Status(i) \in QueueStatuses[filter]}
       /\ \A j, k \in pages : j # k => shown(j) \cap shown(k) = {}
       /\ \A k \in pages : IsInjective(page(k).items)
=============================================================================
