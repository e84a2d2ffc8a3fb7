------------------------------ MODULE Accounts ------------------------------
(***************************************************************************)
(* The account row of crates/starstats-server (users.rs) and the handlers  *)
(* of auth_routes.rs that change it by way of mailed one-time links: sign  *)
(* up, verification, password reset, e-mail change, deletion.              *)
(*                                                                         *)
(* A handler that reads the row in one statement and writes it in another  *)
(* is two steps, and requests run concurrently.  Refusals change nothing   *)
(* and have no step: a link that has expired is one nobody presents.       *)
(***************************************************************************)
EXTENDS Integers, FiniteSets

CONSTANTS
  AccountIds,   \* user ids; an id is signed up at most once
  Emails,
  Handles,
  Requests,     \* requests between their read and their write
  MaxLinks,     \* bound on one-time tokens ever generated (exploration only)
  MaxRows,      \* bound on the rows of events (exploration only)
  NoEmail

ASSUME NoEmailAssumption == NoEmail \notin Emails
ASSUME MaxLinksAssumption == MaxLinks \in Nat
ASSUME MaxRowsAssumption == MaxRows \in Nat

NoLink == 0

(* The columns of users that the handlers write.  The password's hash is   *)
(* left out, and with it change_password, which writes nothing else: no    *)
(* step here reads it.                                                     *)
Row ==
  [state : {"none", "live", "deleted"}, email : Emails \cup {NoEmail}, handle : Handles,
   verified : BOOLEAN, verify_token : Nat, reset_token : Nat,
   pending_email : Emails \cup {NoEmail}, pending_token : Nat]

VARIABLES
  users,        \* [AccountIds -> Row]
  links,        \* tokens generated so far
  mailed,       \* links in mailboxes: [kind, to, user, token]
  request,      \* [Requests -> what it read, and what it will write]
  events,       \* rows of events: [handle, by, unseen]; unseen: the deletions
                \* under way whose UPDATE began before the row was committed
  audit,        \* ids with an account_deleted row in audit_log
  spent,        \* history: tokens that had their effect
  clicked,      \* history: addresses a user has proved by a verify or change link
  crossed,      \* history: ids with a write between another's read and write
  late          \* history: ids that stored an event when their account was gone
                \* or a deletion had collected its events

accountVars ==
  <<users, links, mailed, request, events, audit, spent, clicked, crossed, late>>

Idle == [at |-> "idle"]

AccountsInit ==
  /\ \E h \in Handles :
       users = [i \in AccountIds |->
         [state |-> "none", email |-> NoEmail, handle |-> h, verified |-> FALSE,
          verify_token |-> NoLink, reset_token |-> NoLink,
          pending_email |-> NoEmail, pending_token |-> NoLink]]
  /\ links = 0 /\ mailed = {}
  /\ request = [r \in Requests |-> Idle]
  /\ events = {} /\ audit = {}
  /\ spent = {} /\ clicked = {} /\ crossed = {}
  /\ late = {}

Live(i) == users[i].state = "live"
(* A token names an account that still exists.                             *)
resolve_user(i) == Live(i)
(* find_by_email *)
EmailTaken(e, i) == \E j \in AccountIds \ {i} : Live(j) /\ users[j].email = e
(* find_by_handle *)
HandleTaken(h) == \E j \in AccountIds : Live(j) /\ users[j].handle = h
-----------------------------------------------------------------------------
(* generate_verification_token.  A lost mail is one nobody follows.        *)
Generate == links < MaxLinks /\ links' = links + 1
Mail(kind, to, i) ==
  mailed' = mailed \cup {[kind |-> kind, to |-> to, user |-> i, token |-> links']}

(* A write to row i by a request other than those in between.              *)
Crosses(i, r) == \E q \in Requests \ {r} : request[q] # Idle /\ request[q].user = i
Wrote(i, r) == crossed' = IF Crosses(i, r) THEN crossed \cup {i} ELSE crossed

Begin(r, at, i, value) ==
  /\ request[r] = Idle
  /\ request' = [request EXCEPT ![r] = [at |-> at, user |-> i, value |-> value]]

At(r, at) == request[r] # Idle /\ request[r].at = at

Done(r) == request' = [request EXCEPT ![r] = Idle]

(* UPDATE users SET ... WHERE id = i: no row, no effect.                   *)
Update(i, r, row) ==
  /\ users' = IF Live(i) THEN [users EXCEPT ![i] = row] ELSE users
  /\ Wrote(i, r)
-----------------------------------------------------------------------------
create(row, e, h) == [row EXCEPT !.state = "live", !.email = e, !.handle = h]

set_verification_token(row) == [row EXCEPT !.verify_token = links']

(* signup: the row, then its token and the mail, both best effort.         *)
Signup(i, e, h) ==
  /\ users[i].state = "none" /\ ~EmailTaken(e, i) /\ ~HandleTaken(h)
  /\ \/ /\ Generate
        /\ users' = [users EXCEPT ![i] = set_verification_token(create(@, e, h))]
        /\ Mail("verify", e, i)
     \/ /\ users' = [users EXCEPT ![i] = create(@, e, h)]
        /\ UNCHANGED <<links, mailed>>
  /\ UNCHANGED <<request, events, audit, spent, clicked, crossed, late>>

(* resend_verification mails to the address it has read.                   *)
ResendRead(r, i) ==
  /\ resolve_user(i) /\ ~users[i].verified
  /\ Begin(r, "resend", i, users[i].email)
  /\ UNCHANGED <<users, links, mailed, events, audit, spent, clicked, crossed, late>>

ResendWrite(r) ==
  /\ At(r, "resend") /\ Generate /\ Done(r)
  /\ LET i == request[r].user IN
       /\ Update(i, r, set_verification_token(users[i]))
       /\ Mail("verify", request[r].value, i)
  /\ UNCHANGED <<events, audit, spent, clicked, late>>

(* find_by_verification_token, find_by_password_reset_token,               *)
(* find_by_pending_email_token                                             *)
Stored(i) ==
  [verify |-> users[i].verify_token, reset |-> users[i].reset_token,
   change |-> users[i].pending_token]

Follow(r, kind, link) ==
  /\ link.kind = kind /\ Live(link.user) /\ Stored(link.user)[kind] = link.token
  /\ Begin(r, kind, link.user, link.token)
  /\ UNCHANGED <<users, links, mailed, events, audit, spent, crossed, late>>

Click(link) == clicked' = clicked \cup {<<link.user, link.to>>}

VerifyRead(r, link) == Follow(r, "verify", link) /\ Click(link)

mark_email_verified(row) == [row EXCEPT !.verified = TRUE, !.verify_token = NoLink]

VerifyWrite(r) ==
  /\ At(r, "verify") /\ Done(r)
  /\ Update(request[r].user, r, mark_email_verified(users[request[r].user]))
  /\ spent' = spent \cup {request[r].value}
  /\ UNCHANGED <<links, mailed, events, audit, clicked, late>>
-----------------------------------------------------------------------------
set_password_reset_token(row) == [row EXCEPT !.reset_token = links']

(* password_reset_start, for an address that has an account                *)
ResetStart(i) ==
  /\ Live(i) /\ Generate
  /\ users' = [users EXCEPT ![i] = set_password_reset_token(@)]
  /\ crossed' = IF \E q \in Requests : request[q] # Idle /\ request[q].user = i
                THEN crossed \cup {i} ELSE crossed
  /\ Mail("reset", users[i].email, i)
  /\ UNCHANGED <<request, events, audit, spent, clicked, late>>

ResetRead(r, link) == Follow(r, "reset", link) /\ UNCHANGED clicked

complete_password_reset(row) == [row EXCEPT !.reset_token = NoLink]

(* password_reset_complete; what it does to devices is in DevicePairing.   *)
ResetWrite(r) ==
  /\ At(r, "reset") /\ Done(r)
  /\ Update(request[r].user, r, complete_password_reset(users[request[r].user]))
  /\ spent' = spent \cup {request[r].value}
  /\ UNCHANGED <<links, mailed, events, audit, clicked, late>>
-----------------------------------------------------------------------------
(* Mutant of set_pending_email: a second change keeps the first's token.   *)
set_pending_email_keeps(row, e) ==
  [row EXCEPT !.pending_email = e, !.pending_token = IF @ = NoLink THEN links' ELSE @]

set_pending_email(row, e) == [row EXCEPT !.pending_email = e, !.pending_token = links']

(* email_change_start: a new address stages over an old one.               *)
EmailStart(i, e) ==
  /\ resolve_user(i) /\ ~EmailTaken(e, i) /\ Generate
  /\ users' = [users EXCEPT ![i] = set_pending_email(@, e)]
  /\ crossed' = IF \E q \in Requests : request[q] # Idle /\ request[q].user = i
                THEN crossed \cup {i} ELSE crossed
  /\ Mail("change", e, i)
  /\ UNCHANGED <<request, events, audit, spent, clicked, late>>

EmailRead(r, link) == Follow(r, "change", link) /\ Click(link)

commit_pending_email(row) ==
  [row EXCEPT !.email = row.pending_email, !.verified = TRUE,
              !.pending_email = NoEmail, !.pending_token = NoLink]

(* email_change_verify commits whatever is pending by then, if anything    *)
(* is; the unique index may refuse it.                                     *)
EmailWrite(r) ==
  /\ At(r, "change") /\ Done(r)
  /\ LET i == request[r].user
         staged == Live(i) /\ users[i].pending_email # NoEmail
         taken == staged /\ EmailTaken(users[i].pending_email, i)
     IN /\ IF staged /\ ~taken
           THEN Update(i, r, commit_pending_email(users[i]))
           ELSE UNCHANGED <<users, crossed>>
        /\ spent' = IF taken THEN spent ELSE spent \cup {request[r].value}
  /\ UNCHANGED <<links, mailed, events, audit, clicked, late>>
-----------------------------------------------------------------------------
(* delete_account: resolve_user, the audit row, and only then the delete.  *)
DeleteRead(r, i) ==
  /\ resolve_user(i)
  /\ Begin(r, "delete", i, NoLink)
  /\ UNCHANGED <<users, links, mailed, events, audit, spent, clicked, crossed, late>>

DeleteAudit(r) ==
  /\ At(r, "delete")
  /\ audit' = audit \cup {request[r].user}
  /\ request' = [request EXCEPT ![r].at = "deleting"]
  /\ UNCHANGED <<users, links, mailed, events, spent, clicked, crossed, late>>

DeleteFails(r) ==
  /\ At(r, "delete") /\ Done(r)
  /\ UNCHANGED <<users, links, mailed, events, audit, spent, clicked, crossed, late>>

(* delete_user, one READ COMMITTED transaction.  Its SELECT: a row that is *)
(* gone already leaves nothing to do.                                      *)
DeleteSelect(r) ==
  /\ At(r, "deleting")
  /\ request' = [request EXCEPT ![r] = IF Live(@.user) THEN [@ EXCEPT !.at = "scrub"] ELSE Idle]
  /\ UNCHANGED <<users, links, mailed, events, audit, spent, clicked, crossed, late>>

(* The UPDATE of events sees those committed by now.                       *)
DeleteScrub(r) ==
  /\ At(r, "scrub")
  /\ request' = [request EXCEPT ![r].at = "scrubbed"]
  /\ UNCHANGED <<users, links, mailed, events, audit, spent, clicked, crossed, late>>

Ended(r, rest) == events' = {[e EXCEPT !.unseen = @ \ {r}] : e \in rest}

(* DELETE FROM users and the commit: what the UPDATE saw loses its handle, *)
(* the row goes.                                                           *)
delete_user(i, r) ==
  /\ users' = IF Live(i) THEN [users EXCEPT ![i].state = "deleted"] ELSE users
  /\ Ended(r, {e \in events : e.handle = users[i].handle => r \in e.unseen})

DeleteCommit(r) ==
  /\ At(r, "scrubbed") /\ Done(r)
  /\ delete_user(request[r].user, r)
  /\ Wrote(request[r].user, r)
  /\ UNCHANGED <<links, mailed, audit, spent, clicked, late>>

(* The write of a request fails, or the server dies.                       *)
RequestFails(r) ==
  /\ request[r] # Idle /\ Done(r)
  /\ Ended(r, events)
  /\ UNCHANGED <<users, links, mailed, audit, spent, clicked, crossed, late>>

(* ingest takes the handle from the token, which outlives the account.     *)
Collecting == {r \in Requests : At(r, "scrubbed")}
IngestEvent(i) ==
  /\ users[i].state # "none" /\ Cardinality(events) < MaxRows
  /\ events' = events \cup {[handle |-> users[i].handle, by |-> i, unseen |-> Collecting]}
  /\ late' = IF Live(i) /\ \A r \in Collecting : request[r].user # i
             THEN late ELSE late \cup {i}
  /\ UNCHANGED <<users, links, mailed, request, audit, spent, clicked, crossed>>
-----------------------------------------------------------------------------
AccountsNext ==
  \/ \E i \in AccountIds :
       \/ \E e \in Emails, h \in Handles : Signup(i, e, h)
       \/ ResetStart(i)
       \/ \E e \in Emails : EmailStart(i, e)
       \/ IngestEvent(i)
  \/ \E r \in Requests :
       \/ \E i \in AccountIds : ResendRead(r, i) \/ DeleteRead(r, i)
       \/ \E link \in mailed : VerifyRead(r, link) \/ ResetRead(r, link) \/ EmailRead(r, link)
       \/ ResendWrite(r) \/ VerifyWrite(r) \/ ResetWrite(r) \/ EmailWrite(r)
       \/ DeleteAudit(r) \/ DeleteFails(r)
       \/ DeleteSelect(r) \/ DeleteScrub(r) \/ DeleteCommit(r) \/ RequestFails(r)

AccountsSpec == AccountsInit /\ [][AccountsNext]_accountVars
-----------------------------------------------------------------------------
(* Types, and a live account has an address (users.email is NOT NULL).     *)
AccountsTypeOK ==
  /\ \A i \in AccountIds : Live(i) => users[i].email # NoEmail
  /\ users \in [AccountIds -> Row] /\ links \in 0..MaxLinks
  /\ mailed \subseteq [kind : {"verify", "reset", "change"}, to : Emails, user : AccountIds, token : 1..links]
  /\ events \subseteq [handle : Handles, by : AccountIds, unseen : SUBSET Requests]
  /\ late \subseteq AccountIds
  /\ spent \subseteq 1..links /\ clicked \subseteq AccountIds \X Emails

(* Whatever requests cross, a link that had its effect is in no row any    *)
(* more: a later request with it is refused (mark_email_verified,          *)
(* complete_password_reset and commit_pending_email clear their columns).  *)
SpentLinkDead ==
  \A i \in AccountIds : Live(i) =>
    {users[i].verify_token, users[i].reset_token, users[i].pending_token} \cap spent = {}

(* An account's verified address is one its owner has followed a link      *)
(* from, unless requests for the account crossed: email_change_verify      *)
(* commits an address staged after it looked its link up.                  *)
VerifiedAddressProved ==
  \A i \in AccountIds \ crossed :
    Live(i) /\ users[i].verified => \E link \in clicked : link = <<i, users[i].email>>

(* Whatever fails or crosses, no account is deleted without its audit row  *)
(* (delete_account appends first and gives up when that fails).            *)
DeletionAudited == \A i \in AccountIds : users[i].state = "deleted" => i \in audit

(* An account never shows events of an earlier owner of its handle         *)
(* (delete_user takes them along), but those stored with a token that      *)
(* outlived the account, or after the deletion had collected its events.   *)
OwnEventsOnly ==
  \A e \in events, i \in AccountIds :
    Live(i) /\ users[i].handle = e.handle /\ e.by \notin late => e.by = i
=============================================================================
