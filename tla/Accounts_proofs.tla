-------------------------- MODULE Accounts_proofs --------------------------
(***************************************************************************)
(* Proofs about Accounts, SignIn and DevicePairing for any accounts,       *)
(* addresses, handles, codes, concurrent requests and bounds: what a       *)
(* mailed link, a recovery code, a magic link and a pairing code can do,   *)
(* and when, whatever requests cross or fail.                              *)
(***************************************************************************)
EXTENDS MCAccounts, TLAPS

Deletion == {"deleting", "scrub", "scrubbed"}
Stages == {"resend", "verify", "reset", "change", "delete"} \cup Deletion
RequestType ==
  [Requests -> {Idle} \cup [at : Stages, user : AccountIds, value : Nat \cup Emails]]

(* What a request has read: the address it will mail to, the token it was  *)
(* given, or the account it is about to delete.                            *)
RequestsTyped ==
  \A r \in Requests : request[r] # Idle =>
    /\ request[r].user \in AccountIds /\ users[request[r].user].state # "none"
    /\ \/ request[r].at = "resend" /\ request[r].value \in Emails
       \/ request[r].at \in {"verify", "reset", "change"} /\ request[r].value \in 1..links
       \/ request[r].at \in {"delete"} \cup Deletion /\ request[r].value = NoLink

(* An id that nobody has signed up yet has a blank row, and a token for a  *)
(* change of address is stored only with the address.                      *)
BlankRows ==
  \A i \in AccountIds :
    /\ users[i].state = "none" =>
         /\ ~users[i].verified /\ users[i].verify_token = NoLink
         /\ users[i].reset_token = NoLink /\ users[i].pending_token = NoLink
    /\ users[i].pending_email = NoEmail => users[i].pending_token = NoLink

RowsTyped ==
  /\ AccountsTypeOK
  /\ request \in RequestType
  /\ RequestsTyped
  /\ BlankRows

(* A link is mailed for one account and one purpose.                       *)
LinksDistinct ==
  \A l, m \in mailed : l.token = m.token => l = m

(* A stored token, and one a request was given, is a mailed link's.        *)
TokensMailed ==
  /\ \A i \in AccountIds :
       /\ users[i].verify_token # NoLink =>
            \E l \in mailed : l.kind = "verify" /\ l.user = i /\ l.token = users[i].verify_token
       /\ users[i].reset_token # NoLink =>
            \E l \in mailed : l.kind = "reset" /\ l.user = i /\ l.token = users[i].reset_token
       /\ users[i].pending_token # NoLink =>
            \E l \in mailed : l.kind = "change" /\ l.user = i /\ l.token = users[i].pending_token
  /\ \A r \in Requests :
       request[r] # Idle /\ request[r].at \in {"verify", "reset", "change"} =>
         \E l \in mailed : l.kind = request[r].at /\ l.user = request[r].user
                           /\ l.token = request[r].value

LinksInv == LinksDistinct /\ TokensMailed /\ SpentLinkDead

(* What the links and the requests of an account carry is the address in   *)
(* its row, as long as its requests have not crossed.                      *)
AddressesKept ==
  /\ \A l \in mailed :
       l.kind = "verify" /\ Live(l.user) /\ l.user \notin crossed
         /\ users[l.user].verify_token = l.token
         => users[l.user].verified \/ l.to = users[l.user].email
  /\ \A l \in mailed :
       l.kind = "change" /\ users[l.user].pending_token = l.token
         => l.to = users[l.user].pending_email
  /\ \A r \in Requests :
       request[r] # Idle /\ Live(request[r].user) /\ request[r].user \notin crossed =>
         /\ request[r].at = "resend" =>
              users[request[r].user].verified \/ request[r].value = users[request[r].user].email
         /\ request[r].at = "verify" =>
              <<request[r].user, users[request[r].user].email>> \in clicked
         /\ request[r].at = "change" /\ users[request[r].user].pending_email # NoEmail =>
              <<request[r].user, users[request[r].user].pending_email>> \in clicked

AddressInv == AddressesKept /\ VerifiedAddressProved

(* A request about to delete has written its audit row.                    *)
AuditInv ==
  /\ DeletionAudited
  /\ \A r \in Requests : request[r] # Idle /\ request[r].at \in Deletion => request[r].user \in audit

(* Handles name one account, and an event is a live account's, unless it   *)
(* came after a deletion of its account had collected the others.          *)
EventsInv ==
  /\ \A i, j \in AccountIds : Live(i) /\ Live(j) /\ users[i].handle = users[j].handle => i = j
  /\ \A e \in events : e.by \in late \/ (Live(e.by) /\ users[e.by].handle = e.handle)

(* A deletion that does not see an event is past its UPDATE, and the       *)
(* event's owner is known as one with late events.                         *)
UnseenLate ==
  \A e \in events, r \in Requests :
    r \in e.unseen => At(r, "scrubbed") /\ (request[r].user = e.by => e.by \in late)

(* The inductive invariant of Accounts.                                    *)
AccountsInv == RowsTyped /\ LinksInv /\ AddressInv /\ AuditInv /\ EventsInv
AccountsInvPlus == AccountsInv /\ UnseenLate
-----------------------------------------------------------------------------
(* A request that begins or ends leaves the others alone.                  *)
LEMMA BeginOne ==
  ASSUME RowsTyped, NEW r \in Requests, NEW at \in Stages, NEW i \in AccountIds,
         NEW v \in Nat \cup Emails, Begin(r, at, i, v)
  PROVE  /\ request' \in RequestType
         /\ request'[r] # Idle /\ request'[r].at = at /\ request'[r].user = i /\ request'[r].value = v
         /\ \A q \in Requests \ {r} : request'[q] = request[q]
  BY DEF RowsTyped, Begin, Idle, RequestType, Stages

LEMMA DoneOne ==
  ASSUME RowsTyped, NEW r \in Requests, Done(r)
  PROVE  /\ request' \in RequestType
         /\ request'[r] = Idle
         /\ \A q \in Requests \ {r} : request'[q] = request[q]
  BY DEF RowsTyped, Done, RequestType

(* The columns a statement writes, as the proofs use them.                 *)
Columns(row, state, email, handle, verified, verify, reset, pending, change) ==
  /\ row \in Row
  /\ row.state = state /\ row.email = email /\ row.handle = handle /\ row.verified = verified
  /\ row.verify_token = verify /\ row.reset_token = reset
  /\ row.pending_email = pending /\ row.pending_token = change

LEMMA CreateColumns ==
  ASSUME NEW row \in Row, NEW e \in Emails, NEW h \in Handles
  PROVE  Columns(create(row, e, h), "live", e, h, row.verified,
                 row.verify_token, row.reset_token, row.pending_email, row.pending_token)
  BY DEF Columns, Row, create, NoLink

LEMMA VerificationColumns ==
  ASSUME NEW row \in Row, links' \in Nat
  PROVE  Columns(set_verification_token(row), row.state, row.email, row.handle, row.verified,
                 links', row.reset_token, row.pending_email, row.pending_token)
  BY DEF Columns, Row, set_verification_token, NoLink

LEMMA VerifiedColumns ==
  ASSUME NEW row \in Row
  PROVE  Columns(mark_email_verified(row), row.state, row.email, row.handle, TRUE,
                 NoLink, row.reset_token, row.pending_email, row.pending_token)
  BY DEF Columns, Row, mark_email_verified, NoLink

LEMMA ResetColumns ==
  ASSUME NEW row \in Row, links' \in Nat
  PROVE  Columns(set_password_reset_token(row), row.state, row.email, row.handle, row.verified,
                 row.verify_token, links', row.pending_email, row.pending_token)
  BY DEF Columns, Row, set_password_reset_token, NoLink

LEMMA PasswordColumns ==
  ASSUME NEW row \in Row
  PROVE  Columns(complete_password_reset(row), row.state, row.email, row.handle, row.verified,
                 row.verify_token, NoLink, row.pending_email, row.pending_token)
  BY DEF Columns, Row, complete_password_reset, NoLink

LEMMA PendingColumns ==
  ASSUME NEW row \in Row, NEW e \in Emails, links' \in Nat
  PROVE  Columns(set_pending_email(row, e), row.state, row.email, row.handle, row.verified,
                 row.verify_token, row.reset_token, e, links')
  BY DEF Columns, Row, set_pending_email, NoLink

LEMMA CommitColumns ==
  ASSUME NEW row \in Row
  PROVE  Columns(commit_pending_email(row), row.state, row.pending_email, row.handle, TRUE,
                 row.verify_token, row.reset_token, NoEmail, NoLink)
  BY DEF Columns, Row, commit_pending_email, NoLink

(* A fresh token is nobody's, and its mail is the only new one.            *)
LEMMA MailOne ==
  ASSUME RowsTyped, LinksDistinct, Generate,
         NEW kind \in {"verify", "reset", "change"}, NEW to \in Emails, NEW i \in AccountIds,
         Mail(kind, to, i)
  PROVE  /\ links \in Nat /\ links' = links + 1 /\ links' \in 0..MaxLinks
         /\ mailed' \subseteq
              [kind : {"verify", "reset", "change"}, to : Emails, user : AccountIds, token : 1..links']
         /\ \A l \in mailed : l.token < links' /\ l \in mailed'
         /\ \A l \in mailed' :
              l \in mailed \/ (l.kind = kind /\ l.to = to /\ l.user = i /\ l.token = links')
         /\ \E l \in mailed' : l.kind = kind /\ l.to = to /\ l.user = i /\ l.token = links'
         /\ LinksDistinct'
<1>. DEFINE new == [kind |-> kind, to |-> to, user |-> i, token |-> links']
<1>1. links \in Nat /\ links' = links + 1 /\ links' \in 0..MaxLinks
  BY MaxLinksAssumption DEF RowsTyped, AccountsTypeOK, Generate
<1>2. \A l \in mailed : l.token \in 1..links /\ l.token < links'
  BY <1>1 DEF RowsTyped, AccountsTypeOK
<1>3. mailed' = mailed \cup {new}
  BY DEF Mail
<1>4. new.kind = kind /\ new.to = to /\ new.user = i /\ new.token = links'
  OBVIOUS
<1>5. LinksDistinct'
  BY <1>1, <1>2, <1>3, <1>4 DEF LinksDistinct
<1>6. mailed' \subseteq
        [kind : {"verify", "reset", "change"}, to : Emails, user : AccountIds, token : 1..links']
  BY <1>1, <1>3 DEF RowsTyped, AccountsTypeOK
<1>. HIDE DEF new
<1>. QED  BY <1>1, <1>2, <1>3, <1>4, <1>5, <1>6

(* signup: the row was blank, and its handle nobody's.                     *)
LEMMA SignupStep ==
  ASSUME AccountsInv, NEW i \in AccountIds, NEW e \in Emails, NEW h \in Handles, Signup(i, e, h)
  PROVE  AccountsInv'
<1>. USE NoEmailAssumption, MaxLinksAssumption DEF AccountsInv, NoLink
<1>. DEFINE tok == users'[i].verify_token
<1>1. users[i] \in Row /\ users \in [AccountIds -> Row]
  BY DEF RowsTyped, AccountsTypeOK
<1>2. /\ links \in Nat /\ links' \in 0..MaxLinks /\ links <= links'
      /\ mailed' \subseteq
           [kind : {"verify", "reset", "change"}, to : Emails, user : AccountIds, token : 1..links']
      /\ mailed \subseteq mailed'
      /\ \A l \in mailed' : l \in mailed \/ (l.kind = "verify" /\ l.to = e /\ l.user = i /\ l.token = links')
      /\ \A l \in mailed : l.token <= links
      /\ LinksDistinct'
  <2>1. CASE Generate /\ Mail("verify", e, i)
    BY <2>1, MailOne DEF RowsTyped, AccountsTypeOK, LinksInv
  <2>2. CASE UNCHANGED <<links, mailed>>
    BY <2>2 DEF RowsTyped, AccountsTypeOK, LinksInv, LinksDistinct
  <2>. QED  BY <2>1, <2>2 DEF Signup
<1>3. /\ Columns(users'[i], "live", e, h, FALSE, tok, NoLink, users[i].pending_email, NoLink)
      /\ \/ tok = NoLink
         \/ /\ tok = links' /\ links' = links + 1
            /\ \E l \in mailed' : l.kind = "verify" /\ l.to = e /\ l.user = i /\ l.token = tok
  <2>1. /\ users[i].state = "none" /\ ~users[i].verified /\ users[i].verify_token = NoLink
        /\ users[i].reset_token = NoLink /\ users[i].pending_token = NoLink
        /\ users[i].verified \in BOOLEAN
    BY <1>1 DEF Signup, RowsTyped, BlankRows, Row
  <2>2. Columns(create(users[i], e, h), "live", e, h, FALSE, NoLink, NoLink, users[i].pending_email, NoLink)
    BY <1>1, <2>1, CreateColumns DEF Columns
  <2>3. CASE Generate /\ Mail("verify", e, i)
             /\ users' = [users EXCEPT ![i] = set_verification_token(create(@, e, h))]
    <3>1. Columns(set_verification_token(create(users[i], e, h)),
                  "live", e, h, FALSE, links', NoLink, users[i].pending_email, NoLink)
      BY <1>2, <2>2, VerificationColumns DEF Columns
    <3>2. users'[i] = set_verification_token(create(users[i], e, h))
      BY <1>1, <2>3
    <3>3. links' = links + 1
      BY <2>3 DEF Generate
    <3>4. \E l \in mailed' : l.kind = "verify" /\ l.to = e /\ l.user = i /\ l.token = links'
      BY <2>3, MailOne DEF LinksInv
    <3>5. tok = links'
      BY <3>1, <3>2 DEF Columns
    <3>. QED  BY <3>1, <3>2, <3>3, <3>4, <3>5
  <2>4. CASE users' = [users EXCEPT ![i] = create(@, e, h)] /\ UNCHANGED <<links, mailed>>
    <3>1. users'[i] = create(users[i], e, h)
      BY <1>1, <2>4
    <3>. QED  BY <2>2, <3>1 DEF Columns
  <2>. QED  BY <2>3, <2>4 DEF Signup
<1>4. users' \in [AccountIds -> Row] /\ \A j \in AccountIds \ {i} : users'[j] = users[j]
  <2>1. \E row : users' = [users EXCEPT ![i] = row]
    BY DEF Signup
  <2>. QED  BY <1>1, <1>3, <2>1 DEF Columns
<1>5. UNCHANGED <<request, events, audit, spent, clicked, crossed, late>> /\ users[i].state = "none"
  BY DEF Signup
<1>. HIDE DEF tok
<1>6. RowsTyped'
  <2>1. AccountsTypeOK'
    BY <1>2, <1>3, <1>4, <1>5 DEF AccountsTypeOK, RowsTyped, Live, Columns
  <2>2. RequestsTyped' /\ BlankRows'
    BY <1>1, <1>2, <1>3, <1>4, <1>5 DEF RequestsTyped, BlankRows, RowsTyped, Columns
  <2>. QED  BY <1>5, <2>1, <2>2 DEF RowsTyped
<1>7. LinksInv'
  <2>1. TokensMailed'
    BY <1>2, <1>3, <1>4, <1>5 DEF TokensMailed, LinksInv, Columns
  <2>2. SpentLinkDead'
    BY <1>2, <1>3, <1>4, <1>5 DEF SpentLinkDead, LinksInv, Columns, Live, RowsTyped, AccountsTypeOK
  <2>. QED  BY <1>2, <2>1, <2>2 DEF LinksInv
<1>8. AddressInv'
  <2>1. AddressesKept'
    BY <1>2, <1>3, <1>4, <1>5 DEF AddressesKept, AddressInv, Columns, Live, RowsTyped, RequestsTyped, AccountsTypeOK
  <2>2. VerifiedAddressProved'
    BY <1>2, <1>3, <1>4, <1>5 DEF VerifiedAddressProved, AddressInv, Columns, Live
  <2>. QED  BY <2>1, <2>2 DEF AddressInv
<1>9. AuditInv'
  BY <1>3, <1>4, <1>5 DEF AuditInv, DeletionAudited, Columns
<1>10. EventsInv'
  BY <1>3, <1>4, <1>5 DEF EventsInv, Columns, Live, HandleTaken, Signup, RowsTyped, AccountsTypeOK
<1>. QED  BY <1>6, <1>7, <1>8, <1>9, <1>10

(* A request that ends without a write; a deletion that ends forgets what  *)
(* it has not seen.                                                        *)
LEMMA EndStep ==
  ASSUME AccountsInv, NEW r \in Requests, Done(r), events' = events \/ Ended(r, events),
         UNCHANGED <<users, links, mailed, audit, spent, clicked, crossed, late>>
  PROVE  AccountsInv'
<1>. USE DEF AccountsInv
<1>1. /\ request' \in RequestType
      /\ \A q \in Requests : request'[q] # Idle => request'[q] = request[q]
  BY DoneOne
<1>2. /\ events' \subseteq [handle : Handles, by : AccountIds, unseen : SUBSET Requests]
      /\ \A e \in events' : \E d \in events : e.by = d.by /\ e.handle = d.handle
  BY DEF RowsTyped, AccountsTypeOK, Ended
<1>3. RowsTyped'
  BY <1>1, <1>2 DEF RowsTyped, AccountsTypeOK, RequestsTyped, BlankRows, Live
<1>4. LinksInv'
  BY <1>1 DEF LinksInv, LinksDistinct, TokensMailed, SpentLinkDead, Live
<1>5. AddressInv'
  BY <1>1 DEF AddressInv, AddressesKept, VerifiedAddressProved, Live
<1>6. AuditInv' /\ EventsInv'
  BY <1>1, <1>2 DEF AuditInv, DeletionAudited, EventsInv, Live
<1>. QED  BY <1>3, <1>4, <1>5, <1>6

(* A request that reads the row of a live account, and what it must have   *)
(* read for the write that follows.                                        *)
LEMMA ReadStep ==
  ASSUME AccountsInv, NEW r \in Requests, NEW i \in AccountIds, NEW at \in Stages,
         NEW v \in Nat \cup Emails, Begin(r, at, i, v), Live(i),
         UNCHANGED <<users, links, mailed, events, audit, spent, crossed, late>>,
         clicked \subseteq clicked', clicked' \subseteq AccountIds \X Emails,
         \/ at = "resend" /\ v = users[i].email
         \/ /\ at \in {"verify", "reset", "change"}
            /\ \E l \in mailed : l.kind = at /\ l.user = i /\ l.token = v
         \/ at = "delete" /\ v = NoLink,
         at = "verify" /\ i \notin crossed => <<i, users[i].email>> \in clicked',
         at = "change" /\ users[i].pending_email # NoEmail =>
           <<i, users[i].pending_email>> \in clicked'
  PROVE  AccountsInv'
<1>. USE DEF AccountsInv
<1>1. /\ request' \in RequestType
      /\ request'[r] # Idle /\ request'[r].at = at /\ request'[r].user = i /\ request'[r].value = v
      /\ \A q \in Requests \ {r} : request'[q] = request[q]
  BY BeginOne
<1>2. RowsTyped'
  <2>1. AccountsTypeOK' /\ BlankRows'
    BY DEF RowsTyped, AccountsTypeOK, BlankRows, Live
  <2>2. users[i].state # "none" /\ users[i].email \in Emails
    BY DEF Live, RowsTyped, AccountsTypeOK, Row
  <2>3. at \in {"verify", "reset", "change"} => v \in 1..links
    BY DEF RowsTyped, AccountsTypeOK
  <2>4. RequestsTyped'
    BY <1>1, <2>2, <2>3 DEF RowsTyped, RequestsTyped
  <2>. QED  BY <1>1, <2>1, <2>4 DEF RowsTyped
<1>3. LinksInv'
  BY <1>1 DEF LinksInv, LinksDistinct, TokensMailed, SpentLinkDead, Live
<1>4. AddressInv'
  BY <1>1 DEF AddressInv, AddressesKept, VerifiedAddressProved, Live
<1>5. AuditInv' /\ EventsInv'
  BY <1>1 DEF AuditInv, DeletionAudited, EventsInv, Live, Deletion
<1>. QED  BY <1>2, <1>3, <1>4, <1>5

(* A link is followed from the address it was mailed to.                   *)
LEMMA FollowStep ==
  ASSUME AccountsInv, NEW r \in Requests, NEW kind \in {"verify", "reset", "change"},
         NEW link \in mailed, Follow(r, kind, link),
         IF kind = "reset" THEN UNCHANGED clicked ELSE Click(link)
  PROVE  AccountsInv'
<1>. USE DEF AccountsInv
<1>1. link.user \in AccountIds /\ link.to \in Emails /\ link.token \in 1..links /\ link.token \in Nat
  BY DEF RowsTyped, AccountsTypeOK
<1>2. /\ link.kind = kind /\ Live(link.user) /\ Begin(r, kind, link.user, link.token)
      /\ UNCHANGED <<users, links, mailed, events, audit, spent, crossed, late>>
  BY DEF Follow
<1>3. clicked \subseteq clicked' /\ clicked' \subseteq AccountIds \X Emails
  BY <1>1 DEF Click, RowsTyped, AccountsTypeOK
<1>4. kind # "reset" => <<link.user, link.to>> \in clicked'
  BY DEF Click
<1>5. kind = "verify" /\ link.user \notin crossed => <<link.user, users[link.user].email>> \in clicked'
  <2>1. SUFFICES ASSUME kind = "verify", link.user \notin crossed
                 PROVE  <<link.user, users[link.user].email>> \in clicked'
    OBVIOUS
  <2>2. users[link.user].verify_token = link.token
    BY <2>1 DEF Follow, Stored
  <2>3. users[link.user].verified \/ link.to = users[link.user].email
    BY <1>2, <2>1, <2>2 DEF AddressInv, AddressesKept
  <2>4. users[link.user].verified => <<link.user, users[link.user].email>> \in clicked
    BY <1>1, <1>2, <2>1 DEF AddressInv, VerifiedAddressProved
  <2>. QED  BY <1>3, <1>4, <2>1, <2>3, <2>4
<1>6. kind = "change" => <<link.user, users[link.user].pending_email>> \in clicked'
  <2>1. SUFFICES ASSUME kind = "change"
                 PROVE  <<link.user, users[link.user].pending_email>> \in clicked'
    OBVIOUS
  <2>2. users[link.user].pending_token = link.token
    BY <2>1 DEF Follow, Stored
  <2>3. link.to = users[link.user].pending_email
    BY <1>2, <2>1, <2>2 DEF AddressInv, AddressesKept
  <2>. QED  BY <1>4, <2>1, <2>3
<1>7. kind \in Stages /\ \E l \in mailed : l.kind = kind /\ l.user = link.user /\ l.token = link.token
  BY <1>2 DEF Stages
<1>8. \/ kind = "resend" /\ link.token = users[link.user].email
      \/ /\ kind \in {"verify", "reset", "change"}
         /\ \E l \in mailed : l.kind = kind /\ l.user = link.user /\ l.token = link.token
      \/ kind = "delete" /\ link.token = NoLink
  BY <1>7
<1>. QED  BY ONLY AccountsInv, <1>1, <1>2, <1>3, <1>5, <1>6, <1>7, <1>8, ReadStep

(* Requests that are left are the ones there were.                         *)
RequestsLeft ==
  /\ request' \in RequestType
  /\ \A q \in Requests : request'[q] # Idle => request'[q] = request[q]

(* Row i of a live account is replaced by one that keeps its handle.       *)
RowWritten(i, row) ==
  /\ row \in Row /\ row.state = "live" /\ row.handle = users[i].handle /\ row.email # NoEmail
  /\ row.pending_email = NoEmail => row.pending_token = NoLink
  /\ users' = [users EXCEPT ![i] = row]

LEMMA WriteStep ==
  ASSUME AccountsInv, NEW i \in AccountIds, NEW row, Live(i), RowWritten(i, row), RequestsLeft,
         links' \in 0..MaxLinks, links <= links', links \in Nat,
         mailed' \subseteq
           [kind : {"verify", "reset", "change"}, to : Emails, user : AccountIds, token : 1..links'],
         spent' \subseteq 1..links', UNCHANGED <<events, audit, clicked, late>>
  PROVE  /\ RowsTyped' /\ AuditInv' /\ EventsInv'
         /\ users'[i] = row /\ \A j \in AccountIds \ {i} : users'[j] = users[j]
         /\ \A j \in AccountIds : Live(j)' <=> Live(j)
<1>. USE DEF AccountsInv, RowWritten, RequestsLeft
<1>1. /\ users' \in [AccountIds -> Row] /\ users'[i] = row
      /\ \A j \in AccountIds \ {i} : users'[j] = users[j]
      /\ \A j \in AccountIds : users'[j].state = users[j].state /\ users'[j].handle = users[j].handle
  BY DEF RowsTyped, AccountsTypeOK, Live
<1>2. RowsTyped'
  <2>1. AccountsTypeOK'
    BY <1>1, MaxLinksAssumption DEF RowsTyped, AccountsTypeOK, Live
  <2>2. RequestsTyped'
    BY <1>1 DEF RowsTyped, RequestsTyped
  <2>3. BlankRows'
    BY <1>1 DEF RowsTyped, BlankRows
  <2>. QED  BY <2>1, <2>2, <2>3 DEF RowsTyped
<1>3. AuditInv'
  BY <1>1 DEF AuditInv, DeletionAudited
<1>4. EventsInv'
  BY <1>1 DEF EventsInv, Live, RowsTyped, AccountsTypeOK
<1>. QED  BY <1>1, <1>2, <1>3, <1>4 DEF Live

(* An account that is gone is not written to; its requests still end, and  *)
(* may have spent their token or mailed a link.                            *)
LEMMA GoneStep ==
  ASSUME AccountsInv, UNCHANGED users, RequestsLeft,
         links' \in 0..MaxLinks, links <= links', links \in Nat,
         mailed \subseteq mailed',
         mailed' \subseteq
           [kind : {"verify", "reset", "change"}, to : Emails, user : AccountIds, token : 1..links'],
         \A l \in mailed' : l \in mailed \/ (l.kind = "verify" /\ ~Live(l.user)),
         LinksDistinct', SpentLinkDead', crossed \subseteq crossed',
         spent' \subseteq 1..links', UNCHANGED <<events, audit, clicked, late>>
  PROVE  AccountsInv'
<1>. USE DEF AccountsInv, RequestsLeft
<1>1. RowsTyped'
  BY MaxLinksAssumption DEF RowsTyped, AccountsTypeOK, RequestsTyped, BlankRows, Live
<1>2. AuditInv' /\ EventsInv'
  BY DEF AuditInv, DeletionAudited, EventsInv, Live
<1>3. TokensMailed'
  BY DEF LinksInv, TokensMailed
<1>4. AddressesKept'
  BY DEF AddressInv, AddressesKept, Live
<1>5. VerifiedAddressProved'
  BY DEF AddressInv, VerifiedAddressProved, Live
<1>. QED  BY <1>1, <1>2, <1>3, <1>4, <1>5 DEF LinksInv, AddressInv

(* A token is dead once it is spent and its one row has another.           *)
LEMMA SpentDead ==
  ASSUME NEW i \in AccountIds, NEW t \in Nat \ {0}, NEW kind \in {"verify", "reset", "change"},
         LinksDistinct', TokensMailed', RowsTyped',
         \E l \in mailed' : l.kind = kind /\ l.user = i /\ l.token = t,
         spent' = spent \cup {t},
         Live(i)' => (Stored(i)[kind])' # t,
         \A j \in AccountIds : Live(j)' =>
           {users'[j].verify_token, users'[j].reset_token, users'[j].pending_token} \cap spent = {}
  PROVE  SpentLinkDead'
<1>. SUFFICES ASSUME NEW j \in AccountIds, Live(j)'
              PROVE  /\ users'[j].verify_token # t /\ users'[j].reset_token # t
                     /\ users'[j].pending_token # t
  BY DEF SpentLinkDead
<1>1. users'[j].verify_token # t
  BY DEF TokensMailed, LinksDistinct, NoLink, Stored
<1>2. users'[j].reset_token # t
  BY DEF TokensMailed, LinksDistinct, NoLink, Stored
<1>3. users'[j].pending_token # t
  BY DEF TokensMailed, LinksDistinct, NoLink, Stored
<1>. QED  BY <1>1, <1>2, <1>3

(* A request that writes to row i crosses any other about it.              *)
LEMMA WroteCrosses ==
  ASSUME AccountsInv, NEW r \in Requests, NEW i \in AccountIds, Done(r), Wrote(i, r)
  PROVE  /\ RequestsLeft /\ crossed \subseteq crossed' /\ crossed' \subseteq crossed \cup {i}
         /\ \A q \in Requests : request'[q] # Idle /\ request'[q].user = i => i \in crossed'
<1>1. /\ RequestsLeft /\ request'[r] = Idle /\ \A q \in Requests \ {r} : request'[q] = request[q]
  BY DoneOne DEF AccountsInv, RequestsLeft
<1>. QED  BY <1>1 DEF Wrote, Crosses

(* The write of a request that was given a token: the token is spent, and  *)
(* the account's row, if it is still there, has it no more.                *)
LEMMA SpendStep ==
  ASSUME AccountsInv, NEW r \in Requests, NEW i, NEW t, NEW row,
         NEW kind \in {"verify", "reset", "change"},
         request[r] # Idle, request[r].at = kind, request[r].user = i, request[r].value = t,
         Done(r), Wrote(i, r), spent' = spent \cup {t},
         users' = IF Live(i) THEN [users EXCEPT ![i] = row] ELSE users,
         UNCHANGED <<links, mailed, events, audit, clicked, late>>,
         Live(i) =>
           /\ row \in Row /\ row.state = "live" /\ row.handle = users[i].handle /\ row.email # NoEmail
           /\ row.verify_token = IF kind = "verify" THEN NoLink ELSE users[i].verify_token
           /\ row.reset_token = IF kind = "reset" THEN NoLink ELSE users[i].reset_token
           /\ \/ kind = "change" /\ row.pending_token = NoLink /\ row.pending_email = NoEmail
              \/ /\ kind # "change" /\ row.pending_token = users[i].pending_token
                 /\ row.pending_email = users[i].pending_email
           /\ \/ row.verified
              \/ row.verified = users[i].verified /\ row.email = users[i].email
           /\ row.verified /\ i \notin crossed' => <<i, row.email>> \in clicked
  PROVE  AccountsInv'
<1>. USE DEF NoLink
<1>1. /\ i \in AccountIds /\ t \in 1..links /\ links \in 0..MaxLinks /\ links \in Nat
      /\ \E l \in mailed : l.kind = kind /\ l.user = i /\ l.token = t
  BY MaxLinksAssumption DEF AccountsInv, RowsTyped, RequestsTyped, AccountsTypeOK, LinksInv, TokensMailed
<1>2. spent' \subseteq 1..links'
  BY <1>1 DEF AccountsInv, RowsTyped, AccountsTypeOK
<1>3. /\ RequestsLeft /\ crossed \subseteq crossed'
      /\ \A q \in Requests : request'[q] # Idle /\ request'[q].user = i => i \in crossed'
  BY <1>1, WroteCrosses
<1>4. mailed' \subseteq
        [kind : {"verify", "reset", "change"}, to : Emails, user : AccountIds, token : 1..links']
  BY DEF AccountsInv, RowsTyped, AccountsTypeOK
<1>5. CASE Live(i)
  <2>1. RowWritten(i, row)
    BY <1>1, <1>5 DEF RowWritten, AccountsInv, RowsTyped, BlankRows
  <2>2. /\ RowsTyped' /\ AuditInv' /\ EventsInv'
        /\ users'[i] = row /\ \A j \in AccountIds \ {i} : users'[j] = users[j]
        /\ \A j \in AccountIds : Live(j)' <=> Live(j)
    BY <1>1, <1>2, <1>3, <1>4, <1>5, <2>1, WriteStep
  <2>3. LinksDistinct' /\ TokensMailed'
    BY <1>1, <1>3, <1>5, <2>2 DEF AccountsInv, LinksInv, LinksDistinct, TokensMailed, RequestsLeft
  <2>4. SpentLinkDead'
    <3>1. (Stored(i)[kind])' = NoLink
      BY <1>5, <2>2 DEF Stored
    <3>2. \A j \in AccountIds : Live(j)' =>
            {users'[j].verify_token, users'[j].reset_token, users'[j].pending_token} \cap spent = {}
      BY <1>1, <1>5, <2>2 DEF AccountsInv, LinksInv, SpentLinkDead, RowsTyped, AccountsTypeOK
    <3>. QED  BY <1>1, <2>2, <2>3, <3>1, <3>2, SpentDead
  <2>5. AddressesKept'
    BY <1>1, <1>3, <1>5, <2>2
       DEF AccountsInv, AddressInv, AddressesKept, RequestsLeft, RowsTyped, AccountsTypeOK, RequestsTyped
  <2>6. VerifiedAddressProved'
    BY <1>1, <1>3, <1>5, <2>2 DEF AccountsInv, AddressInv, VerifiedAddressProved
  <2>. QED  BY <2>2, <2>3, <2>4, <2>5, <2>6 DEF AccountsInv, LinksInv, AddressInv
<1>6. CASE ~Live(i)
  <2>1. UNCHANGED users /\ mailed \subseteq mailed' /\ LinksDistinct' /\ TokensMailed' /\ RowsTyped'
    BY <1>1, <1>2, <1>3, <1>6, MaxLinksAssumption
       DEF AccountsInv, LinksInv, LinksDistinct, TokensMailed, RequestsLeft,
           RowsTyped, AccountsTypeOK, RequestsTyped, BlankRows, Live
  <2>2. SpentLinkDead'
    BY <1>1, <1>6, <2>1, SpentDead DEF AccountsInv, LinksInv, SpentLinkDead, Live
  <2>. QED  BY <1>1, <1>2, <1>3, <1>4, <2>1, <2>2, GoneStep
<1>. QED  BY <1>5, <1>6

LEMMA VerifyWriteStep ==
  ASSUME AccountsInv, NEW r \in Requests, VerifyWrite(r)
  PROVE  AccountsInv'
<1>1. PICK i, t, row : /\ i = request[r].user /\ t = request[r].value
                       /\ row = mark_email_verified(users[i])
  OBVIOUS
<1>2. request[r] # Idle /\ request[r].at = "verify" /\ i \in AccountIds /\ users[i] \in Row
  BY <1>1 DEF VerifyWrite, At, AccountsInv, RowsTyped, RequestsTyped, AccountsTypeOK
<1>3. Columns(row, users[i].state, users[i].email, users[i].handle, TRUE, NoLink,
              users[i].reset_token, users[i].pending_email, users[i].pending_token)
  BY <1>1, <1>2, VerifiedColumns
<1>4. Live(i) => users[i].state = "live" /\ users[i].email # NoEmail
  BY <1>2 DEF Live, AccountsInv, RowsTyped, AccountsTypeOK
<1>5. /\ Done(r) /\ Wrote(i, r) /\ spent' = spent \cup {t}
      /\ users' = IF Live(i) THEN [users EXCEPT ![i] = row] ELSE users
      /\ UNCHANGED <<links, mailed, events, audit, clicked, late>>
  BY <1>1 DEF VerifyWrite, Update
<1>6. Live(i) /\ i \notin crossed' => <<i, users[i].email>> \in clicked
  BY <1>1, <1>2, <1>5, WroteCrosses DEF AccountsInv, AddressInv, AddressesKept
<1>. QED  BY <1>1, <1>2, <1>3, <1>4, <1>5, <1>6, SpendStep DEF Columns

LEMMA ResetWriteStep ==
  ASSUME AccountsInv, NEW r \in Requests, ResetWrite(r)
  PROVE  AccountsInv'
<1>1. PICK i, t, row : /\ i = request[r].user /\ t = request[r].value
                       /\ row = complete_password_reset(users[i])
  OBVIOUS
<1>2. request[r] # Idle /\ request[r].at = "reset" /\ i \in AccountIds /\ users[i] \in Row
  BY <1>1 DEF ResetWrite, At, AccountsInv, RowsTyped, RequestsTyped, AccountsTypeOK
<1>3. Columns(row, users[i].state, users[i].email, users[i].handle, users[i].verified,
              users[i].verify_token, NoLink, users[i].pending_email, users[i].pending_token)
  BY <1>1, <1>2, PasswordColumns
<1>4. Live(i) => users[i].state = "live" /\ users[i].email # NoEmail
  BY <1>2 DEF Live, AccountsInv, RowsTyped, AccountsTypeOK
<1>5. /\ Done(r) /\ Wrote(i, r) /\ spent' = spent \cup {t}
      /\ users' = IF Live(i) THEN [users EXCEPT ![i] = row] ELSE users
      /\ UNCHANGED <<links, mailed, events, audit, clicked, late>>
  BY <1>1 DEF ResetWrite, Update
<1>6. Live(i) /\ users[i].verified /\ i \notin crossed' => <<i, users[i].email>> \in clicked
  BY <1>1, <1>2, <1>5, WroteCrosses DEF AccountsInv, AddressInv, VerifiedAddressProved
<1>. QED  BY <1>1, <1>2, <1>3, <1>4, <1>5, <1>6, SpendStep DEF Columns

(* email_change_verify commits what is pending.  An address that is taken  *)
(* leaves everything as it is, the token included; with none pending the   *)
(* token is in no row.                                                     *)
LEMMA EmailWriteStep ==
  ASSUME AccountsInv, NEW r \in Requests, EmailWrite(r)
  PROVE  AccountsInv'
<1>1. PICK i, t, row : /\ i = request[r].user /\ t = request[r].value
                       /\ row = commit_pending_email(users[i])
  OBVIOUS
<1>. DEFINE staged == Live(i) /\ users[i].pending_email # NoEmail
            taken == staged /\ EmailTaken(users[i].pending_email, i)
<1>2. request[r] # Idle /\ request[r].at = "change" /\ i \in AccountIds /\ users[i] \in Row
  BY <1>1 DEF EmailWrite, At, AccountsInv, RowsTyped, RequestsTyped, AccountsTypeOK
<1>3. Columns(row, users[i].state, users[i].pending_email, users[i].handle, TRUE,
              users[i].verify_token, users[i].reset_token, NoEmail, NoLink)
  BY <1>1, <1>2, CommitColumns
<1>4. /\ Done(r) /\ UNCHANGED <<links, mailed, events, audit, clicked, late>>
      /\ spent' = IF taken THEN spent ELSE spent \cup {t}
      /\ IF staged /\ ~taken THEN Update(i, r, row) ELSE UNCHANGED <<users, crossed>>
  BY <1>1 DEF EmailWrite
<1>5. CASE staged /\ ~taken
  <2>1. /\ Wrote(i, r) /\ spent' = spent \cup {t}
        /\ users' = IF Live(i) THEN [users EXCEPT ![i] = row] ELSE users
    BY <1>4, <1>5 DEF Update
  <2>2. i \notin crossed' => <<i, users[i].pending_email>> \in clicked
    BY <1>1, <1>2, <1>4, <1>5, <2>1, WroteCrosses DEF AccountsInv, AddressInv, AddressesKept
  <2>3. users[i].state = "live"
    BY <1>5 DEF Live
  <2>. QED  BY <1>1, <1>2, <1>3, <1>4, <1>5, <2>1, <2>2, <2>3, SpendStep DEF Columns
<1>6. CASE taken
  BY <1>4, <1>6, EndStep
<1>7. CASE ~staged
  <2>1. /\ t \in 1..links /\ links \in 0..MaxLinks /\ links \in Nat
        /\ \E l \in mailed : l.kind = "change" /\ l.user = i /\ l.token = t
    BY <1>1, <1>2, MaxLinksAssumption
       DEF AccountsInv, RowsTyped, RequestsTyped, AccountsTypeOK, LinksInv, TokensMailed
  <2>2. RequestsLeft
    BY <1>4, DoneOne DEF AccountsInv, RequestsLeft
  <2>3. /\ UNCHANGED <<users, crossed, links, mailed>> /\ spent' = spent \cup {t}
        /\ spent' \subseteq 1..links'
    BY <1>4, <1>7, <2>1 DEF AccountsInv, RowsTyped, AccountsTypeOK
  <2>4. LinksDistinct' /\ TokensMailed' /\ RowsTyped'
    BY <1>4, <2>1, <2>2, <2>3, MaxLinksAssumption
       DEF AccountsInv, LinksInv, LinksDistinct, TokensMailed, RequestsLeft,
           RowsTyped, AccountsTypeOK, RequestsTyped, BlankRows, Live
  <2>5. Live(i) => users[i].pending_token = NoLink
    BY <1>2, <1>7 DEF AccountsInv, RowsTyped, BlankRows
  <2>6. Live(i)' => (Stored(i)["change"])' # t
    BY <2>1, <2>3, <2>5 DEF Stored, Live, NoLink
  <2>7. SpentLinkDead'
    <3>1. \A j \in AccountIds : Live(j)' =>
            {users'[j].verify_token, users'[j].reset_token, users'[j].pending_token} \cap spent = {}
      BY <2>3 DEF AccountsInv, LinksInv, SpentLinkDead, Live
    <3>2. t \in Nat \ {0} /\ \E l \in mailed' : l.kind = "change" /\ l.user = i /\ l.token = t
      BY <2>1, <2>3
    <3>. QED  BY <1>2, <2>3, <2>4, <2>6, <3>1, <3>2, SpentDead
  <2>8. mailed' \subseteq
          [kind : {"verify", "reset", "change"}, to : Emails, user : AccountIds, token : 1..links']
    BY <2>3 DEF AccountsInv, RowsTyped, AccountsTypeOK
  <2>. QED  BY <1>4, <2>1, <2>2, <2>3, <2>4, <2>7, <2>8, GoneStep
<1>. QED  BY <1>5, <1>6, <1>7

(* A fresh token replaces the account's last one of its kind.              *)
LEMMA MailStep ==
  ASSUME AccountsInv, NEW i \in AccountIds, NEW kind \in {"verify", "reset", "change"},
         NEW to \in Emails, NEW row, Live(i), Generate, Mail(kind, to, i), RowWritten(i, row),
         RequestsLeft, crossed \subseteq crossed',
         \A q \in Requests : request'[q] # Idle /\ request'[q].user = i => i \in crossed',
         UNCHANGED <<events, audit, spent, clicked, late>>,
         row.email = users[i].email, row.verified = users[i].verified,
         row.verify_token = IF kind = "verify" THEN links' ELSE users[i].verify_token,
         row.reset_token = IF kind = "reset" THEN links' ELSE users[i].reset_token,
         row.pending_token = IF kind = "change" THEN links' ELSE users[i].pending_token,
         row.pending_email = IF kind = "change" THEN to ELSE users[i].pending_email,
         kind = "verify" /\ i \notin crossed' => users[i].verified \/ to = users[i].email
  PROVE  AccountsInv'
<1>. USE DEF NoLink
<1>1. /\ links \in Nat /\ links' = links + 1 /\ links' \in 0..MaxLinks
      /\ mailed' \subseteq
           [kind : {"verify", "reset", "change"}, to : Emails, user : AccountIds, token : 1..links']
      /\ \A l \in mailed : l.token < links' /\ l \in mailed'
      /\ \A l \in mailed' :
           l \in mailed \/ (l.kind = kind /\ l.to = to /\ l.user = i /\ l.token = links')
      /\ \E l \in mailed' : l.kind = kind /\ l.to = to /\ l.user = i /\ l.token = links'
      /\ LinksDistinct'
  BY MailOne DEF AccountsInv, LinksInv
<1>2. spent' \subseteq 1..links' /\ links' \notin spent
  BY <1>1 DEF AccountsInv, RowsTyped, AccountsTypeOK
<1>3. /\ RowsTyped' /\ AuditInv' /\ EventsInv'
      /\ users'[i] = row /\ \A j \in AccountIds \ {i} : users'[j] = users[j]
      /\ \A j \in AccountIds : Live(j)' <=> Live(j)
  BY <1>1, <1>2, WriteStep
<1>4. TokensMailed'
  <2>1. \A j \in AccountIds :
          /\ users'[j].verify_token # NoLink =>
               \E l \in mailed' : l.kind = "verify" /\ l.user = j /\ l.token = users'[j].verify_token
          /\ users'[j].reset_token # NoLink =>
               \E l \in mailed' : l.kind = "reset" /\ l.user = j /\ l.token = users'[j].reset_token
          /\ users'[j].pending_token # NoLink =>
               \E l \in mailed' : l.kind = "change" /\ l.user = j /\ l.token = users'[j].pending_token
    BY <1>1, <1>3 DEF AccountsInv, LinksInv, TokensMailed
  <2>2. \A q \in Requests :
          request'[q] # Idle /\ request'[q].at \in {"verify", "reset", "change"} =>
            \E l \in mailed' : l.kind = request'[q].at /\ l.user = request'[q].user
                               /\ l.token = request'[q].value
    BY <1>1 DEF AccountsInv, LinksInv, TokensMailed, RequestsLeft
  <2>. QED  BY <2>1, <2>2 DEF TokensMailed
<1>5. SpentLinkDead'
  BY <1>1, <1>2, <1>3 DEF AccountsInv, LinksInv, SpentLinkDead
<1>6. AddressesKept'
  <2>1. \A l \in mailed' :
          l.kind = "verify" /\ Live(l.user)' /\ l.user \notin crossed'
            /\ users'[l.user].verify_token = l.token
            => users'[l.user].verified \/ l.to = users'[l.user].email
    BY <1>1, <1>3 DEF AccountsInv, AddressInv, AddressesKept
  <2>2. \A l \in mailed' :
          l.kind = "change" /\ users'[l.user].pending_token = l.token
            => l.to = users'[l.user].pending_email
    BY <1>1, <1>3 DEF AccountsInv, AddressInv, AddressesKept
  <2>3. \A q \in Requests :
          request'[q] # Idle /\ Live(request[q].user) /\ request[q].user \notin crossed' =>
            users'[request[q].user] = users[request[q].user]
    BY <1>3 DEF AccountsInv, RowsTyped, RequestsTyped, RequestsLeft
  <2>4. \A q \in Requests :
          request'[q] # Idle /\ users'[request'[q].user].state = "live" /\ request'[q].user \notin crossed' =>
            /\ request'[q] = request[q] /\ Live(request[q].user) /\ request[q].user \notin crossed
            /\ users'[request[q].user] = users[request[q].user]
    BY <1>3, <2>3 DEF AccountsInv, RowsTyped, RequestsTyped, RequestsLeft, Live
  <2>. QED  BY <2>1, <2>2, <2>4 DEF AccountsInv, AddressInv, AddressesKept, Live
<1>7. VerifiedAddressProved'
  BY <1>3 DEF AccountsInv, AddressInv, VerifiedAddressProved
<1>. QED  BY <1>1, <1>3, <1>4, <1>5, <1>6, <1>7 DEF AccountsInv, LinksInv, AddressInv

LEMMA ResendWriteStep ==
  ASSUME AccountsInv, NEW r \in Requests, ResendWrite(r)
  PROVE  AccountsInv'
<1>1. PICK i, to, row : /\ i = request[r].user /\ to = request[r].value
                        /\ row = set_verification_token(users[i])
  OBVIOUS
<1>2. /\ request[r] # Idle /\ request[r].at = "resend" /\ i \in AccountIds /\ users[i] \in Row
      /\ to \in Emails
  BY <1>1 DEF ResendWrite, At, AccountsInv, RowsTyped, RequestsTyped, AccountsTypeOK, Deletion
<1>3. /\ Generate /\ Mail("verify", to, i) /\ Done(r) /\ Wrote(i, r)
      /\ users' = IF Live(i) THEN [users EXCEPT ![i] = row] ELSE users
      /\ UNCHANGED <<events, audit, spent, clicked, late>>
  BY <1>1 DEF ResendWrite, Update
<1>4. /\ links \in Nat /\ links' = links + 1 /\ links' \in 0..MaxLinks
      /\ mailed' \subseteq
           [kind : {"verify", "reset", "change"}, to : Emails, user : AccountIds, token : 1..links']
      /\ \A l \in mailed : l.token < links' /\ l \in mailed'
      /\ \A l \in mailed' :
           l \in mailed \/ (l.kind = "verify" /\ l.to = to /\ l.user = i /\ l.token = links')
      /\ LinksDistinct'
  BY <1>2, <1>3, MailOne DEF AccountsInv, LinksInv
<1>5. /\ RequestsLeft /\ crossed \subseteq crossed'
      /\ \A q \in Requests : request'[q] # Idle /\ request'[q].user = i => i \in crossed'
  BY <1>2, <1>3, WroteCrosses
<1>6. CASE Live(i)
  <2>1. Columns(row, "live", users[i].email, users[i].handle, users[i].verified, links',
                users[i].reset_token, users[i].pending_email, users[i].pending_token)
    BY <1>1, <1>2, <1>4, <1>6, VerificationColumns DEF Live
  <2>2. RowWritten(i, row)
    BY <1>2, <1>3, <1>6, <2>1 DEF RowWritten, Columns, AccountsInv, RowsTyped, AccountsTypeOK, BlankRows
  <2>3. i \notin crossed' => users[i].verified \/ to = users[i].email
    BY <1>1, <1>2, <1>5, <1>6 DEF AccountsInv, AddressInv, AddressesKept
  <2>. QED  BY <1>2, <1>3, <1>5, <1>6, <2>1, <2>2, <2>3, MailStep DEF Columns
<1>7. CASE ~Live(i)
  <2>1. UNCHANGED users /\ spent' \subseteq 1..links' /\ SpentLinkDead'
    BY <1>3, <1>4, <1>7 DEF AccountsInv, RowsTyped, AccountsTypeOK, LinksInv, SpentLinkDead, Live
  <2>. QED  BY <1>3, <1>4, <1>5, <1>7, <2>1, GoneStep
<1>. QED  BY <1>6, <1>7

LEMMA ResetStartStep ==
  ASSUME AccountsInv, NEW i \in AccountIds, ResetStart(i)
  PROVE  AccountsInv'
<1>1. PICK row : row = set_password_reset_token(users[i])
  OBVIOUS
<1>2. /\ Live(i) /\ users[i] \in Row /\ users[i].email # NoEmail /\ users[i].email \in Emails
      /\ links' \in Nat
  BY MaxLinksAssumption DEF ResetStart, Generate, AccountsInv, RowsTyped, AccountsTypeOK, Row
<1>3. Columns(row, "live", users[i].email, users[i].handle, users[i].verified, users[i].verify_token,
              links', users[i].pending_email, users[i].pending_token)
  BY <1>1, <1>2, ResetColumns DEF Live
<1>4. PICK to \in Emails : to = users[i].email
  BY <1>2
<1>5. /\ Generate /\ Mail("reset", to, i) /\ UNCHANGED <<request, events, audit, spent, clicked, late>>
      /\ users' = [users EXCEPT ![i] = row]
  BY <1>1, <1>4 DEF ResetStart, AccountsInv, RowsTyped, AccountsTypeOK
<1>6. RowWritten(i, row)
  BY <1>2, <1>3, <1>5 DEF RowWritten, Columns, AccountsInv, RowsTyped, BlankRows
<1>7. /\ RequestsLeft /\ crossed \subseteq crossed'
      /\ \A q \in Requests : request'[q] # Idle /\ request'[q].user = i => i \in crossed'
  BY <1>5 DEF RequestsLeft, ResetStart, AccountsInv, RowsTyped
<1>. QED  BY <1>2, <1>3, <1>5, <1>6, <1>7, MailStep DEF Columns

LEMMA EmailStartStep ==
  ASSUME AccountsInv, NEW i \in AccountIds, NEW e \in Emails, EmailStart(i, e)
  PROVE  AccountsInv'
<1>1. PICK row : row = set_pending_email(users[i], e)
  OBVIOUS
<1>2. /\ Live(i) /\ users[i] \in Row /\ users[i].email # NoEmail /\ links' \in Nat
  BY MaxLinksAssumption DEF EmailStart, resolve_user, Generate, AccountsInv, RowsTyped, AccountsTypeOK
<1>3. Columns(row, "live", users[i].email, users[i].handle, users[i].verified, users[i].verify_token,
              users[i].reset_token, e, links')
  BY <1>1, <1>2, PendingColumns DEF Live
<1>4. /\ Generate /\ Mail("change", e, i) /\ UNCHANGED <<request, events, audit, spent, clicked, late>>
      /\ users' = [users EXCEPT ![i] = row]
  BY <1>1 DEF EmailStart, AccountsInv, RowsTyped, AccountsTypeOK
<1>5. RowWritten(i, row)
  BY <1>2, <1>3, <1>4, NoEmailAssumption DEF RowWritten, Columns
<1>6. /\ RequestsLeft /\ crossed \subseteq crossed'
      /\ \A q \in Requests : request'[q] # Idle /\ request'[q].user = i => i \in crossed'
  BY <1>4 DEF RequestsLeft, EmailStart, AccountsInv, RowsTyped
<1>. QED  BY <1>2, <1>3, <1>4, <1>5, <1>6, MailStep DEF Columns

(* A deletion goes on: its audit row is there before anything else.        *)
LEMMA DeletionStep ==
  ASSUME AccountsInv, NEW r \in Requests, NEW at \in Deletion,
         request[r] # Idle, request[r].at \in {"delete"} \cup Deletion,
         request' = [request EXCEPT ![r].at = at],
         audit \subseteq audit', request[r].user \in audit',
         UNCHANGED <<users, links, mailed, events, spent, clicked, crossed, late>>
  PROVE  AccountsInv'
<1>. USE DEF AccountsInv
<1>1. /\ request[r] \in [at : Stages, user : AccountIds, value : Nat \cup Emails]
      /\ request[r].value = NoLink
  BY DEF RowsTyped, RequestsTyped, RequestType, Deletion
<1>2. /\ request' \in RequestType /\ \A q \in Requests \ {r} : request'[q] = request[q]
      /\ request'[r] # Idle /\ request'[r].at = at /\ request'[r].user = request[r].user
      /\ request'[r].value = NoLink
  BY <1>1 DEF RowsTyped, RequestType, Stages, Idle
<1>3. RowsTyped'
  <2>1. AccountsTypeOK' /\ BlankRows'
    BY DEF RowsTyped, AccountsTypeOK, BlankRows, Live
  <2>2. RequestsTyped'
    BY <1>1, <1>2 DEF RowsTyped, RequestsTyped
  <2>. QED  BY <1>2, <2>1, <2>2 DEF RowsTyped
<1>4. at \notin {"resend", "verify", "reset", "change"}
  BY DEF Deletion
<1>5. LinksInv'
  BY <1>2, <1>4 DEF LinksInv, LinksDistinct, TokensMailed, SpentLinkDead, Live
<1>6. AddressInv'
  BY <1>2, <1>4 DEF AddressInv, AddressesKept, VerifiedAddressProved, Live
<1>7. AuditInv' /\ EventsInv'
  BY <1>2 DEF AuditInv, DeletionAudited, EventsInv, Live
<1>. QED  BY <1>3, <1>5, <1>6, <1>7

(* The statements before the commit change nothing others see.             *)
LEMMA DeleteStatementsStep ==
  ASSUME AccountsInv, NEW r \in Requests, DeleteAudit(r) \/ DeleteSelect(r) \/ DeleteScrub(r)
  PROVE  AccountsInv'
<1>1. request[r] # Idle /\ (request[r].at \in Deletion => request[r].user \in audit)
  BY DEF DeleteAudit, DeleteSelect, DeleteScrub, At, AccountsInv, AuditInv
<1>2. request \in RequestType
  BY DEF AccountsInv, RowsTyped
<1>3. CASE DeleteAudit(r)
  BY <1>1, <1>3, DeletionStep DEF DeleteAudit, At, Deletion
<1>4. CASE DeleteSelect(r)
  <2>1. request[r].at = "deleting" /\ UNCHANGED <<users, links, mailed, events, audit, spent, clicked, crossed, late>>
    BY <1>4 DEF DeleteSelect, At
  <2>2. CASE Live(request[r].user)
    <3>1. request' = [request EXCEPT ![r].at = "scrub"]
      BY <1>2, <1>4, <2>2 DEF DeleteSelect, RequestType
    <3>. QED  BY <1>1, <2>1, <3>1, DeletionStep DEF Deletion
  <2>3. CASE ~Live(request[r].user)
    <3>1. Done(r)
      BY <1>2, <1>4, <2>3 DEF DeleteSelect, Done, RequestType
    <3>. QED  BY <2>1, <3>1, EndStep
  <2>. QED  BY <2>2, <2>3
<1>5. CASE DeleteScrub(r)
  BY <1>1, <1>5, DeletionStep DEF DeleteScrub, At, Deletion
<1>. QED  BY <1>3, <1>4, <1>5

(* The row goes with the events the deletion has seen: all but late ones.  *)
LEMMA DeleteCommitStep ==
  ASSUME AccountsInv, UnseenLate, NEW r \in Requests, DeleteCommit(r)
  PROVE  AccountsInv'
<1>1. PICK i : i = request[r].user
  OBVIOUS
<1>2. /\ request[r] # Idle /\ request[r].at = "scrubbed" /\ i \in AccountIds /\ users[i] \in Row
      /\ i \in audit /\ links \in Nat /\ links \in 0..MaxLinks
  BY <1>1, MaxLinksAssumption
     DEF DeleteCommit, At, AccountsInv, RowsTyped, RequestsTyped, AccountsTypeOK, AuditInv, Deletion
<1>3. /\ Done(r) /\ Wrote(i, r) /\ UNCHANGED <<links, mailed, audit, spent, clicked, late>>
      /\ delete_user(i, r)
  BY <1>1 DEF DeleteCommit
<1>4. RequestsLeft /\ crossed \subseteq crossed'
  BY <1>2, <1>3, WroteCrosses
<1>. USE DEF AccountsInv
<1>5. /\ events' \subseteq [handle : Handles, by : AccountIds, unseen : SUBSET Requests]
      /\ \A e \in events' : \E d \in events :
           /\ e.by = d.by /\ e.handle = d.handle
           /\ d.handle = users[i].handle => r \in d.unseen
  BY <1>3 DEF delete_user, Ended, RowsTyped, AccountsTypeOK
<1>6. CASE Live(i)
  <2>1. /\ users' \in [AccountIds -> Row] /\ users'[i].state = "deleted"
        /\ Columns(users'[i], "deleted", users[i].email, users[i].handle, users[i].verified,
                   users[i].verify_token, users[i].reset_token,
                   users[i].pending_email, users[i].pending_token)
        /\ \A j \in AccountIds \ {i} : users'[j] = users[j]
    BY <1>2, <1>3, <1>6 DEF delete_user, RowsTyped, AccountsTypeOK, Columns, Row
  <2>2. RowsTyped'
    <3>1. AccountsTypeOK'
      BY <1>3, <1>5, <2>1 DEF RowsTyped, AccountsTypeOK, Live
    <3>2. RequestsTyped'
      BY <1>3, <1>4, <2>1 DEF RowsTyped, RequestsTyped, RequestsLeft
    <3>3. BlankRows'
      BY <2>1 DEF RowsTyped, BlankRows, Columns
    <3>. QED  BY <1>4, <3>1, <3>2, <3>3 DEF RowsTyped, RequestsLeft
  <2>3. LinksInv'
    BY <1>3, <1>4, <2>1 DEF LinksInv, LinksDistinct, TokensMailed, SpentLinkDead, Live, Columns, RequestsLeft
  <2>4. AddressInv'
    BY <1>3, <1>4, <2>1
       DEF AddressInv, AddressesKept, VerifiedAddressProved, Live, Columns, RequestsLeft,
           RowsTyped, AccountsTypeOK, RequestsTyped
  <2>5. AuditInv'
    BY <1>2, <1>3, <1>4, <2>1 DEF AuditInv, DeletionAudited, RequestsLeft
  <2>6. EventsInv'
    <3>1. \A e \in events' : e.by \in late \/ (Live(e.by) /\ users[e.by].handle = e.handle /\ e.by # i)
      BY <1>1, <1>5 DEF EventsInv, UnseenLate
    <3>2. \A e \in events' : e.by \in AccountIds
      BY <1>5
    <3>. QED  BY <1>3, <2>1, <3>1, <3>2 DEF EventsInv, Live
  <2>. QED  BY <2>2, <2>3, <2>4, <2>5, <2>6
<1>7. CASE ~Live(i)
  <2>1. UNCHANGED users
    BY <1>3, <1>7 DEF delete_user
  <2>2. RowsTyped'
    BY <1>3, <1>4, <1>5, <2>1
       DEF RowsTyped, AccountsTypeOK, RequestsTyped, BlankRows, Live, RequestsLeft
  <2>3. LinksInv'
    BY <1>3, <1>4, <2>1 DEF LinksInv, LinksDistinct, TokensMailed, SpentLinkDead, Live, RequestsLeft
  <2>4. AddressInv'
    BY <1>3, <1>4, <2>1 DEF AddressInv, AddressesKept, VerifiedAddressProved, Live, RequestsLeft
  <2>5. AuditInv' /\ EventsInv'
    BY <1>3, <1>4, <1>5, <2>1 DEF AuditInv, DeletionAudited, EventsInv, Live, RequestsLeft
  <2>. QED  BY <2>2, <2>3, <2>4, <2>5
<1>. QED  BY <1>6, <1>7

LEMMA IngestEventStep ==
  ASSUME AccountsInv, NEW i \in AccountIds, IngestEvent(i)
  PROVE  AccountsInv'
<1>. USE DEF AccountsInv
<1>1. /\ UNCHANGED <<users, links, mailed, request, audit, spent, clicked, crossed>>
      /\ events' = events \cup {[handle |-> users[i].handle, by |-> i, unseen |-> Collecting]}
      /\ late \subseteq late' /\ late' \subseteq late \cup {i} /\ (~Live(i) => i \in late')
  BY DEF IngestEvent
<1>2. RowsTyped'
  <2>1. Collecting \in SUBSET Requests
    BY DEF Collecting
  <2>2. AccountsTypeOK'
    BY <1>1, <2>1 DEF RowsTyped, AccountsTypeOK, Live, Row
  <2>. QED  BY <1>1, <2>2 DEF RowsTyped, RequestsTyped, BlankRows
<1>3. LinksInv' /\ AddressInv' /\ AuditInv'
  BY <1>1 DEF LinksInv, LinksDistinct, TokensMailed, SpentLinkDead, AddressInv, AddressesKept,
         VerifiedAddressProved, AuditInv, DeletionAudited, Live
<1>4. EventsInv'
  BY <1>1 DEF EventsInv, Live, RowsTyped, AccountsTypeOK
<1>. QED  BY <1>2, <1>3, <1>4

(* The requests that do not see an event are known to be past their UPDATE.*)
LEMMA UnseenStep ==
  ASSUME AccountsInv, UnseenLate, [AccountsNext]_accountVars
  PROVE  UnseenLate'
<1>1. request \in RequestType /\ events \subseteq [handle : Handles, by : AccountIds, unseen : SUBSET Requests]
  BY DEF AccountsInv, RowsTyped, AccountsTypeOK
<1>2. ASSUME events' = events, late' = late,
             \A r \in Requests : At(r, "scrubbed") => request'[r] = request[r]
      PROVE  UnseenLate'
  BY <1>2 DEF UnseenLate, At
<1>3. ASSUME NEW r \in Requests, NEW rest \in SUBSET events, Ended(r, rest), Done(r), late' = late
      PROVE  UnseenLate'
  <2>1. \A e \in events' : r \notin e.unseen /\
          \E d \in events : e.by = d.by /\ e.unseen \subseteq d.unseen
    BY <1>1, <1>3 DEF Ended
  <2>2. \A q \in Requests \ {r} : request'[q] = request[q]
    BY <1>1, <1>3 DEF Done, RequestType
  <2>. QED  BY <1>3, <2>1, <2>2 DEF UnseenLate, At
<1>4. ASSUME NEW i \in AccountIds, IngestEvent(i)
      PROVE  UnseenLate'
  <2>1. /\ events' = events \cup {[handle |-> users[i].handle, by |-> i, unseen |-> Collecting]}
        /\ request' = request /\ late \subseteq late'
        /\ \A r \in Collecting : request[r].user = i => i \in late'
    BY <1>4 DEF IngestEvent
  <2>. QED  BY <2>1 DEF UnseenLate, Collecting, At
<1>5. ASSUME NEW r \in Requests, RequestFails(r) \/ DeleteCommit(r)
      PROVE  UnseenLate'
  BY <1>3, <1>5 DEF RequestFails, DeleteCommit, delete_user
<1>6. CASE request' = request /\ events' = events /\ late' = late
  BY <1>2, <1>6
<1>7. ASSUME NEW r \in Requests, ~At(r, "scrubbed"), events' = events, late' = late,
             NEW x, request' = [request EXCEPT ![r] = x]
      PROVE  UnseenLate'
  BY <1>1, <1>2, <1>7 DEF RequestType
<1>8. ASSUME NEW r \in Requests, NEW i \in AccountIds, ResendRead(r, i) \/ DeleteRead(r, i)
      PROVE  UnseenLate'
  BY <1>7, <1>8 DEF ResendRead, DeleteRead, Begin, At
<1>9. ASSUME NEW r \in Requests, NEW link \in mailed,
             VerifyRead(r, link) \/ ResetRead(r, link) \/ EmailRead(r, link)
      PROVE  UnseenLate'
  BY <1>7, <1>9 DEF VerifyRead, ResetRead, EmailRead, Follow, Begin, At
<1>10. ASSUME NEW r \in Requests,
              \/ ResendWrite(r) \/ VerifyWrite(r) \/ ResetWrite(r) \/ EmailWrite(r)
              \/ DeleteFails(r)
       PROVE  UnseenLate'
  BY <1>7, <1>10 DEF ResendWrite, VerifyWrite, ResetWrite, EmailWrite, DeleteFails, Done, At
<1>11. ASSUME NEW r \in Requests, DeleteAudit(r) \/ DeleteSelect(r)
       PROVE  UnseenLate'
  BY <1>7, <1>11 DEF DeleteAudit, DeleteSelect, At
<1>12. ASSUME NEW r \in Requests, DeleteScrub(r)
       PROVE  UnseenLate'
  BY <1>7, <1>12 DEF DeleteScrub, At
<1>13. ASSUME NEW i \in AccountIds,
              \/ \E e \in Emails, h \in Handles : Signup(i, e, h)
              \/ ResetStart(i) \/ \E e \in Emails : EmailStart(i, e)
       PROVE  UnseenLate'
  BY <1>6, <1>13 DEF Signup, ResetStart, EmailStart
<1>14. CASE UNCHANGED accountVars
  BY <1>6, <1>14 DEF accountVars
<1>. QED  BY <1>4, <1>5, <1>8, <1>9, <1>10, <1>11, <1>12, <1>13, <1>14 DEF AccountsNext

LEMMA AccountsStep ==
  ASSUME AccountsInvPlus, [AccountsNext]_accountVars
  PROVE  AccountsInvPlus'
<1>. AccountsInv /\ UnseenLate
  BY DEF AccountsInvPlus
<1>1. ASSUME NEW r \in Requests, NEW i \in AccountIds, ResendRead(r, i) \/ DeleteRead(r, i)
      PROVE  AccountsInv'
  <2>1. users[i].email \in Emails /\ Live(i) /\ clicked \subseteq AccountIds \X Emails
    BY <1>1 DEF ResendRead, DeleteRead, resolve_user, AccountsInv, RowsTyped, AccountsTypeOK, Row
  <2>2. CASE ResendRead(r, i)
    <3>1. PICK e \in Emails : e = users[i].email
      BY <2>1
    <3>2. /\ Begin(r, "resend", i, e)
          /\ UNCHANGED <<users, links, mailed, events, audit, spent, clicked, crossed, late>>
      BY <2>2, <3>1 DEF ResendRead
    <3>. QED  BY <2>1, <3>1, <3>2, ReadStep DEF Stages
  <2>3. CASE DeleteRead(r, i)
    <3>1. /\ Begin(r, "delete", i, NoLink) /\ NoLink \in Nat
          /\ UNCHANGED <<users, links, mailed, events, audit, spent, clicked, crossed, late>>
      BY <2>3 DEF DeleteRead, NoLink
    <3>. QED  BY <2>1, <3>1, ReadStep DEF Stages
  <2>. QED  BY <1>1, <2>2, <2>3
<1>2. ASSUME NEW r \in Requests, NEW link \in mailed,
             VerifyRead(r, link) \/ ResetRead(r, link) \/ EmailRead(r, link)
      PROVE  AccountsInv'
  BY <1>2, FollowStep DEF VerifyRead, ResetRead, EmailRead
<1>3. ASSUME NEW r \in Requests, DeleteFails(r) \/ RequestFails(r)
      PROVE  AccountsInv'
  BY <1>3, EndStep DEF DeleteFails, RequestFails
<1>4. ASSUME UNCHANGED accountVars
      PROVE  AccountsInv'
  BY <1>4 DEF accountVars, AccountsInv, RowsTyped, AccountsTypeOK, RequestsTyped, BlankRows,
       LinksInv, LinksDistinct, TokensMailed, SpentLinkDead,
       AddressInv, AddressesKept, VerifiedAddressProved,
       AuditInv, DeletionAudited, EventsInv, Live
<1>5. AccountsInv'
  BY <1>1, <1>2, <1>3, <1>4, SignupStep, ResetStartStep, EmailStartStep,
     IngestEventStep, ResendWriteStep, VerifyWriteStep, ResetWriteStep, EmailWriteStep,
     DeleteStatementsStep, DeleteCommitStep
     DEF AccountsNext
<1>. QED  BY <1>5, UnseenStep DEF AccountsInvPlus

LEMMA AccountsStart ==
  ASSUME AccountsInit
  PROVE  AccountsInvPlus
<1>. USE DEF AccountsInit, NoLink
<1>1. RowsTyped
  BY MaxLinksAssumption DEF RowsTyped, AccountsTypeOK, RequestsTyped, BlankRows, RequestType, Row, Live
<1>2. LinksInv /\ AddressInv
  BY DEF LinksInv, LinksDistinct, TokensMailed, SpentLinkDead, AddressInv, AddressesKept,
         VerifiedAddressProved, Live
<1>3. AuditInv /\ EventsInv /\ UnseenLate
  BY DEF AuditInv, DeletionAudited, EventsInv, UnseenLate, Live
<1>. QED  BY <1>1, <1>2, <1>3 DEF AccountsInvPlus, AccountsInv

(* A mailed link works once, for the account and the address it was sent   *)
(* to; an account goes only with its audit row, and takes along the events *)
(* that the deletion found, so that the next owner of its handle has only  *)
(* own ones but for those stored too late: for any number of accounts,     *)
(* addresses and requests in progress (auth_routes.rs, users.rs).          *)
THEOREM AccountLinksSafe == AccountPartsSpec => []AccountsSafe
<1>. DEFINE Inv == part = "accounts" => AccountsInvPlus
<1>1. AccountPartsInit => Inv
  BY AccountsStart DEF AccountPartsInit
<1>2. Inv /\ [AccountPartsNext]_AccountPartsVars => Inv'
  <2>. SUFFICES ASSUME Inv, [AccountPartsNext]_AccountPartsVars, part' = "accounts"
                PROVE  AccountsInvPlus'
    OBVIOUS
  <2>1. part = "accounts" /\ [AccountsNext]_accountVars
    BY DEF AccountPartsNext, AccountPartsVars
  <2>. QED  BY <2>1, AccountsStep
<1>3. Inv => AccountsSafe
  <2>1. AccountsInvPlus => OwnEventsOnly
    BY DEF AccountsInvPlus, AccountsInv, RowsTyped, AccountsTypeOK, EventsInv, OwnEventsOnly
  <2>. QED  BY <2>1 DEF AccountsSafe, AccountsInvPlus, AccountsInv, RowsTyped, LinksInv, AddressInv, AuditInv
<1>. QED  BY <1>1, <1>2, <1>3, PTL DEF AccountPartsSpec
-----------------------------------------------------------------------------
(* What a sign-in request carries from one statement to the next.          *)
CallsTyped ==
  /\ DOMAIN call = Calls
  /\ \A c \in Calls :
       /\ call[c].at = "setup_write" => call[c].secret \in 1..secrets
       /\ call[c].at = "magic" => call[c].token \in 1..magics
       /\ call[c].at = "redeem" => call[c].code \in [batch : 1..batches, n : 1..NumCodes]
       /\ call[c].at \in {"replacing", "clearing"} => call[c].upto \in 0..batches

(* While no write has torn another request's sequence apart, the row is    *)
(* as that request has read it.                                            *)
FactorUndisturbed ==
  ~torn => \A c \in Calls :
    /\ call[c].at \in {"setup", "setup_write"} => ~totp.enabled
    /\ call[c].at = "confirm_write" => totp.secret \in proved
    /\ call[c].at \in {"confirm_codes", "regenerate", "replacing"} => totp.enabled
    /\ call[c].at = "clearing" => codes \subseteq call[c].seen
    /\ call[c].at = "disable_row" => codes = {}

(* A DELETE on its way takes every code there was when it began, so what   *)
(* it leaves is of no batch it has superseded.                             *)
CodesCurrent ==
  /\ \A k \in codes : k.batch > superseded
  /\ \A c \in Calls : call[c].at \in {"replacing", "clearing"} =>
       \A k \in codes : k.batch =< call[c].upto => k \in call[c].seen

(* A recovery code in the table has let nobody in; a magic                 *)
(* link has let nobody in, in the table or in the one request that took it *)
(* from there; and what has let somebody in was generated before.          *)
CredentialsUnspent ==
  /\ \A k \in codes : k \notin granted
  /\ \A t \in magic : [magic |-> t] \notin granted
  /\ \A c \in Calls : call[c].at = "magic" =>
       call[c].token \notin magic /\ [magic |-> call[c].token] \notin granted
  /\ \A c, d \in Calls :
       call[c].at = "magic" /\ call[d].at = "magic" /\ call[c].token = call[d].token => c = d
  /\ granted \subseteq [magic : 1..magics] \cup [batch : 1..batches, n : 1..NumCodes]

(* The inductive invariant of SignIn.                                      *)
SignInInv ==
  /\ SignInTypeOK /\ CallsTyped
  /\ SecondFactorWhole /\ FactorUndisturbed
  /\ OneTimeOnce /\ CredentialsUnspent /\ CodesCurrent
-----------------------------------------------------------------------------
LEMMA GoOne ==
  ASSUME CallsTyped, NEW c \in Calls, NEW step, Go(c, step)
  PROVE  /\ DOMAIN call' = Calls /\ call'[c] = step
         /\ \A d \in Calls \ {c} : call'[d] = call[d]
  BY DEF CallsTyped, Go

(* A write that tears nothing apart was the only one on its way.           *)
LEMMA TearsMeans ==
  ASSUME NEW c \in Calls, Tears(c)
  PROVE  /\ torn' \in BOOLEAN
         /\ ~torn' => ~torn /\ \A d \in Calls \ {c} : call[d].at \notin ChangesFactor
  BY Zenon DEF Tears

(* A magic link's credential is no recovery code's.                        *)
LEMMA MagicIsNoCode ==
  ASSUME NEW t, NEW b, NEW k
  PROVE  [magic |-> t] # [batch |-> b, n |-> k]
<1>. SUFFICES ASSUME [magic |-> t] = [batch |-> b, n |-> k] PROVE FALSE
  OBVIOUS
<1>1. DOMAIN [magic |-> t] = {"magic"} /\ DOMAIN [batch |-> b, n |-> k] = {"batch", "n"}
  OBVIOUS
<1>. QED  BY <1>1

(* A request that goes on without a write.                                 *)
LEMMA MoveStep ==
  ASSUME SignInInv, NEW c \in Calls, NEW step, Go(c, step),
         UNCHANGED <<totp, codes, magic, batches, magics, superseded, granted, twice, torn>>,
         secrets' \in 0..MaxSecrets, secrets <= secrets',
         proved \subseteq proved', proved' \subseteq 1..secrets', interim' \in BOOLEAN,
         step.at # "magic",
         step.at = "setup_write" => step.secret \in 1..secrets',
         step.at = "redeem" => step.code \in [batch : 1..batches, n : 1..NumCodes],
         step.at \in {"replacing", "clearing"} => step.seen = codes /\ step.upto = batches,
         ~torn =>
           /\ step.at \in {"setup", "setup_write"} => ~totp.enabled
           /\ step.at = "confirm_write" => totp.secret \in proved'
           /\ step.at \in {"confirm_codes", "regenerate", "replacing"} => totp.enabled
           /\ step.at = "disable_row" => codes = {}
  PROVE  SignInInv'
<1>. USE DEF SignInInv
<1>1. /\ DOMAIN call' = Calls /\ call'[c] = step
      /\ \A d \in Calls \ {c} : call'[d] = call[d]
  BY GoOne
<1>2. SignInTypeOK'
  BY SignInBounds DEF SignInTypeOK
<1>3. CallsTyped'
  BY <1>1, SignInBounds DEF CallsTyped, SignInTypeOK
<1>4. SecondFactorWhole' /\ FactorUndisturbed'
  BY <1>1 DEF SecondFactorWhole, FactorUndisturbed
<1>5. OneTimeOnce' /\ CredentialsUnspent'
  BY <1>1 DEF OneTimeOnce, CredentialsUnspent
<1>6. CodesCurrent'
  BY <1>1 DEF CodesCurrent
<1>. QED  BY <1>2, <1>3, <1>4, <1>5, <1>6

(* A request that writes the second factor or its codes.                   *)
LEMMA FactorStep ==
  ASSUME SignInInv, NEW c \in Calls, NEW step, Go(c, step), Tears(c),
         step.at \in {"free", "confirm_codes", "disable_row"},
         UNCHANGED <<magic, secrets, magics, proved, interim, granted, twice>>,
         totp' \in [secret : 0..secrets, enabled : BOOLEAN],
         superseded' \in 0..batches, NEW kept \in SUBSET codes,
         \A k \in kept : k.batch > superseded',
         \/ codes' = kept /\ batches' = batches
         \/ /\ batches < MaxBatches /\ batches' = batches + 1
            /\ codes' = kept \cup {[batch |-> batches', n |-> k] : k \in 1..NumCodes},
         ~torn => /\ totp'.enabled => totp'.secret \in proved
                  /\ codes' # {} => totp'.enabled
                  /\ step.at = "confirm_codes" => totp'.enabled
                  /\ step.at = "disable_row" => codes' = {}
  PROVE  SignInInv'
<1>. USE DEF SignInInv
<1>1. /\ DOMAIN call' = Calls /\ call'[c] = step
      /\ \A d \in Calls \ {c} : call'[d] = call[d]
  BY GoOne
<1>2. /\ torn' \in BOOLEAN
      /\ ~torn' => ~torn /\ \A d \in Calls \ {c} : call[d].at \notin ChangesFactor
  BY TearsMeans
<1>3. batches \in Nat /\ batches' \in 0..MaxBatches /\ batches <= batches'
  BY SignInBounds DEF SignInTypeOK
<1>4. SignInTypeOK'
  BY <1>2, <1>3, SignInBounds DEF SignInTypeOK
<1>5. CallsTyped'
  BY <1>1, <1>3 DEF CallsTyped
<1>6. SecondFactorWhole'
  BY <1>2 DEF SecondFactorWhole
<1>7. FactorUndisturbed'
  BY <1>1, <1>2 DEF FactorUndisturbed, ChangesFactor
<1>8. \A k \in codes' : (k \in kept \/ (k.batch = batches' /\ batches' = batches + 1)) /\ k \notin granted
  <2>1. CASE codes' = kept /\ batches' = batches
    BY <2>1 DEF CredentialsUnspent
  <2>2. CASE /\ batches < MaxBatches /\ batches' = batches + 1
             /\ codes' = kept \cup {[batch |-> batches', n |-> k] : k \in 1..NumCodes}
    <3>. SUFFICES ASSUME NEW k \in 1..NumCodes
                  PROVE  /\ [batch |-> batches', n |-> k].batch = batches'
                         /\ [batch |-> batches', n |-> k] \notin granted
      BY <2>2 DEF CredentialsUnspent
    <3>1. \A g \in [magic : 1..magics] : g = [magic |-> g.magic]
      OBVIOUS
    <3>2. [batch |-> batches', n |-> k] \notin [magic : 1..magics]
      BY <3>1, MagicIsNoCode
    <3>3. [batch |-> batches', n |-> k] \notin [batch : 1..batches, n : 1..NumCodes]
      BY <1>3, <2>2
    <3>. QED  BY <3>2, <3>3 DEF CredentialsUnspent
  <2>. QED  BY <2>1, <2>2
<1>9. granted' \subseteq [magic : 1..magics'] \cup [batch : 1..batches', n : 1..NumCodes]
  BY <1>3 DEF CredentialsUnspent
<1>10. OneTimeOnce' /\ CredentialsUnspent'
  BY <1>1, <1>8, <1>9 DEF OneTimeOnce, CredentialsUnspent
<1>11. CodesCurrent'
  <2>1. \A k \in codes' : k.batch > superseded'
    BY <1>3, <1>8
  <2>2. \A d \in Calls : call'[d].at \in {"replacing", "clearing"} =>
          d # c /\ call[d].upto \in 0..batches
    BY <1>1 DEF CallsTyped
  <2>. QED  BY <1>1, <1>3, <1>8, <2>1, <2>2 DEF CodesCurrent
<1>. QED  BY <1>4, <1>5, <1>6, <1>7, <1>10, <1>11

(* The steps that read, check or give up.                                  *)
LEMMA ReadsStep ==
  ASSUME SignInInv, NEW c \in Calls,
         \/ SetupFind(c) \/ SetupSecret(c) \/ ConfirmFind(c) \/ ConfirmSecret(c)
         \/ DisableFind(c) \/ RegenerateFind(c) \/ VerifyFind(c) \/ VerifyTotp(c)
         \/ \E k \in codes : RedeemSelect(c, k)
         \/ ConfirmCodes(c) \/ RegenerateCodes(c) \/ DisableCodes(c)
         \/ CallFails(c)
  PROVE  SignInInv'
<1>1. /\ secrets \in 0..MaxSecrets /\ secrets \in Nat /\ proved \subseteq 1..secrets /\ interim \in BOOLEAN
      /\ totp.secret \in 0..secrets /\ codes \subseteq [batch : 1..batches, n : 1..NumCodes]
  BY SignInBounds DEF SignInInv, SignInTypeOK
<1>. DEFINE quiet == UNCHANGED <<totp, codes, magic, batches, magics, superseded, granted, twice, torn>>
<1>2. CASE SetupFind(c)
  <2>1. ~totp.enabled /\ Go(c, [at |-> "setup"]) /\ quiet /\ UNCHANGED <<secrets, proved, interim>>
    BY <1>2 DEF SetupFind, Enter
  <2>. QED  BY <1>1, <2>1, MoveStep
<1>3. CASE ConfirmFind(c) \/ DisableFind(c) \/ VerifyFind(c)
  <2>1. \E at \in {"confirm", "disable", "verify"} :
          Go(c, [at |-> at]) /\ quiet /\ UNCHANGED <<secrets, proved, interim>>
    BY <1>3 DEF ConfirmFind, DisableFind, VerifyFind, Enter
  <2>. QED  BY <1>1, <2>1, MoveStep
<1>4. CASE RegenerateFind(c)
  <2>1. totp.enabled /\ Go(c, [at |-> "regenerate"]) /\ quiet /\ UNCHANGED <<secrets, proved, interim>>
    BY <1>4 DEF RegenerateFind, Enter
  <2>. QED  BY <1>1, <2>1, MoveStep
<1>5. CASE SetupSecret(c)
  <2>1. call[c].at = "setup" /\ quiet /\ UNCHANGED <<proved, interim>>
    BY <1>5 DEF SetupSecret, Reached
  <2>2. CASE Go(c, Free) /\ UNCHANGED secrets
    BY <1>1, <2>1, <2>2, MoveStep DEF Free
  <2>3. CASE /\ secrets < MaxSecrets /\ secrets' = secrets + 1
             /\ Go(c, [at |-> "setup_write", secret |-> secrets'])
    <3>1. PICK s : s = secrets'
      OBVIOUS
    <3>2. ~torn => ~totp.enabled
      BY <2>1 DEF SignInInv, FactorUndisturbed
    <3>3. s \in 1..secrets' /\ secrets' \in 0..MaxSecrets /\ secrets <= secrets' /\ proved' \subseteq 1..secrets'
      BY <1>1, <2>1, <2>3, <3>1, SignInBounds
    <3>4. Go(c, [at |-> "setup_write", secret |-> s])
      BY <2>3, <3>1
    <3>. QED  BY <1>1, <2>1, <3>2, <3>3, <3>4, MoveStep
  <2>. QED  BY <1>5, <2>2, <2>3 DEF SetupSecret
<1>6. CASE ConfirmSecret(c)
  <2>1. quiet /\ UNCHANGED <<secrets, interim>>
    BY <1>6 DEF ConfirmSecret
  <2>2. CASE Go(c, Free) /\ UNCHANGED proved
    BY <1>1, <2>1, <2>2, MoveStep DEF Free
  <2>3. CASE /\ totp.secret # NoSecret /\ Go(c, [at |-> "confirm_write"])
             /\ proved' = proved \cup {totp.secret}
    <3>1. proved \subseteq proved' /\ proved' \subseteq 1..secrets' /\ totp.secret \in proved'
      <4>1. secrets' = secrets /\ totp.secret \in 1..secrets
        BY <1>1, <2>1, <2>3 DEF NoSecret
      <4>. QED  BY <1>1, <2>3, <4>1
    <3>. QED  BY <1>1, <2>1, <2>3, <3>1, MoveStep
  <2>. QED  BY <1>6, <2>2, <2>3 DEF ConfirmSecret, decrypt_user_secret
<1>7. CASE VerifyTotp(c) \/ CallFails(c)
  <2>1. Go(c, Free) /\ quiet /\ UNCHANGED <<secrets, proved, interim>>
    BY <1>7 DEF VerifyTotp, CallFails
  <2>. QED  BY <1>1, <2>1, MoveStep DEF Free
<1>8. ASSUME NEW k \in codes, RedeemSelect(c, k)
      PROVE  SignInInv'
  <2>1. Go(c, [at |-> "redeem", code |-> k]) /\ quiet /\ UNCHANGED <<secrets, proved, interim>>
    BY <1>8 DEF RedeemSelect
  <2>. QED  BY <1>1, <2>1, MoveStep
<1>9. CASE ConfirmCodes(c) \/ RegenerateCodes(c) \/ DisableCodes(c)
  <2>1. PICK at \in {"replacing", "clearing"} :
          /\ Go(c, [at |-> at, seen |-> codes, upto |-> batches])
          /\ quiet /\ UNCHANGED <<secrets, proved, interim>>
          /\ at = "clearing" \/ call[c].at \in {"confirm_codes", "regenerate"}
    BY <1>9 DEF ConfirmCodes, RegenerateCodes, ReplaceCodes, DisableCodes, DeleteCodes, Reached
  <2>2. PICK step : step = [at |-> at, seen |-> codes, upto |-> batches]
    OBVIOUS
  <2>3. ~torn /\ at = "replacing" => totp.enabled
    BY <2>1 DEF SignInInv, FactorUndisturbed
  <2>4. /\ Go(c, step) /\ step.at = at /\ step.seen = codes /\ step.upto = batches
        /\ secrets' \in 0..MaxSecrets /\ secrets <= secrets'
        /\ proved \subseteq proved' /\ proved' \subseteq 1..secrets' /\ interim' \in BOOLEAN
    BY <1>1, <2>1, <2>2
  <2>5. at # "magic" /\ at # "setup_write" /\ at # "redeem" /\ at \notin {"setup", "confirm_write",
           "confirm_codes", "regenerate", "disable_row"}
    OBVIOUS
  <2>. HIDE DEF quiet
  <2>6. UNCHANGED <<totp, codes, magic, batches, magics, superseded, granted, twice, torn>>
    BY <2>1 DEF quiet
  <2>. QED  BY <2>3, <2>4, <2>5, <2>6, MoveStep
<1>. QED  BY <1>2, <1>3, <1>4, <1>5, <1>6, <1>7, <1>8, <1>9

(* The steps that write the row or the codes.                              *)
LEMMA WritesStep ==
  ASSUME SignInInv, NEW c \in Calls,
         \/ SetupWrite(c) \/ ConfirmWrite(c) \/ ReplaceCommit(c)
         \/ DisableCleared(c) \/ DisableRow(c)
  PROVE  SignInInv'
<1>1. /\ totp \in [secret : 0..secrets, enabled : BOOLEAN] /\ secrets \in Nat /\ proved \subseteq 1..secrets
      /\ ~torn => /\ totp.enabled => totp.secret \in proved
                  /\ codes # {} => totp.enabled
      /\ superseded \in 0..batches /\ \A k \in codes : k.batch > superseded
  BY SignInBounds DEF SignInInv, SignInTypeOK, SecondFactorWhole, CodesCurrent
<1>2. CASE SetupWrite(c)
  <2>1. /\ call[c].at = "setup_write" /\ Go(c, Free) /\ Tears(c)
        /\ totp' = [totp EXCEPT !.secret = call[c].secret]
        /\ UNCHANGED <<codes, magic, secrets, batches, magics, proved, superseded, interim, granted, twice>>
    BY <1>2 DEF SetupWrite, Reached, start_totp_setup
  <2>2. call[c].secret \in 0..secrets /\ (~torn => ~totp.enabled)
    BY <1>1, <2>1 DEF SignInInv, CallsTyped, FactorUndisturbed
  <2>3. totp' \in [secret : 0..secrets, enabled : BOOLEAN] /\ totp'.enabled = totp.enabled
    BY <1>1, <2>1, <2>2
  <2>. QED  BY <1>1, <2>1, <2>2, <2>3, FactorStep DEF Free
<1>3. CASE ConfirmWrite(c)
  <2>1. /\ call[c].at = "confirm_write" /\ Go(c, [at |-> "confirm_codes"]) /\ Tears(c)
        /\ totp' = [totp EXCEPT !.enabled = TRUE]
        /\ UNCHANGED <<codes, magic, secrets, batches, magics, proved, superseded, interim, granted, twice>>
    BY <1>3 DEF ConfirmWrite, Reached, mark_totp_enabled
  <2>2. ~torn => totp.secret \in proved
    BY <2>1 DEF SignInInv, FactorUndisturbed
  <2>3. /\ totp' \in [secret : 0..secrets, enabled : BOOLEAN] /\ totp'.enabled
        /\ totp'.secret = totp.secret
    BY <1>1, <2>1
  <2>4. PICK step : step = [at |-> "confirm_codes"]
    OBVIOUS
  <2>5. /\ Go(c, step) /\ step.at = "confirm_codes" /\ codes \in SUBSET codes
        /\ superseded' \in 0..batches /\ \A k \in codes : k.batch > superseded'
    BY <1>1, <2>1, <2>4
  <2>. QED  BY <1>1, <2>1, <2>2, <2>3, <2>5, FactorStep
<1>4. CASE ReplaceCommit(c) \/ DisableCleared(c)
  <2>. DEFINE kept == codes \ call[c].seen
  <2>1. /\ call[c].at \in {"replacing", "clearing"} /\ Tears(c) /\ Superseded(c)
        /\ UNCHANGED <<totp, magic, secrets, magics, proved, interim, granted, twice>>
    BY <1>4 DEF ReplaceCommit, DisableCleared, Reached, regenerate_for_user, clear_for_user
  <2>2. call[c].upto \in 0..batches /\ \A k \in codes : k.batch =< call[c].upto => k \in call[c].seen
    BY <2>1 DEF SignInInv, CallsTyped, CodesCurrent
  <2>3. superseded' \in 0..batches /\ \A k \in kept : k.batch > superseded'
    <3>1. superseded' \in 0..batches
      BY <1>1, <2>1, <2>2 DEF Superseded
    <3>2. \A k \in codes : k.batch \in 1..batches /\ batches \in Nat
      BY SignInBounds DEF SignInInv, SignInTypeOK
    <3>. QED  BY <1>1, <2>1, <2>2, <3>1, <3>2 DEF Superseded
  <2>4. kept \in SUBSET codes
    OBVIOUS
  <2>5. CASE ReplaceCommit(c)
    <3>1. /\ Go(c, Free) /\ batches < MaxBatches /\ batches' = batches + 1
          /\ codes' = kept \cup {[batch |-> batches', n |-> k] : k \in 1..NumCodes}
      BY <2>5 DEF ReplaceCommit, regenerate_for_user
    <3>2. ~torn => totp.enabled
      BY <2>5 DEF ReplaceCommit, Reached, SignInInv, FactorUndisturbed
    <3>. HIDE DEF kept
    <3>. QED  BY <1>1, <2>1, <2>3, <2>4, <3>1, <3>2, FactorStep DEF Free
  <2>6. CASE DisableCleared(c)
    <3>1. Go(c, [at |-> "disable_row"]) /\ batches' = batches /\ codes' = kept
      BY <2>6 DEF DisableCleared, clear_for_user
    <3>2. ~torn => kept = {}
      BY <2>6 DEF DisableCleared, Reached, SignInInv, FactorUndisturbed
    <3>. HIDE DEF kept
    <3>. QED  BY <1>1, <2>1, <2>3, <2>4, <3>1, <3>2, FactorStep
  <2>. QED  BY <1>4, <2>5, <2>6
<1>6. CASE DisableRow(c)
  <2>1. /\ call[c].at = "disable_row" /\ Go(c, Free) /\ Tears(c)
        /\ totp' = [totp EXCEPT !.secret = NoSecret, !.enabled = FALSE]
        /\ UNCHANGED <<codes, magic, secrets, batches, magics, proved, superseded, interim, granted, twice>>
    BY <1>6 DEF DisableRow, Reached, disable_totp
  <2>2. ~torn => codes = {}
    BY <2>1 DEF SignInInv, FactorUndisturbed
  <2>3. totp' \in [secret : 0..secrets, enabled : BOOLEAN] /\ ~totp'.enabled
    <3>1. NoSecret \in 0..secrets
      BY <1>1 DEF NoSecret
    <3>2. totp' = [secret |-> NoSecret, enabled |-> FALSE]
      BY <1>1, <2>1
    <3>. QED  BY <3>1, <3>2
  <2>. QED  BY <1>1, <2>1, <2>2, <2>3, FactorStep DEF Free
<1>. QED  BY <1>2, <1>3, <1>4, <1>6

(* issue_login_interim adds to interim only.                               *)
LEMMA InterimTyped ==
  ASSUME SignInInv, issue_login_interim
  PROVE  interim' \in BOOLEAN
  BY Zenon DEF issue_login_interim

(* A magic link is in the table, or with one request, until it is used.    *)
LEMMA MagicSteps ==
  ASSUME SignInInv,
         \/ MagicStart
         \/ \E c \in Calls : MagicAnswer(c) \/ \E t \in magic : MagicRedeem(c, t)
  PROVE  SignInInv'
<1>. USE DEF SignInInv
<1>1. CASE MagicStart
  <2>1. /\ magics \in Nat /\ magics' = magics + 1 /\ magics' \in 0..MaxMagic
        /\ magic' = magic \cup {magics'} /\ magic \subseteq 1..magics
        /\ UNCHANGED <<totp, codes, secrets, batches, call, proved, superseded, interim, granted, twice, torn>>
    BY <1>1, SignInBounds DEF MagicStart, issue, SignInTypeOK
  <2>2. SignInTypeOK' /\ CallsTyped'
    BY <2>1 DEF SignInTypeOK, CallsTyped
  <2>3. SecondFactorWhole' /\ FactorUndisturbed' /\ OneTimeOnce'
    BY <2>1 DEF SecondFactorWhole, FactorUndisturbed, OneTimeOnce
  <2>4. [magic |-> magics'] \notin granted
    <3>1. \A g \in [batch : 1..batches, n : 1..NumCodes] : g = [batch |-> g.batch, n |-> g.n]
      OBVIOUS
    <3>2. [magic |-> magics'] \notin [batch : 1..batches, n : 1..NumCodes]
      BY <3>1, MagicIsNoCode
    <3>3. [magic |-> magics'] \notin [magic : 1..magics]
      BY <2>1
    <3>. QED  BY <3>2, <3>3 DEF CredentialsUnspent
  <2>5. granted' \subseteq [magic : 1..magics'] \cup [batch : 1..batches', n : 1..NumCodes]
    BY <2>1 DEF CredentialsUnspent
  <2>6. \A c \in Calls : call[c].at = "magic" => call[c].token # magics'
    BY <2>1 DEF CallsTyped
  <2>7. CredentialsUnspent' /\ CodesCurrent'
    BY <2>1, <2>4, <2>5, <2>6 DEF CredentialsUnspent, CodesCurrent
  <2>. QED  BY <2>2, <2>3, <2>7
<1>2. ASSUME NEW c \in Calls, NEW t \in magic, MagicRedeem(c, t)
      PROVE  SignInInv'
  <2>1. /\ Go(c, [at |-> "magic", token |-> t]) /\ magic' = magic \ {t}
        /\ UNCHANGED <<totp, codes, secrets, batches, magics, proved, superseded, interim, granted, twice, torn>>
    BY <1>2 DEF MagicRedeem, redeem_magic
  <2>2. /\ DOMAIN call' = Calls /\ call'[c] = [at |-> "magic", token |-> t]
        /\ \A d \in Calls \ {c} : call'[d] = call[d]
    BY <2>1, GoOne
  <2>3. SignInTypeOK' /\ CallsTyped'
    BY <2>1, <2>2 DEF SignInTypeOK, CallsTyped
  <2>4. SecondFactorWhole' /\ FactorUndisturbed' /\ OneTimeOnce'
    BY <2>1, <2>2 DEF SecondFactorWhole, FactorUndisturbed, OneTimeOnce
  <2>5. CredentialsUnspent'
    <3>1. \A d \in Calls \ {c} : call[d].at = "magic" => call[d].token # t
      BY DEF CredentialsUnspent
    <3>2. \A d \in Calls : call'[d].at = "magic" =>
            call'[d].token \notin magic' /\ [magic |-> call'[d].token] \notin granted
      BY <2>1, <2>2 DEF CredentialsUnspent
    <3>3. \A a, d \in Calls :
            call'[a].at = "magic" /\ call'[d].at = "magic" /\ call'[a].token = call'[d].token => a = d
      BY <2>2, <3>1 DEF CredentialsUnspent
    <3>. QED  BY <2>1, <3>2, <3>3 DEF CredentialsUnspent
  <2>6. CodesCurrent'
    BY <2>1, <2>2 DEF CodesCurrent
  <2>. QED  BY <2>3, <2>4, <2>5, <2>6
<1>3. ASSUME NEW c \in Calls, MagicAnswer(c)
      PROVE  SignInInv'
  <2>1. PICK g, t : g = [magic |-> call[c].token] /\ t = call[c].token
    OBVIOUS
  <2>2. /\ call[c].at = "magic" /\ Go(c, Free) /\ interim' \in BOOLEAN /\ t \in 1..magics
        /\ granted' = granted \cup {g} /\ twice' = twice /\ g \notin granted /\ t \notin magic
        /\ UNCHANGED <<totp, codes, magic, secrets, batches, magics, proved, superseded, torn>>
    BY <1>3, <2>1, InterimTyped DEF MagicAnswer, Reached, Grant, CredentialsUnspent, CallsTyped
  <2>3. /\ DOMAIN call' = Calls /\ call'[c].at = "free"
        /\ \A d \in Calls \ {c} : call'[d] = call[d]
    BY <2>2, GoOne DEF Free
  <2>4. SignInTypeOK' /\ CallsTyped'
    BY <2>2, <2>3 DEF SignInTypeOK, CallsTyped
  <2>5. SecondFactorWhole' /\ FactorUndisturbed' /\ OneTimeOnce'
    BY <2>2, <2>3 DEF SecondFactorWhole, FactorUndisturbed, OneTimeOnce
  <2>6. \A k \in codes : k # g
    BY <2>1, MagicIsNoCode DEF SignInTypeOK
  <2>7. \A s : [magic |-> s] = g => s = t
    BY <2>1
  <2>8. CredentialsUnspent'
    <3>1. \A k \in codes : k \notin granted'
      BY <2>2, <2>6 DEF CredentialsUnspent
    <3>2. \A s \in magic : [magic |-> s] \notin granted'
      BY <2>2, <2>7 DEF CredentialsUnspent
    <3>3. \A d \in Calls : call'[d].at = "magic" =>
            call'[d].token \notin magic /\ [magic |-> call'[d].token] \notin granted'
      BY <2>1, <2>2, <2>3, <2>7 DEF CredentialsUnspent
    <3>4. \A a, d \in Calls :
            call'[a].at = "magic" /\ call'[d].at = "magic" /\ call'[a].token = call'[d].token => a = d
      BY <2>3 DEF CredentialsUnspent
    <3>5. granted' \subseteq [magic : 1..magics] \cup [batch : 1..batches, n : 1..NumCodes]
      BY <2>1, <2>2 DEF CredentialsUnspent
    <3>. QED  BY <2>2, <3>1, <3>2, <3>3, <3>4, <3>5 DEF CredentialsUnspent
  <2>9. CodesCurrent'
    BY <2>2, <2>3 DEF CodesCurrent
  <2>. QED  BY <2>4, <2>5, <2>8, <2>9
<1>. QED  BY <1>1, <1>2, <1>3

(* The guarded UPDATE takes the code from the table or lets nobody in.     *)
LEMMA RedeemUpdateStep ==
  ASSUME SignInInv, NEW c \in Calls, RedeemUpdate(c)
  PROVE  /\ SignInInv'
         /\ granted' = granted \/ (granted' = granted \cup {call[c].code} /\ call[c].code \in codes)
<1>. USE DEF SignInInv
<1>1. PICK k : k = call[c].code
  OBVIOUS
<1>2. /\ Go(c, Free) /\ UNCHANGED <<totp, magic, secrets, batches, magics, proved, superseded, interim, torn>>
      /\ IF k \in codes THEN codes' = codes \ {k} /\ Grant(k) ELSE UNCHANGED <<codes, granted, twice>>
  BY <1>1 DEF RedeemUpdate
<1>3. /\ DOMAIN call' = Calls /\ call'[c].at = "free"
      /\ \A d \in Calls \ {c} : call'[d] = call[d]
  BY <1>2, GoOne DEF Free
<1>4. /\ \/ granted' = granted /\ codes' = codes
         \/ granted' = granted \cup {k} /\ k \in codes /\ codes' = codes \ {k}
      /\ twice' = twice
  BY <1>2 DEF Grant, CredentialsUnspent
<1>5. SignInTypeOK' /\ CallsTyped'
  BY <1>2, <1>3, <1>4 DEF SignInTypeOK, CallsTyped
<1>6. SecondFactorWhole' /\ FactorUndisturbed' /\ OneTimeOnce'
  BY <1>2, <1>3, <1>4 DEF SecondFactorWhole, FactorUndisturbed, OneTimeOnce
<1>7. k \in codes => \A t : [magic |-> t] # k
  BY MagicIsNoCode DEF SignInTypeOK
<1>8. CredentialsUnspent'
  <2>1. \A m \in codes' : m \notin granted'
    BY <1>4 DEF CredentialsUnspent
  <2>2. \A t \in magic : [magic |-> t] \notin granted'
    BY <1>4, <1>7 DEF CredentialsUnspent
  <2>3. \A d \in Calls : call'[d].at = "magic" =>
          call'[d].token \notin magic /\ [magic |-> call'[d].token] \notin granted'
    BY <1>3, <1>4, <1>7 DEF CredentialsUnspent
  <2>4. \A a, d \in Calls :
          call'[a].at = "magic" /\ call'[d].at = "magic" /\ call'[a].token = call'[d].token => a = d
    BY <1>3 DEF CredentialsUnspent
  <2>5. granted' \subseteq [magic : 1..magics] \cup [batch : 1..batches, n : 1..NumCodes]
    BY <1>4 DEF CredentialsUnspent, SignInTypeOK
  <2>. QED  BY <1>2, <2>1, <2>2, <2>3, <2>4, <2>5 DEF CredentialsUnspent
<1>9. CodesCurrent'
  BY <1>2, <1>3, <1>4 DEF CodesCurrent
<1>. QED  BY <1>1, <1>4, <1>5, <1>6, <1>8, <1>9

LEMMA SignInStep ==
  ASSUME SignInInv, [SignInNext]_signInVars
  PROVE  SignInInv'
<1>1. ASSUME NEW c \in Calls, Login(c)
      PROVE  SignInInv'
  <2>1. UNCHANGED <<totp, codes, magic, secrets, batches, magics, call, proved, superseded, granted, twice, torn>>
    BY <1>1 DEF Login
  <2>2. interim' \in BOOLEAN
    BY <1>1, InterimTyped DEF Login
  <2>. QED  BY <2>1, <2>2 DEF SignInInv, SignInTypeOK, CallsTyped, SecondFactorWhole,
                 FactorUndisturbed, OneTimeOnce, CredentialsUnspent, CodesCurrent
<1>2. CASE UNCHANGED signInVars
  BY <1>2 DEF signInVars, SignInInv, SignInTypeOK, CallsTyped, SecondFactorWhole,
       FactorUndisturbed, OneTimeOnce, CredentialsUnspent, CodesCurrent
<1>. QED  BY <1>1, <1>2, ReadsStep, WritesStep, MagicSteps, RedeemUpdateStep DEF SignInNext

LEMMA SignInStart ==
  ASSUME SignInInit
  PROVE  SignInInv
<1>. USE DEF SignInInit, NoSecret
<1>1. SignInTypeOK
  <2>1. {interim, torn} \subseteq BOOLEAN
    BY Zenon
  <2>2. totp \in [secret : 0..secrets, enabled : BOOLEAN]
    OBVIOUS
  <2>. QED  BY <2>1, <2>2, SignInBounds DEF SignInTypeOK
<1>2. CallsTyped /\ FactorUndisturbed
  BY DEF CallsTyped, FactorUndisturbed, Free
<1>3. SecondFactorWhole /\ OneTimeOnce
  BY DEF SecondFactorWhole, OneTimeOnce
<1>4. CredentialsUnspent /\ CodesCurrent
  BY DEF CredentialsUnspent, CodesCurrent, Free
<1>. QED  BY <1>1, <1>2, <1>3, <1>4 DEF SignInInv

LEMMA SignInInvariant == AccountPartsSpec => [](part = "signin" => SignInInv)
<1>. DEFINE Inv == part = "signin" => SignInInv
<1>1. AccountPartsInit => Inv
  BY SignInStart DEF AccountPartsInit
<1>2. Inv /\ [AccountPartsNext]_AccountPartsVars => Inv'
  <2>. SUFFICES ASSUME Inv, [AccountPartsNext]_AccountPartsVars, part' = "signin"
                PROVE  SignInInv'
    OBVIOUS
  <2>1. part = "signin" /\ [SignInNext]_signInVars
    BY DEF AccountPartsNext, AccountPartsVars
  <2>. QED  BY <2>1, SignInStep
<1>. QED  BY <1>1, <1>2, PTL DEF AccountPartsSpec

(* Whichever statement fails, the second factor is on only with a proved   *)
(* secret and has codes only while on, unless its writes overlap; and no   *)
(* code or magic link lets anybody in twice, however many requests overlap *)
(* (totp_routes.rs, recovery_codes.rs, magic_link.rs).                     *)
THEOREM SecondFactorSafe == AccountPartsSpec => []SignInSafe
<1>1. (part = "signin" => SignInInv) => SignInSafe
  BY DEF SignInSafe, SignInInv
<1>. QED  BY <1>1, SignInInvariant, PTL

(* A batch that a regenerate or a disable has found in the table lets      *)
(* nobody in once that is done, not even a redeem that had found its row   *)
(* before (recovery_codes::redeem): for any number of codes, batches and   *)
(* overlapping requests.                                                   *)
THEOREM CurrentCodesOnly == AccountPartsSpec => OnlyCurrentCodes
<1>. DEFINE Current ==
       \A k \in (granted' \ granted) \cap Code : k.batch > superseded
<1>1. ASSUME part = "signin" => SignInInv, [AccountPartsNext]_AccountPartsVars
      PROVE  [Current]_signInVars
  <2>. SUFFICES ASSUME signInVars' # signInVars
                PROVE  Current
    OBVIOUS
  <2>1. SignInInv /\ SignInNext
    BY <1>1 DEF AccountPartsNext, AccountPartsVars
  <2>2. ASSUME NEW c \in Calls, RedeemUpdate(c) PROVE Current
    BY <2>1, <2>2, RedeemUpdateStep DEF SignInInv, CodesCurrent
  <2>3. ASSUME NEW c \in Calls, MagicAnswer(c) PROVE Current
    <3>1. granted' = granted \cup {[magic |-> call[c].token]}
      BY <2>3 DEF MagicAnswer, Grant
    <3>2. \A k \in Code : k # [magic |-> call[c].token]
      BY MagicIsNoCode DEF Code
    <3>. QED  BY <3>1, <3>2
  <2>4. CASE UNCHANGED granted
    BY <2>4
  <2>. QED  BY <2>1, <2>2, <2>3, <2>4 DEF SignInNext, MagicStart, SetupFind, SetupSecret, SetupWrite,
              ConfirmFind, ConfirmSecret, ConfirmWrite, ConfirmCodes, DisableFind, DisableCodes,
              DisableCleared, DisableRow, RegenerateFind, RegenerateCodes, ReplaceCodes, ReplaceCommit, Login, MagicRedeem, VerifyFind, VerifyTotp,
              RedeemSelect, CallFails, Enter
<1>. QED  BY <1>1, SignInInvariant, PTL DEF AccountPartsSpec, OnlyCurrentCodes
-----------------------------------------------------------------------------
(* DevicePairing: a code mints at most one device, together with           *)
(* redeemed_at, and every token has its device row.                        *)

(* A request past the lookup is about a pairing that exists.               *)
RedeemKnowsCode ==
  \A h \in Handlers :
    pc[h] \in {"lock", "open"} => code[h] \in Codes /\ owner[code[h]] # NoUser

(* An open claim is on a code nobody has redeemed, and is the only one.    *)
ClaimsExclusive ==
  /\ \A h \in Handlers : pc[h] = "open" => ~redeemed[code[h]] /\ device[h] \in 1..lastDevice
  /\ \A g, h \in Handlers :
       pc[g] = "open" /\ pc[h] = "open" /\ code[g] = code[h] => g = h

(* A request that signs a token has committed its device row.              *)
SigningHasDevice ==
  \A h \in Handlers : pc[h] = "signing" => \E d \in devices : d.id = device[h]

(* The inductive invariant.                                                *)
PairingInv ==
  /\ TypeOK
  /\ OneDevicePerCode
  /\ RedeemedWithDevice
  /\ TokenHasDevice
  /\ RedeemKnowsCode
  /\ ClaimsExclusive
  /\ SigningHasDevice
-----------------------------------------------------------------------------
(* A request that ends changes nothing but its own locals.                 *)
LEMMA ReturnKeeps ==
  ASSUME PairingInv, NEW h \in Handlers, Return(h),
         UNCHANGED <<pairings, rows, resetting>>,
         tokens' \subseteq 1..lastDevice, TokenHasDevice'
  PROVE  PairingInv'
<1>. USE DEF PairingInv, pairings, rows
<1>1. TypeOK'
  BY DEF TypeOK, Return, Steps
<1>2. OneDevicePerCode' /\ RedeemedWithDevice'
  BY DEF OneDevicePerCode, RedeemedWithDevice
<1>3. RedeemKnowsCode' /\ ClaimsExclusive' /\ SigningHasDevice'
  BY DEF TypeOK, Return, RedeemKnowsCode, ClaimsExclusive, SigningHasDevice
<1>. QED  BY <1>1, <1>2, <1>3

(* Every step preserves the inductive invariant.                           *)
LEMMA PairingStep ==
  ASSUME PairingInv, [Next]_vars
  PROVE  PairingInv'
<1>. USE DEF PairingInv
<1>1. ASSUME NEW u \in Users, NEW c \in Codes, StartPairing(u, c)
      PROVE  PairingInv'
  <2>1. \A d \in devices : d.code # c
    BY <1>1, NoneAssumption DEF StartPairing, TypeOK, RedeemedWithDevice
  <2>2. RedeemedWithDevice' /\ RedeemKnowsCode'
    BY <1>1, <2>1, NoneAssumption
       DEF StartPairing, rows, redeems, TypeOK, RedeemedWithDevice, RedeemKnowsCode
  <2>. QED
    BY <1>1, <2>2 DEF StartPairing, rows, redeems, TypeOK, OneDevicePerCode,
                      TokenHasDevice, ClaimsExclusive, SigningHasDevice
<1>2. ASSUME NEW c \in Codes, Expire(c)
      PROVE  PairingInv'
  BY <1>2 DEF Expire, rows, redeems, TypeOK, OneDevicePerCode, RedeemedWithDevice,
              TokenHasDevice, RedeemKnowsCode, ClaimsExclusive, SigningHasDevice
<1>3. ASSUME NEW h \in Handlers, NEW c \in Codes, Redeem(h, c)
      PROVE  PairingInv'
  BY <1>3 DEF Redeem, pairings, rows, TypeOK, Steps, OneDevicePerCode,
              RedeemedWithDevice, TokenHasDevice, RedeemKnowsCode, ClaimsExclusive,
              SigningHasDevice
<1>4. ASSUME NEW h \in Handlers, Claim(h)
      PROVE  PairingInv'
  <2>1. lastDevice \in Nat /\ lastDevice' = lastDevice + 1 /\ lastDevice' \in 0..MaxDevices
    BY <1>4, MaxDevicesAssumption DEF Claim, TypeOK
  <2>2. 1..lastDevice \subseteq 1..lastDevice' /\ lastDevice' \in 1..lastDevice'
    BY <2>1
  <2>3. TypeOK'
    <3>1. device' \in [Handlers -> 1..lastDevice' \cup {NoDevice}]
      BY <1>4, <2>1, <2>2 DEF Claim, TypeOK
    <3>2. devices \subseteq [id : 1..lastDevice', user : Users, code : Codes]
      BY <2>2 DEF TypeOK
    <3>. QED
      BY <1>4, <2>1, <2>2, <3>1, <3>2 DEF Claim, pairings, TypeOK, Steps
  <2>4. ClaimsExclusive'
    BY <1>4, <2>1, <2>2 DEF Claim, RowLocked, pairings, TypeOK, ClaimsExclusive
  <2>5. RedeemKnowsCode' /\ SigningHasDevice'
    BY <1>4 DEF Claim, pairings, TypeOK, RedeemKnowsCode, SigningHasDevice
  <2>. QED
    BY <1>4, <2>3, <2>4, <2>5 DEF Claim, pairings, OneDevicePerCode, RedeemedWithDevice,
                                  TokenHasDevice
<1>5. ASSUME NEW h \in Handlers, Commit(h)
      PROVE  PairingInv'
  <2>. DEFINE new == [id |-> device[h], user |-> owner[code[h]], code |-> code[h]]
  <2>1. /\ code[h] \in Codes /\ owner[code[h]] \in Users /\ device[h] \in 1..lastDevice
        /\ ~redeemed[code[h]]
    BY <1>5 DEF Commit, TypeOK, RedeemKnowsCode, ClaimsExclusive
  <2>2. new \in [id : 1..lastDevice, user : Users, code : Codes]
    BY <2>1
  <2>3. /\ devices' = devices \cup {new}
        /\ redeemed' = [redeemed EXCEPT ![code[h]] = TRUE]
        /\ pc' = [pc EXCEPT ![h] = "signing"]
        /\ UNCHANGED <<owner, expired, revoked, lastDevice, code, device, tokens, resetting>>
    BY <1>5 DEF Commit
  <2>4. \A d \in devices : d.code # code[h]
    BY <2>1 DEF RedeemedWithDevice
  <2>5. TypeOK'
    BY <2>2, <2>3 DEF TypeOK, Steps
  <2>6. OneDevicePerCode'
    BY <2>3, <2>4 DEF OneDevicePerCode
  <2>. new \in devices' /\ devices \subseteq devices'
    BY <2>3
  <2>7. RedeemedWithDevice'
    <3>1. ASSUME NEW c \in Codes, redeemed'[c]
          PROVE  \E d \in devices' : d.code = c
      <4>1. CASE c = code[h]
        BY <4>1
      <4>2. CASE c # code[h]
        <5>1. redeemed[c]
          BY <2>3, <3>1, <4>2 DEF TypeOK
        <5>. QED  BY <5>1 DEF RedeemedWithDevice
      <4>. QED  BY <4>1, <4>2
    <3>2. ASSUME NEW d \in devices'
          PROVE  redeemed'[d.code] /\ owner'[d.code] = d.user
      <4>1. CASE d = new
        BY <2>1, <2>3, <4>1 DEF TypeOK
      <4>2. CASE d \in devices
        BY <2>3, <4>2 DEF TypeOK, RedeemedWithDevice
      <4>. QED  BY <2>3, <4>1, <4>2
    <3>. QED  BY <3>1, <3>2 DEF RedeemedWithDevice
  <2>8. TokenHasDevice' /\ SigningHasDevice'
    <3>1. TokenHasDevice'
      BY <2>3 DEF TokenHasDevice
    <3>2. ASSUME NEW k \in Handlers, pc'[k] = "signing"
          PROVE  \E d \in devices' : d.id = device'[k]
      <4>1. CASE k = h
        BY <2>3, <4>1
      <4>2. CASE k # h
        <5>1. pc[k] = "signing"
          BY <2>3, <3>2, <4>2 DEF TypeOK
        <5>. QED  BY <2>3, <5>1 DEF SigningHasDevice
      <4>. QED  BY <4>1, <4>2
    <3>. QED  BY <3>1, <3>2 DEF SigningHasDevice
  <2>9. RedeemKnowsCode' /\ ClaimsExclusive'
    BY <1>5, <2>3 DEF Commit, RedeemKnowsCode, ClaimsExclusive, TypeOK
  <2>. QED  BY <2>5, <2>6, <2>7, <2>8, <2>9
<1>6. ASSUME NEW h \in Handlers, Refuse(h) \/ Abort(h) \/ AnswerLost(h)
      PROVE  PairingInv'
  <2>1. Return(h) /\ UNCHANGED <<pairings, rows, tokens, resetting>>
    BY <1>6 DEF Refuse, Abort, AnswerLost
  <2>2. tokens' \subseteq 1..lastDevice /\ TokenHasDevice'
    BY <2>1 DEF TypeOK, TokenHasDevice, rows
  <2>. QED  BY <2>1, <2>2, ReturnKeeps
<1>7. ASSUME NEW h \in Handlers, AnswerToken(h)
      PROVE  PairingInv'
  <2>1. PICK d \in devices : d.id = device[h]
    BY <1>7 DEF AnswerToken, SigningHasDevice
  <2>2. device[h] \in 1..lastDevice
    BY <2>1 DEF TypeOK
  <2>3. tokens' \subseteq 1..lastDevice /\ TokenHasDevice'
    BY <1>7, <2>1, <2>2 DEF AnswerToken, TypeOK, TokenHasDevice, rows
  <2>. QED  BY <1>7, <2>3, ReturnKeeps DEF AnswerToken
<1>8. ASSUME NEW u \in Users, Ids(u) \subseteq 1..lastDevice
      PROVE  /\ \A d \in Devices : Revoke(u, d) => PairingInv'
             /\ ResetPassword(u) \/ ResetRevoke(u) \/ ResetRevokeFails(u) => PairingInv'
  <2>1. ASSUME revoked' \in SUBSET (1..lastDevice), resetting' \in SUBSET Users,
               UNCHANGED <<pairings, devices, lastDevice, redeems, tokens>>
        PROVE  PairingInv'
    BY <2>1 DEF pairings, redeems, TypeOK, OneDevicePerCode, RedeemedWithDevice, TokenHasDevice,
                RedeemKnowsCode, ClaimsExclusive, SigningHasDevice
  <2>2. ASSUME NEW d \in Devices, Revoke(u, d)
        PROVE  PairingInv'
    BY <1>8, <2>1, <2>2 DEF Revoke, TypeOK
  <2>3. CASE ResetPassword(u)
    BY <2>1, <2>3 DEF ResetPassword, rows, TypeOK
  <2>4. CASE ResetRevoke(u)
    BY <1>8, <2>1, <2>4 DEF ResetRevoke, TypeOK
  <2>5. CASE ResetRevokeFails(u)
    BY <1>8, <2>1, <2>5 DEF ResetRevokeFails, rows, TypeOK
  <2>. QED  BY <2>2, <2>3, <2>4, <2>5
<1>9. \A u \in Users : Ids(u) \subseteq 1..lastDevice
  BY DEF Ids, TypeOK
<1>10. CASE UNCHANGED vars
  BY <1>10 DEF vars, pairings, rows, redeems, TypeOK, OneDevicePerCode,
               RedeemedWithDevice, TokenHasDevice, RedeemKnowsCode, ClaimsExclusive,
               SigningHasDevice
<1>. QED
  BY <1>1, <1>2, <1>3, <1>4, <1>5, <1>6, <1>7, <1>8, <1>9, <1>10 DEF Next

(* The inductive invariant holds throughout.                               *)
LEMMA PairingInvariant == Spec => []PairingInv
<1>1. Init => PairingInv
  BY MaxDevicesAssumption
     DEF Init, PairingInv, TypeOK, Steps, OneDevicePerCode, RedeemedWithDevice,
         TokenHasDevice, RedeemKnowsCode, ClaimsExclusive, SigningHasDevice
<1>2. PairingInv /\ [Next]_vars => PairingInv'
  BY PairingStep
<1>. QED  BY <1>1, <1>2, PTL DEF Spec

(* However many requests redeem a code, at most one device is minted.      *)
THEOREM PairingSingleUse == Spec => []OneDevicePerCode
<1>1. PairingInv => OneDevicePerCode
  BY DEF PairingInv
<1>. QED  BY <1>1, PairingInvariant, PTL

(* A code is spent exactly when its device row of the same user exists.    *)
THEOREM RedeemAtomic == Spec => []RedeemedWithDevice
<1>1. PairingInv => RedeemedWithDevice
  BY DEF PairingInv
<1>. QED  BY <1>1, PairingInvariant, PTL

(* No client ever holds a token without a device row to revoke it by.      *)
THEOREM TokensRevocable == Spec => []TokenHasDevice
<1>1. PairingInv => TokenHasDevice
  BY DEF PairingInv
<1>. QED  BY <1>1, PairingInvariant, PTL

(* The three together, with the types they need.                           *)
THEOREM PairingAlwaysSafe == Spec => []PairingSafe
<1>1. PairingInv => PairingSafe
  BY DEF PairingInv, PairingSafe
<1>. QED  BY <1>1, PairingInvariant, PTL
=============================================================================
