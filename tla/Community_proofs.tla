-------------------------- MODULE Community_proofs --------------------------
(***************************************************************************)
(* Proofs about StaffRoles, SmtpConfig, RsiProfile, Organisations and      *)
(* Submissions for any accounts, handles, slugs and numbers of requests in *)
(* progress, and about AuditLog for any set of writers and payloads and    *)
(* any number of appends.                                                  *)
(***************************************************************************)
EXTENDS MCCommunity, Lists_proofs

(* Staff: a request to revoke is not about one's own admin role.           *)
StaffCallType ==
  {NoStaffCall} \cup [at : {"grant", "revoke"}, by : StaffUsers, user : StaffUsers, role : StaffRole]

StaffInv ==
  /\ StaffTypeOK /\ staffUsers \subseteq StaffUsers /\ unattended \in BOOLEAN
  /\ staffCall \in [StaffCalls -> StaffCallType]
  /\ \A c \in StaffCalls :
       staffCall[c].at = "revoke" => ~(staffCall[c].by = staffCall[c].user /\ staffCall[c].role = "admin")
  /\ AdminRemains
-----------------------------------------------------------------------------
(* Mail: unless PUTs have overlapped there is one at a time, and what it   *)
(* is about to swap in is what the row says.                               *)
MailerOK == mailer = Transport(smtp_config) \/ (mailer = Env /\ ~smtp_config.enabled)

SmtpInv ==
  /\ smtpCall = [c \in SmtpCalls |-> smtpCall[c]] /\ mixed \in BOOLEAN
  /\ \A c \in SmtpCalls :
       smtpCall[c] = NoPut \/ smtpCall[c].at = "read" \/ smtpCall[c].at = "swap"
  /\ ~mixed =>
       /\ \A c, d \in SmtpCalls : smtpCall[c] # NoPut /\ smtpCall[d] # NoPut => c = d
       /\ \A c \in SmtpCalls : smtpCall[c].at = "swap" => smtpCall[c].to = Transport(smtp_config)
       /\ (\A c \in SmtpCalls : smtpCall[c] = NoPut) => MailerOK
-----------------------------------------------------------------------------
(* The RSI handle.                                                         *)
RsiTyped ==
  /\ RsiTypeOK
  /\ rsiCall = [c \in RsiCalls |-> rsiCall[c]]
  /\ expiry \in Seq(Int) /\ rsiProven \in BOOLEAN
  /\ rsiRow \in [verified : BOOLEAN, code : Nat, expires : Int]
  /\ rsiRow.code <= Len(expiry)

(* A check in progress is of a code that was good when it was read; a code *)
(* is about to be written by a request that found none that was good, or   *)
(* that looked before the present one was issued.                          *)
RsiCallOK(c) ==
  /\ \/ rsiCall[c] = NoRsiCall
     \/ rsiCall[c].at = "set" /\ rsiCall[c].expires \in Int /\ rsiCall[c].seen \in 0..Len(expiry)
     \/ /\ rsiCall[c].at = "bio" /\ rsiCall[c].read \in Int
        /\ rsiCall[c].code \in 1..Len(expiry) /\ expiry[rsiCall[c].code] > rsiCall[c].read
     \/ rsiCall[c].at = "profile" /\ rsiCall[c].now \in 0..RsiHorizon
     \/ rsiCall[c].at = "mark"
     \/ rsiCall[c].at = "orgs"
  /\ rsiCall[c].at = "mark" => rsiProven
  /\ rsiCall[c].at = "set" =>
       rsiRow.code = NoCode \/ rsiRow.expires <= rsiClock \/ rsiCall[c].seen < rsiRow.code

RsiInv == RsiTyped /\ VerifiedByOwner /\ \A c \in RsiCalls : RsiCallOK(c)
-----------------------------------------------------------------------------
(* Organisations.                                                          *)
CreateCall == [at : {"create"}, slug : Slugs, id : Nat, by : Members]
DeleteCall == [at : {"wipe", "row"}, slug : Slugs, id : Nat]
AddCall == [at : {"add"}, slug : Slugs, id : Nat, handle : Members, role : {"admin", "member"}]
RemoveCall == [at : {"remove"}, slug : Slugs, handle : Members]
FreeCall == [at |-> "free"]
OrgCallType == {FreeCall} \cup CreateCall \cup DeleteCall \cup AddCall \cup RemoveCall

(* Requests that carry an id carry one that was given.                     *)
WithId == {"create", "wipe", "row", "add"}

OrgsTyped ==
  /\ OrgsTypeOK
  /\ orgIds \in Nat /\ IsFiniteSet(relations) /\ IsFiniteSet(orgRevision)
  /\ orgCall \in [OrgCalls -> OrgCallType]
  /\ \A c \in OrgCalls : orgCall[c].at \in WithId => orgCall[c].id \in 1..orgIds

BusyWith(s) == {c \in OrgCalls : ~Doing(c, "free") /\ orgCall[c].slug = s}
RelsOf(s) == {rel \in relations : rel.slug = s}
OwnerHolds(s) == \E rel \in RelsOf(s) : rel.handle = organizations[s].owner /\ rel.role = "owner"

(* Under a slug with nothing left behind there is one request at a time,   *)
(* and it is about the organisation that has the slug; so are relations;   *)
(* and there are none before the first is written, or after the clean-up.  *)
SlugClean(s) ==
  /\ \A c, d \in BusyWith(s) : c = d
  /\ \A rel \in RelsOf(s) : rel.for = organizations[s].id
  /\ \A c \in BusyWith(s) :
       /\ orgCall[c].at \in WithId => orgCall[c].id = organizations[s].id
       /\ orgCall[c].at \in {"create", "row"} => RelsOf(s) = {}
       /\ orgCall[c].at = "create" => orgCall[c].by = organizations[s].owner
  /\ s \notin ownerless /\ Exists(s) =>
       \/ OwnerHolds(s)
       \/ \E c \in BusyWith(s) : orgCall[c].at \in {"create", "row"}

OrgsInv == OrgsTyped /\ \A s \in Slugs \ leftovers : SlugClean(s)
-----------------------------------------------------------------------------
(* Submissions.                                                            *)
FlagsOf(i) == {f \in flags : f[1] = i}
Flaggers(i) == {f[2] : f \in FlagsOf(i)}

SubRow == [by : SubUsers, status : Statuses, reason : BOOLEAN]
FlagCall ==
  [at : {"flag"}, id : SubIds, prior : Statuses, user : SubUsers, others : SUBSET SubUsers]
WriteCall ==
  [at : {"write"}, id : SubIds, prior : Statuses, to : {"accepted", "rejected", "review"}]
SubCallType ==
  {Idle} \cup [at : {"handle", "withdraw"}, id : SubIds] \cup FlagCall \cup WriteCall

SubsTyped ==
  /\ submissions \in [SubIds -> {NoSub} \cup SubRow]
  /\ flags \subseteq {i \in SubIds : Stored(i)} \X SubUsers /\ IsFiniteSet(flags)
  /\ rowLock \in [SubIds -> SubCalls \cup {Nobody}]
  /\ subCall \in [SubCalls -> SubCallType]

(* A request that writes holds the lock of its row, and the row is as the  *)
(* request has read it.                                                    *)
Writing == {"flag", "withdraw", "write"}

Holds(c) ==
  subCall[c].at \in Writing =>
    LET i == subCall[c].id IN
    /\ rowLock[i] = c /\ Stored(i)
    /\ subCall[c].at = "flag" => subCall[c].prior = Status(i) /\ subCall[c].others = Flaggers(i)
    /\ subCall[c].at = "withdraw" => Status(i) = "review"
    /\ subCall[c].at = "write" => /\ subCall[c].prior = Status(i)
                                  /\ Status(i) \in legal_priors[subCall[c].to]

RowOK(i) ==
  /\ i \notin dismissed /\ Status(i) = "review" => FlagCount(i) < FlagThreshold
  /\ Status(i) = "rejected" => submissions[i].reason

SubsInv ==
  /\ SubsTyped
  /\ \A c \in SubCalls : Holds(c)
  /\ \A i \in SubIds : RowOK(i)
-----------------------------------------------------------------------------
(* Staff: one lemma per action.                                            *)
LEMMA StaffKept ==
  ASSUME StaffInv, UNCHANGED staffVars
  PROVE  StaffInv'
  BY DEF StaffInv, staffVars, StaffTypeOK, AdminRemains, Admins, has

LEMMA BootstrapStep ==
  ASSUME StaffInv, bootstrap_admins_from_env
  PROVE  StaffInv'
<1>1. PICK done \in SUBSET (BootstrapUsers \cap staffUsers) :
        /\ staff_roles' = staff_roles \cup UNION {grant_one(u) : u \in done}
        /\ unattended' = (unattended /\ done = {})
  BY DEF bootstrap_admins_from_env
<1>2. /\ staffCall' = [c \in StaffCalls |-> NoStaffCall]
      /\ staffUsers' = staffUsers /\ revocations' = revocations
  BY DEF bootstrap_admins_from_env
<1>3. /\ staff_roles \subseteq staff_roles'
      /\ staff_roles' \subseteq staffUsers \X StaffRole
      /\ \A u \in done : <<u, "admin">> \in staff_roles'
  BY <1>1 DEF StaffInv, StaffTypeOK, grant_one, StaffRole
<1>4. unattended' \in BOOLEAN /\ (~unattended' => ~unattended \/ done # {})
  BY <1>1, Zenon DEF StaffInv
<1>5. AdminRemains'
  BY <1>3, <1>4 DEF StaffInv, AdminRemains, Admins, has
<1>. QED  BY <1>2, <1>3, <1>4, <1>5 DEF StaffInv, StaffTypeOK, StaffCallType, NoStaffCall

(* A step of a request that changes no role.                               *)
LEMMA StaffCallStep ==
  ASSUME StaffInv, NEW c \in StaffCalls, NEW step \in StaffCallType, StaffGo(c, step),
         step.at = "revoke" => ~(step.by = step.user /\ step.role = "admin"),
         UNCHANGED <<staffUsers, staff_roles, revocations, unattended>>
  PROVE  StaffInv'
  BY DEF StaffInv, StaffGo, StaffTypeOK, AdminRemains, Admins, has

LEMMA GrantStartStep ==
  ASSUME StaffInv, NEW c \in StaffCalls, NEW by \in StaffUsers, NEW u \in StaffUsers,
         NEW role \in StaffRole, GrantStart(c, by, u, role)
  PROVE  StaffInv'
<1>1. PICK step \in StaffCallType : step.at = "grant" /\ StaffGo(c, step)
  BY DEF GrantStart, StaffCallType
<1>. QED  BY <1>1, StaffCallStep DEF GrantStart

LEMMA RevokeStartStep ==
  ASSUME StaffInv, NEW c \in StaffCalls, NEW by \in StaffUsers, NEW u \in StaffUsers,
         NEW role \in StaffRole, RevokeStart(c, by, u, role)
  PROVE  StaffInv'
<1>1. PICK step \in StaffCallType :
        step.by = by /\ step.user = u /\ step.role = role /\ StaffGo(c, step)
  BY DEF RevokeStart, StaffCallType
<1>. QED  BY <1>1, StaffCallStep DEF RevokeStart

LEMMA StaffCallShape ==
  ASSUME StaffInv, NEW c \in StaffCalls, staffCall[c].at \in {"grant", "revoke"}
  PROVE  /\ staffCall[c].by \in StaffUsers /\ staffCall[c].user \in StaffUsers
         /\ staffCall[c].role \in StaffRole
  BY DEF StaffInv, StaffCallType, NoStaffCall

LEMMA GrantWriteStep ==
  ASSUME StaffInv, NEW c \in StaffCalls, GrantWrite(c)
  PROVE  StaffInv'
<1>1. staff_roles \subseteq staff_roles' /\ staff_roles' \subseteq staffUsers \X StaffRole
  BY StaffCallShape DEF GrantWrite, grant, StaffInv, StaffTypeOK
<1>2. /\ staffCall' \in [StaffCalls -> StaffCallType]
      /\ \A d \in StaffCalls : staffCall'[d] = staffCall[d] \/ staffCall'[d] = NoStaffCall
      /\ UNCHANGED <<staffUsers, revocations, unattended>>
  BY DEF GrantWrite, StaffInv, StaffGo, StaffCallType
<1>3. AdminRemains'
  BY <1>1, <1>2 DEF StaffInv, AdminRemains, Admins, has
<1>. QED  BY <1>1, <1>2, <1>3 DEF StaffInv, StaffTypeOK, NoStaffCall

(* The one who revokes an admin is another admin, or it is noted.          *)
LEMMA RevokeWriteStep ==
  ASSUME StaffInv, NEW c \in StaffCalls, RevokeWrite(c)
  PROVE  StaffInv'
<1>1. PICK u \in StaffUsers, by \in StaffUsers, role \in StaffRole :
        /\ u = staffCall[c].user /\ by = staffCall[c].by /\ role = staffCall[c].role
        /\ ~(by = u /\ role = "admin")
        /\ revoke(u, role, by)
  BY StaffCallShape DEF RevokeWrite, StaffInv
<1>2. /\ staffCall' \in [StaffCalls -> StaffCallType]
      /\ \A d \in StaffCalls : staffCall'[d] = staffCall[d] \/ staffCall'[d] = NoStaffCall
      /\ staffUsers' = staffUsers
  BY DEF RevokeWrite, StaffInv, StaffGo, StaffCallType
<1>3. CASE <<u, role>> \in staff_roles /\ by \in staffUsers
  <2>1. /\ staff_roles' = staff_roles \ {<<u, role>>}
        /\ revocations' = revocations \cup {<<u, by>>}
        /\ unattended' = (unattended \/ (role = "admin" /\ u # by /\ ~has(by, "admin")))
    BY <1>1, <1>3 DEF revoke
  <2>2. unattended' \in BOOLEAN /\ (~unattended' => ~unattended /\ (role = "admin" => has(by, "admin")))
    BY <1>1, <2>1, Zenon DEF StaffInv
  <2>3. StaffTypeOK'
    BY <1>2, <1>3, <2>1 DEF StaffInv, StaffTypeOK
  <2>4. ASSUME ~unattended' PROVE Admins' # {}
    <3>1. CASE role = "admin"
      BY <1>1, <2>1, <2>2, <2>4, <3>1 DEF Admins, has
    <3>2. CASE role # "admin"
      BY <2>1, <2>2, <2>4, <3>2 DEF StaffInv, AdminRemains, Admins, has
    <3>. QED  BY <3>1, <3>2
  <2>. QED  BY <1>2, <2>2, <2>3, <2>4 DEF StaffInv, AdminRemains, NoStaffCall
<1>4. CASE ~(<<u, role>> \in staff_roles /\ by \in staffUsers)
  <2>1. UNCHANGED <<staff_roles, revocations, unattended>>
    BY <1>1, <1>4 DEF revoke
  <2>2. StaffTypeOK' /\ AdminRemains' /\ unattended' \in BOOLEAN
    BY <1>2, <2>1 DEF StaffInv, StaffTypeOK, AdminRemains, Admins, has
  <2>. QED  BY <1>2, <2>2 DEF StaffInv, NoStaffCall
<1>. QED  BY <1>3, <1>4

LEMMA StaffDeletedStep ==
  ASSUME StaffInv, NEW u \in StaffUsers, StaffAccountDeleted(u)
  PROVE  StaffInv'
<1>1. unattended' \in BOOLEAN /\ (~unattended' => ~unattended /\ ~has(u, "admin"))
  BY Zenon DEF StaffInv, StaffAccountDeleted
<1>2. StaffTypeOK' /\ staffUsers' \subseteq StaffUsers /\ staffCall' = staffCall
  BY DEF StaffInv, StaffTypeOK, StaffAccountDeleted, Deletable
<1>3. ASSUME ~unattended' PROVE Admins' # {}
  BY <1>1, <1>3 DEF StaffInv, StaffAccountDeleted, AdminRemains, Admins, has
<1>. QED  BY <1>1, <1>2, <1>3 DEF StaffInv, AdminRemains

(* An administrator remains, whichever requests overlap (revoke_role), and *)
(* grants are of accounts that exist.                                      *)
THEOREM AdminStays == CommunitySpec => [](StaffTypeOK /\ AdminRemains)
<1>1. CommunityInit => StaffInv
  BY DEF CommunityInit, StaffInit, StaffInv, StaffTypeOK, AdminRemains, StaffCallType, NoStaffCall
<1>2. StaffInv /\ [CommunityNext]_communityVars => StaffInv'
  <2>. SUFFICES ASSUME StaffInv, [CommunityNext]_communityVars PROVE StaffInv'
    OBVIOUS
  <2>1. CASE UNCHANGED staffVars
    BY <2>1, StaffKept
  <2>2. CASE StaffNext
    BY <2>2, BootstrapStep, GrantStartStep, RevokeStartStep, GrantWriteStep, RevokeWriteStep,
       StaffDeletedStep DEF StaffNext
  <2>. QED  BY <2>1, <2>2 DEF CommunityNext, communityVars
<1>3. StaffInv => StaffTypeOK /\ AdminRemains
  BY DEF StaffInv
<1>. QED  BY <1>1, <1>2, <1>3, PTL DEF CommunitySpec
-----------------------------------------------------------------------------
(* Mail.                                                                   *)
LEMMA SmtpKept ==
  ASSUME SmtpInv, UNCHANGED smtpVars
  PROVE  SmtpInv'
  BY DEF SmtpInv, smtpVars, MailerOK

LEMMA PutWriteStep ==
  ASSUME SmtpInv, NEW c \in SmtpCalls, NEW pw, NEW enabled, PutWrite(c, pw, enabled)
  PROVE  SmtpInv'
<1>1. PICK step : step.at = "read" /\ smtpCall' = [smtpCall EXCEPT ![c] = step]
  BY DEF PutWrite
<1>2. mixed' \in BOOLEAN /\ (~mixed' => ~mixed /\ \A d \in SmtpCalls : smtpCall[d] = NoPut)
  BY Zenon DEF PutWrite
<1>3. /\ smtpCall'[c].at = "read" /\ smtpCall'[c] # NoPut
      /\ \A d \in SmtpCalls \ {c} : smtpCall'[d] = smtpCall[d]
      /\ smtpCall' = [d \in SmtpCalls |-> smtpCall'[d]]
  BY <1>1 DEF SmtpInv, NoPut
<1>. QED  BY <1>2, <1>3 DEF SmtpInv, NoPut

LEMMA PutReadStep ==
  ASSUME SmtpInv, NEW c \in SmtpCalls, PutRead(c)
  PROVE  SmtpInv'
<1>1. PICK step : /\ step.at = "swap" /\ step.to = Transport(smtp_config)
                  /\ smtpCall' = [smtpCall EXCEPT ![c] = step]
  BY DEF PutRead
<1>2. /\ smtpCall'[c] = step /\ step # NoPut /\ smtpCall[c] # NoPut
      /\ \A d \in SmtpCalls \ {c} : smtpCall'[d] = smtpCall[d]
      /\ smtpCall' = [d \in SmtpCalls |-> smtpCall'[d]]
  BY <1>1 DEF SmtpInv, NoPut, PutRead
<1>3. UNCHANGED <<smtp_config, mailer, mixed>>
  BY DEF PutRead
<1>. QED  BY <1>1, <1>2, <1>3 DEF SmtpInv

LEMMA PutReadFailsStep ==
  ASSUME SmtpInv, NEW c \in SmtpCalls, PutReadFails(c)
  PROVE  SmtpInv'
  BY DEF SmtpInv, PutReadFails, NoPut

LEMMA PutSwapStep ==
  ASSUME SmtpInv, NEW c \in SmtpCalls, PutSwap(c)
  PROVE  SmtpInv'
<1>1. /\ smtpCall'[c] = NoPut /\ smtpCall[c] # NoPut
      /\ \A d \in SmtpCalls \ {c} : smtpCall'[d] = smtpCall[d]
      /\ smtpCall' = [d \in SmtpCalls |-> smtpCall'[d]]
      /\ mailer' = smtpCall[c].to /\ smtpCall[c].at = "swap"
      /\ UNCHANGED <<smtp_config, mixed>>
  BY DEF SmtpInv, NoPut, PutSwap, swap
<1>2. ~mixed => MailerOK'
  BY <1>1 DEF SmtpInv, MailerOK
<1>. QED  BY <1>1, <1>2 DEF SmtpInv, NoPut

LEMMA ServerStartStep ==
  ASSUME SmtpInv, ServerStart
  PROVE  SmtpInv'
<1>1. mixed' \in BOOLEAN /\ (~mixed' => ~smtp_config.enabled \/ mailer' # Env)
  BY Zenon DEF ServerStart
<1>2. smtpCall' = [c \in SmtpCalls |-> NoPut] /\ smtp_config' = smtp_config
  BY DEF ServerStart
<1>3. ~mixed' => MailerOK'
  BY <1>1, <1>2 DEF ServerStart, MailerOK
<1>. QED  BY <1>1, <1>2, <1>3 DEF SmtpInv, NoPut

(* With no PUT in progress the transport is the one the row describes,     *)
(* unless PUTs overlapped or a row could not be read back (put_smtp).      *)
THEOREM MailerFollows == CommunitySpec => []MailerFollowsConfig
<1>1. CommunityInit => SmtpInv
  <2>. SUFFICES ASSUME CommunityInit PROVE SmtpInv
    OBVIOUS
  <2>1. MailerOK
    BY DEF CommunityInit, SmtpInit, MailerOK
  <2>2. mixed \in BOOLEAN
    BY Zenon DEF CommunityInit, SmtpInit
  <2>3. /\ smtpCall = [c \in SmtpCalls |-> smtpCall[c]]
        /\ \A c \in SmtpCalls : smtpCall[c] = NoPut /\ smtpCall[c].at = "free"
    BY DEF CommunityInit, SmtpInit, NoPut
  <2>. QED  BY <2>1, <2>2, <2>3 DEF SmtpInv
<1>2. SmtpInv /\ [CommunityNext]_communityVars => SmtpInv'
  <2>. SUFFICES ASSUME SmtpInv, [CommunityNext]_communityVars PROVE SmtpInv'
    OBVIOUS
  <2>1. CASE UNCHANGED smtpVars
    BY <2>1, SmtpKept
  <2>2. CASE SmtpNext
    BY <2>2, PutWriteStep, PutReadStep, PutReadFailsStep, PutSwapStep, ServerStartStep DEF SmtpNext
  <2>. QED  BY <2>1, <2>2 DEF CommunityNext, communityVars
<1>3. SmtpInv => MailerFollowsConfig
  BY DEF SmtpInv, MailerFollowsConfig, MailerOK
<1>. QED  BY <1>1, <1>2, <1>3, PTL DEF CommunitySpec
-----------------------------------------------------------------------------
(* The RSI handle.                                                         *)
LEMMA RsiKept ==
  ASSUME RsiInv, UNCHANGED rsiVars
  PROVE  RsiInv'
  BY DEF RsiInv, rsiVars, RsiTyped, RsiTypeOK, VerifiedByOwner, RsiCallOK

(* A request that a step leaves alone: codes and proof only grow, and the  *)
(* row keeps its code, loses it or gets one that the request has not seen. *)
LEMMA RsiOther ==
  ASSUME RsiInv, NEW d \in RsiCalls, rsiCall'[d] = rsiCall[d],
         expiry' \in Seq(Int), Len(expiry) <= Len(expiry'),
         \A k \in 1..Len(expiry) : expiry'[k] = expiry[k],
         rsiProven => rsiProven', rsiClock' \in Int, rsiClock <= rsiClock',
         \/ rsiRow' = rsiRow
         \/ rsiRow'.code = NoCode
         \/ rsiRow'.code \in Nat /\ rsiRow'.code > Len(expiry)
  PROVE  RsiCallOK(d)'
<1>1. RsiCallOK(d) /\ rsiClock \in Int /\ Len(expiry) \in Nat /\ Len(expiry') \in Nat
      /\ rsiRow.expires \in Int
  BY DEF RsiInv, RsiTyped, RsiTypeOK
<1>2. rsiCall[d].at = "set" => rsiCall[d].seen \in 0..Len(expiry)
  BY <1>1 DEF RsiCallOK, NoRsiCall
<1>3. rsiCall[d].at = "set" =>
        rsiRow'.code = NoCode \/ rsiRow'.expires <= rsiClock' \/ rsiCall[d].seen < rsiRow'.code
  BY <1>1, <1>2 DEF RsiCallOK
<1>4. rsiCall[d].at = "bio" =>
        /\ rsiCall[d].read \in Int /\ rsiCall[d].code \in 1..Len(expiry')
        /\ expiry'[rsiCall[d].code] > rsiCall[d].read
  BY <1>1 DEF RsiCallOK, NoRsiCall
<1>. QED  BY <1>1, <1>2, <1>3, <1>4 DEF RsiCallOK

(* A step of one request.                                                  *)
LEMMA RsiOneCall ==
  ASSUME RsiInv, NEW c \in RsiCalls, NEW step, RsiGo(c, step),
         RsiTypeOK', expiry' \in Seq(Int), rsiProven' \in BOOLEAN,
         rsiRow' \in [verified : BOOLEAN, code : Nat, expires : Int],
         rsiRow'.code <= Len(expiry'), VerifiedByOwner',
         Len(expiry) <= Len(expiry'), \A k \in 1..Len(expiry) : expiry'[k] = expiry[k],
         rsiProven => rsiProven', rsiClock' = rsiClock,
         \/ rsiRow' = rsiRow
         \/ rsiRow'.code = NoCode
         \/ rsiRow'.code \in Nat /\ rsiRow'.code > Len(expiry),
         RsiCallOK(c)'
  PROVE  RsiInv'
<1>1. /\ rsiCall' = [d \in RsiCalls |-> rsiCall'[d]]
      /\ \A d \in RsiCalls \ {c} : rsiCall'[d] = rsiCall[d]
  BY DEF RsiInv, RsiTyped, RsiGo
<1>2. rsiClock' \in Int /\ rsiClock <= rsiClock'
  BY DEF RsiInv, RsiTyped, RsiTypeOK
<1>3. \A d \in RsiCalls \ {c} : RsiCallOK(d)'
  BY <1>1, <1>2, RsiOther
<1>. QED  BY <1>1, <1>3 DEF RsiInv, RsiTyped

(* One that writes nothing but a snapshot.                                 *)
LEMMA RsiReadStep ==
  ASSUME RsiInv, NEW c \in RsiCalls, NEW step, RsiGo(c, step),
         UNCHANGED <<rsiClock, rsiRow, expiry, bio, rsiProven>>,
         profileAt' \subseteq 0..RsiHorizon, orgsAt' \in {Never} \cup 0..RsiHorizon,
         RsiCallOK(c)'
  PROVE  RsiInv'
<1>1. RsiTypeOK' /\ VerifiedByOwner'
  BY DEF RsiInv, RsiTyped, RsiTypeOK, VerifiedByOwner
<1>2. Len(expiry) <= Len(expiry')
  BY DEF RsiInv, RsiTyped
<1>. QED  BY <1>1, <1>2, RsiOneCall DEF RsiInv, RsiTyped

LEMMA NewRsiCall ==
  ASSUME RsiInv, NEW c \in RsiCalls, NEW step, RsiGo(c, step)
  PROVE  rsiCall'[c] = step
  BY DEF RsiInv, RsiTyped, RsiGo

LEMMA RsiEndsStep ==
  ASSUME RsiInv, NEW c \in RsiCalls, RsiEnds(c),
         UNCHANGED <<rsiClock, rsiRow, expiry, bio, rsiProven>>,
         profileAt' \subseteq 0..RsiHorizon, orgsAt' \in {Never} \cup 0..RsiHorizon
  PROVE  RsiInv'
<1>1. RsiCallOK(c)'
  BY NewRsiCall DEF RsiCallOK, NoRsiCall, RsiEnds
<1>. QED  BY <1>1, RsiReadStep DEF RsiEnds

LEMMA StartReadStep ==
  ASSUME RsiInv, NEW c \in RsiCalls, StartRead(c)
  PROVE  RsiInv'
<1>1. PICK step : /\ step.at = "set" /\ step.expires = rsiClock + VerifyTtl /\ step.seen = Len(expiry)
                  /\ RsiGo(c, step)
  BY DEF StartRead
<1>2. rsiClock \in Int /\ Len(expiry) \in Nat /\ VerifyTtl \in Int
  BY RsiBounds DEF RsiInv, RsiTyped, RsiTypeOK
<1>3. RsiCallOK(c)'
  BY <1>1, <1>2, NewRsiCall DEF RsiCallOK, StartRead
<1>. QED  BY <1>1, <1>3, RsiReadStep DEF StartRead, snapshots, RsiInv, RsiTyped, RsiTypeOK

LEMMA VerifyReadStep ==
  ASSUME RsiInv, NEW c \in RsiCalls, VerifyRead(c)
  PROVE  RsiInv'
<1>1. PICK step : /\ step.at = "bio" /\ step.code = rsiRow.code /\ step.read = rsiClock
                  /\ RsiGo(c, step)
  BY DEF VerifyRead
<1>2. /\ rsiClock \in Int /\ rsiRow.code \in 1..Len(expiry)
      /\ expiry[rsiRow.code] = rsiRow.expires /\ rsiRow.expires > rsiClock
  BY DEF VerifyRead, NoCode, RsiInv, RsiTyped, RsiTypeOK
<1>3. RsiCallOK(c)'
  BY <1>1, <1>2, NewRsiCall DEF RsiCallOK, VerifyRead
<1>. QED  BY <1>1, <1>3, RsiReadStep DEF VerifyRead, snapshots, RsiInv, RsiTyped, RsiTypeOK

(* The new code is one that no other request has seen.                     *)
LEMMA SetCodeStep ==
  ASSUME RsiInv, NEW c \in RsiCalls, set_rsi_verify_code(c)
  PROVE  RsiInv'
<1>1. PICK e \in Int : e = rsiCall[c].expires
  BY DEF set_rsi_verify_code, RsiInv, RsiCallOK, NoRsiCall
<1>2. /\ expiry' \in Seq(Int) /\ Len(expiry') = Len(expiry) + 1 /\ Len(expiry) \in Nat
      /\ expiry'[Len(expiry')] = e /\ \A k \in 1..Len(expiry) : expiry'[k] = expiry[k]
  BY <1>1 DEF set_rsi_verify_code, RsiInv, RsiTyped
<1>3. /\ rsiRow' \in [verified : BOOLEAN, code : Nat, expires : Int]
      /\ rsiRow'.code = Len(expiry') /\ rsiRow'.expires = e /\ rsiRow'.verified = rsiRow.verified
  <2>1. PICK n \in Nat : n = Len(expiry')
    BY <1>2
  <2>2. rsiRow' = [rsiRow EXCEPT !.code = n, !.expires = e]
    BY <1>1, <2>1 DEF set_rsi_verify_code
  <2>3. rsiRow \in [verified : BOOLEAN, code : Nat, expires : Int]
    BY DEF RsiInv, RsiTyped
  <2>. QED  BY <2>1, <2>2, <2>3
<1>4. RsiTypeOK' /\ VerifiedByOwner'
  BY <1>2, <1>3 DEF set_rsi_verify_code, snapshots, RsiInv, RsiTyped, RsiTypeOK, VerifiedByOwner
<1>5. RsiCallOK(c)'
  BY NewRsiCall DEF RsiCallOK, NoRsiCall, RsiEnds, set_rsi_verify_code
<1>. QED  BY <1>2, <1>3, <1>4, <1>5, RsiOneCall DEF set_rsi_verify_code, RsiEnds, RsiInv, RsiTyped

(* The code found in the bio had not expired when its check was asked for. *)
LEMMA CheckAnsweredStep ==
  ASSUME RsiInv, NEW c \in RsiCalls, CheckAnswered(c)
  PROVE  RsiInv'
<1>1. CASE RsiEnds(c) /\ rsiProven' = rsiProven
  BY <1>1, RsiEndsStep DEF CheckAnswered, snapshots, RsiInv, RsiTyped, RsiTypeOK
<1>2. CASE /\ RsiGo(c, [at |-> "mark"])
           /\ rsiProven' = (rsiProven \/ expiry[rsiCall[c].code] > rsiCall[c].read)
  <2>1. expiry[rsiCall[c].code] > rsiCall[c].read
    BY DEF CheckAnswered, RsiInv, RsiCallOK, NoRsiCall
  <2>2. rsiProven' \in BOOLEAN /\ rsiProven'
    BY <1>2, <2>1, Zenon
  <2>3. RsiCallOK(c)'
    BY <1>2, <2>2, NewRsiCall DEF RsiCallOK
  <2>4. RsiTypeOK' /\ VerifiedByOwner' /\ Len(expiry) <= Len(expiry')
    BY <2>2 DEF CheckAnswered, snapshots, RsiInv, RsiTyped, RsiTypeOK, VerifiedByOwner
  <2>. QED  BY <1>2, <2>2, <2>3, <2>4, RsiOneCall DEF CheckAnswered, RsiInv, RsiTyped
<1>. QED  BY <1>1, <1>2 DEF CheckAnswered

LEMMA MarkStep ==
  ASSUME RsiInv, NEW c \in RsiCalls, mark_rsi_verified(c)
  PROVE  RsiInv'
<1>1. rsiProven /\ rsiProven' = rsiProven
  BY DEF mark_rsi_verified, RsiInv, RsiCallOK
<1>2. /\ rsiRow' \in [verified : BOOLEAN, code : Nat, expires : Int]
      /\ rsiRow'.code = NoCode /\ expiry' = expiry
  BY DEF mark_rsi_verified, NoCode, Never
<1>3. RsiTypeOK' /\ VerifiedByOwner' /\ Len(expiry) <= Len(expiry') /\ NoCode <= Len(expiry)
  BY <1>1, <1>2 DEF mark_rsi_verified, snapshots, NoCode, RsiInv, RsiTyped, RsiTypeOK, VerifiedByOwner
<1>4. RsiCallOK(c)'
  BY NewRsiCall DEF RsiCallOK, NoRsiCall, RsiEnds, mark_rsi_verified
<1>. QED  BY <1>1, <1>2, <1>3, <1>4, RsiOneCall DEF mark_rsi_verified, RsiEnds, RsiInv, RsiTyped

LEMMA SnapshotStep ==
  ASSUME RsiInv, NEW c \in RsiCalls,
         ProfileStart(c) \/ ProfileSave(c) \/ OrgsStart(c) \/ OrgsSave(c) \/ OrgsFail(c)
  PROVE  RsiInv'
<1>0. /\ profileAt \subseteq 0..RsiHorizon /\ orgsAt \in {Never} \cup 0..RsiHorizon
      /\ rsiClock \in 0..RsiHorizon
  BY DEF RsiInv, RsiTyped, RsiTypeOK
<1>1. CASE ProfileStart(c)
  <2>1. PICK step : step.at = "profile" /\ step.now = rsiClock /\ RsiGo(c, step)
    BY <1>1 DEF ProfileStart
  <2>2. RsiCallOK(c)'
    BY <1>0, <2>1, NewRsiCall DEF RsiCallOK
  <2>. QED  BY <1>0, <1>1, <2>1, <2>2, RsiReadStep DEF ProfileStart, snapshots
<1>2. CASE ProfileSave(c)
  <2>1. rsiCall[c].now \in 0..RsiHorizon
    BY <1>2 DEF ProfileSave, RsiInv, RsiCallOK, NoRsiCall
  <2>. QED  BY <1>0, <1>2, <2>1, RsiEndsStep DEF ProfileSave, save_profile
<1>3. CASE OrgsStart(c)
  <2>1. PICK step : step.at = "orgs" /\ RsiGo(c, step)
    BY <1>3 DEF OrgsStart
  <2>2. RsiCallOK(c)'
    BY <2>1, NewRsiCall DEF RsiCallOK
  <2>. QED  BY <1>0, <1>3, <2>1, <2>2, RsiReadStep DEF OrgsStart, snapshots
<1>4. CASE OrgsSave(c)
  <2>1. orgsAt' = rsiClock
    BY <1>4 DEF OrgsSave, save_orgs
  <2>. QED  BY <1>0, <1>4, <2>1, RsiEndsStep DEF OrgsSave
<1>5. CASE OrgsFail(c)
  BY <1>0, <1>5, RsiEndsStep DEF OrgsFail, snapshots
<1>. QED  BY <1>1, <1>2, <1>3, <1>4, <1>5

LEMMA RsiElsewhereStep ==
  ASSUME RsiInv, BioEdited \/ RsiTick
  PROVE  RsiInv'
<1>1. /\ UNCHANGED <<rsiRow, expiry, rsiCall, rsiProven, snapshots>>
      /\ rsiClock' \in 0..RsiHorizon /\ rsiClock <= rsiClock' /\ rsiClock' \in Int
      /\ bio' \in {NoCode} \cup DOMAIN expiry
  BY RsiBounds DEF BioEdited, RsiTick, RsiInv, RsiTyped, RsiTypeOK
<1>2. RsiTyped' /\ VerifiedByOwner' /\ Len(expiry) <= Len(expiry')
  BY <1>1 DEF snapshots, RsiInv, RsiTyped, RsiTypeOK, VerifiedByOwner
<1>3. \A d \in RsiCalls : RsiCallOK(d)'
  BY <1>1, <1>2, RsiOther DEF RsiTyped
<1>. QED  BY <1>2, <1>3 DEF RsiInv

LEMMA RsiStep == RsiInv /\ [CommunityNext]_communityVars => RsiInv'
<1>. SUFFICES ASSUME RsiInv, [CommunityNext]_communityVars PROVE RsiInv'
  OBVIOUS
<1>1. CASE UNCHANGED rsiVars
  BY <1>1, RsiKept
<1>2. CASE RsiNext
  BY <1>2, RsiElsewhereStep, StartReadStep, SetCodeStep, VerifyReadStep, CheckAnsweredStep, MarkStep,
     SnapshotStep DEF RsiNext
<1>. QED  BY <1>1, <1>2 DEF CommunityNext, communityVars

LEMMA RsiAtFirst == CommunityInit => RsiInv
<1>. SUFFICES ASSUME CommunityInit PROVE RsiInv
  OBVIOUS
<1>1. expiry = <<>> /\ expiry \in Seq(Int) /\ Len(expiry) = 0
  BY DEF CommunityInit, RsiInit
<1>2. rsiRow \in [verified : BOOLEAN, code : Nat, expires : Int] /\ rsiRow.code = NoCode /\ ~rsiRow.verified
  BY DEF CommunityInit, RsiInit, NoCode, Never
<1>3. rsiProven \in BOOLEAN
  BY Zenon DEF CommunityInit, RsiInit
<1>4. rsiCall = [c \in RsiCalls |-> rsiCall[c]] /\ \A c \in RsiCalls : RsiCallOK(c)
  BY DEF CommunityInit, RsiInit, RsiCallOK, NoRsiCall
<1>5. RsiTypeOK
  BY <1>1, <1>2, RsiBounds DEF CommunityInit, RsiInit, RsiTypeOK
<1>. QED  BY <1>1, <1>2, <1>3, <1>4, <1>5 DEF RsiInv, RsiTyped, VerifiedByOwner, NoCode

(* A handle is verified only after its owner had a code of the account in  *)
(* the bio that was good when the check was asked for, however starts,     *)
(* checks and marks interleave (start, verify).                            *)
THEOREM HandleVerifiedByOwner == CommunitySpec => [](RsiTypeOK /\ VerifiedByOwner)
<1>1. RsiInv => RsiTypeOK /\ VerifiedByOwner
  BY DEF RsiInv, RsiTyped
<1>. QED  BY <1>1, RsiAtFirst, RsiStep, PTL DEF CommunitySpec

(* Of the organisations stored, at most one is the main one.               *)
MainOnce ==
  \A j, k \in DOMAIN rsiOrgs : rsiOrgs[j].main /\ rsiOrgs[k].main => j = k

LEMMA Sanitised ==
  ASSUME NEW orgs \in Seq(OrgBlock), NEW j \in DOMAIN sanitise_orgs(orgs), NEW k \in DOMAIN sanitise_orgs(orgs),
         sanitise_orgs(orgs)[j].main, sanitise_orgs(orgs)[k].main
  PROVE  j = k
<1>1. \A i \in 1..Len(orgs) :
        sanitise_orgs(orgs)[i].main = (orgs[i].main /\ \A h \in 1..(i - 1) : ~orgs[h].main)
  BY DEF sanitise_orgs, OrgBlock
<1>2. j \in 1..Len(orgs) /\ k \in 1..Len(orgs)
  BY DEF sanitise_orgs
<1>3. /\ orgs[j].main /\ \A h \in 1..(j - 1) : ~orgs[h].main
      /\ orgs[k].main /\ \A h \in 1..(k - 1) : ~orgs[h].main
  BY <1>1, <1>2
<1>4. j \notin 1..(k - 1) /\ k \notin 1..(j - 1)
  BY <1>3
<1>. QED  BY <1>2, <1>4

LEMMA MainOnceStep ==
  ASSUME MainOnce, [CommunityNext]_communityVars
  PROVE  MainOnce'
<1>1. CASE rsiOrgs' = rsiOrgs
  BY <1>1 DEF MainOnce
<1>2. ASSUME NEW c \in RsiCalls, OrgsSave(c)
      PROVE  MainOnce'
  <2>1. PICK page \in OrgPages : rsiOrgs' = sanitise_orgs(parse_orgs_html(page))
    BY <1>2 DEF OrgsSave, save_orgs
  <2>2. page \in Seq(OrgBlock)
    <3>1. PICK n \in 0..2 : page \in [1..n -> OrgBlock]
      BY DEF OrgPages
    <3>2. n \in Nat
      OBVIOUS
    <3>. QED  BY <3>1, <3>2
  <2>3. parse_orgs_html(page) \in Seq(OrgBlock)
    BY <2>2, FilteredItems DEF parse_orgs_html
  <2>. QED  BY <2>1, <2>3, Sanitised DEF MainOnce
<1>3. CASE UNCHANGED rsiVars
  BY <1>1, <1>3 DEF rsiVars
<1>4. CASE RsiNext
  <2>1. ASSUME NEW c \in RsiCalls,
               \/ StartRead(c) \/ set_rsi_verify_code(c) \/ VerifyRead(c) \/ CheckAnswered(c)
               \/ mark_rsi_verified(c) \/ ProfileStart(c) \/ ProfileSave(c) \/ OrgsStart(c) \/ OrgsFail(c)
        PROVE  rsiOrgs' = rsiOrgs
    BY <2>1 DEF StartRead, set_rsi_verify_code, VerifyRead, CheckAnswered, mark_rsi_verified, ProfileStart,
       ProfileSave, OrgsStart, OrgsFail, snapshots
  <2>2. BioEdited \/ RsiTick => rsiOrgs' = rsiOrgs
    BY DEF BioEdited, RsiTick, snapshots
  <2>. QED  BY <1>1, <1>2, <1>4, <2>1, <2>2 DEF RsiNext
<1>. QED  BY <1>3, <1>4 DEF CommunityNext, communityVars

(* Whatever RSI's page marks as main, at most one organisation is stored   *)
(* as the main one (sanitise_orgs).                                        *)
LEMMA OneOrgIsMain == CommunitySpec => []OneMainOrg
<1>1. CommunityInit => MainOnce
  BY DEF CommunityInit, RsiInit, MainOnce
<1>2. MainOnce => OneMainOrg
  <2>. SUFFICES ASSUME MainOnce PROVE OneMainOrg
    OBVIOUS
  <2>. DEFINE mains == {k \in DOMAIN rsiOrgs : rsiOrgs[k].main}
  <2>1. CASE mains = {}
    BY <2>1, FS_EmptySet DEF OneMainOrg
  <2>2. CASE mains # {}
    <3>1. PICK k \in mains : mains = {k}
      BY <2>2 DEF MainOnce
    <3>2. Cardinality(mains) = 1
      BY <3>1, FS_Singleton
    <3>. QED  BY <3>2 DEF OneMainOrg
  <2>. QED  BY <2>1, <2>2
<1>. QED  BY <1>1, <1>2, MainOnceStep, PTL DEF CommunitySpec
-----------------------------------------------------------------------------
(* Submissions.                                                            *)
LEMMA SubCallShape ==
  ASSUME SubsInv, NEW c \in SubCalls
  PROVE  /\ subCall[c].at = "flag" => subCall[c] \in FlagCall
         /\ subCall[c].at = "write" => subCall[c] \in WriteCall
         /\ subCall[c].at \in Writing => subCall[c].id \in SubIds
  BY DEF SubsInv, SubsTyped, SubCallType, Idle, FlagCall, WriteCall, Writing

(* As many flags as flaggers.                                              *)
LEMMA FlagsAreFlaggers ==
  ASSUME NEW F, IsFiniteSet(F), NEW i, NEW U, F \subseteq {i} \X U
  PROVE  Cardinality(F) = Cardinality({f[2] : f \in F}) /\ Cardinality(F) \in Nat
<1>1. PICK g : g = [f \in F |-> f[2]]
  OBVIOUS
<1>2. \A f \in F : f = <<i, f[2]>>
  OBVIOUS
<1>3. g \in Bijection(F, {f[2] : f \in F})
  BY <1>1, <1>2 DEF Bijection, Injection, Surjection, IsInjective
<1>. QED  BY <1>3, FS_Bijection, FS_CardinalityType DEF ExistsBijection

(* A request, or a row, that a step leaves alone.                          *)
LEMMA SubOther ==
  ASSUME SubsInv, NEW d \in SubCalls, subCall'[d] = subCall[d],
         subCall[d].at \in Writing =>
           /\ submissions'[subCall[d].id] = submissions[subCall[d].id]
           /\ rowLock'[subCall[d].id] = rowLock[subCall[d].id]
           /\ FlagsOf(subCall[d].id)' = FlagsOf(subCall[d].id)
  PROVE  Holds(d)'
<1>1. ASSUME subCall[d].at \in Writing
      PROVE  Flaggers(subCall[d].id)' = Flaggers(subCall[d].id)
  BY <1>1 DEF Flaggers
<1>. QED  BY <1>1 DEF SubsInv, Holds, Stored, Status

LEMMA RowOther ==
  ASSUME SubsInv, NEW i \in SubIds, submissions'[i] = submissions[i], FlagsOf(i)' = FlagsOf(i),
         dismissed \subseteq dismissed'
  PROVE  RowOK(i)'
<1>1. FlagCount(i)' = FlagCount(i)
  BY DEF FlagCount, FlagsOf
<1>. QED  BY <1>1 DEF SubsInv, RowOK, Status

(* No row changes its status.                                              *)
StatusKept ==
  \A i \in SubIds :
    Status(i) \in {"accepted", "shipped", "rejected", "withdrawn"} => Status(i)' = Status(i)

LEMMA SubsKept ==
  ASSUME SubsInv, UNCHANGED <<submissions, flags, rowLock, subCall, dismissed>>
  PROVE  SubsInv' /\ StatusKept
<1>1. \A i : FlagsOf(i)' = FlagsOf(i)
  BY DEF FlagsOf
<1>. QED  BY <1>1, SubOther, RowOther DEF SubsInv, SubsTyped, Stored, StatusKept, Status

(* A request that gets the lock of a row nobody has locked.                *)
LEMMA LockStep ==
  ASSUME SubsInv, NEW c \in SubCalls, NEW i \in SubIds, NEW step \in SubCallType,
         LockRow(c, i), SubGo(c, step), UNCHANGED <<tables, dismissed>>,
         step.at \in Writing, step.id = i,
         step.at = "flag" => step.prior = Status(i) /\ step.others = Flaggers(i),
         step.at = "withdraw" => Status(i) = "review",
         step.at = "write" => step.prior = Status(i) /\ Status(i) \in legal_priors[step.to]
  PROVE  SubsInv' /\ StatusKept
<1>1. UNCHANGED <<submissions, flags, dismissed>> /\ \A j : FlagsOf(j)' = FlagsOf(j)
  BY DEF tables, FlagsOf
<1>2. /\ rowLock' \in [SubIds -> SubCalls \cup {Nobody}] /\ rowLock'[i] = c /\ rowLock[i] = Nobody
      /\ Stored(i) /\ \A j \in SubIds \ {i} : rowLock'[j] = rowLock[j]
  BY DEF LockRow, Free, SubsInv, SubsTyped
<1>3. /\ subCall' \in [SubCalls -> SubCallType] /\ subCall'[c] = step
      /\ \A d \in SubCalls \ {c} : subCall'[d] = subCall[d]
  BY DEF SubGo, SubsInv, SubsTyped
<1>4. SubsTyped'
  BY <1>1, <1>2, <1>3 DEF SubsInv, SubsTyped, Stored
<1>5. Holds(c)'
  <2>1. Flaggers(i)' = Flaggers(i)
    BY <1>1 DEF Flaggers
  <2>. QED  BY <1>1, <1>2, <1>3, <2>1 DEF Holds, Stored, Status
<1>6. ASSUME NEW d \in SubCalls \ {c} PROVE Holds(d)'
  <2>1. subCall[d].at \in Writing => subCall[d].id \in SubIds \ {i}
    BY <1>2, SubCallShape, NobodyAssumption DEF SubsInv, Holds
  <2>. QED  BY <1>1, <1>2, <1>3, <2>1, SubOther
<1>7. \A j \in SubIds : RowOK(j)'
  BY <1>1, RowOther
<1>. QED  BY <1>1, <1>4, <1>5, <1>6, <1>7 DEF SubsInv, StatusKept, Status

LEMMA FlagLockStep ==
  ASSUME SubsInv, NEW c \in SubCalls, NEW i \in SubIds, NEW u \in SubUsers, FlagLock(c, i, u)
  PROVE  SubsInv' /\ StatusKept
<1>1. Status(i) \in Statuses /\ Flaggers(i) \subseteq SubUsers
  BY DEF FlagLock, LockRow, SubsInv, SubsTyped, SubRow, Stored, Status, Flaggers, FlagsOf
<1>2. PICK step : step = [at |-> "flag", id |-> i, prior |-> Status(i), user |-> u, others |-> Flaggers(i)]
  OBVIOUS
<1>3. step \in SubCallType
  BY <1>1, <1>2 DEF SubCallType, FlagCall
<1>4. SubGo(c, step) /\ LockRow(c, i) /\ UNCHANGED <<tables, dismissed>>
  BY <1>2 DEF FlagLock, Flaggers, FlagsOf
<1>. QED  BY <1>2, <1>3, <1>4, LockStep DEF Writing

LEMMA WithdrawLockStep ==
  ASSUME SubsInv, NEW c \in SubCalls, NEW i \in SubIds, NEW u \in SubUsers, WithdrawLock(c, i, u)
  PROVE  SubsInv' /\ StatusKept
<1>1. PICK step \in SubCallType : step.at = "withdraw" /\ step.id = i /\ SubGo(c, step)
  BY DEF WithdrawLock, SubCallType
<1>. QED  BY <1>1, LockStep DEF WithdrawLock, Writing

LEMMA TransitionLockStep ==
  ASSUME SubsInv, NEW c \in SubCalls, NEW i \in SubIds, NEW to \in {"accepted", "rejected", "review"},
         TransitionLock(c, i, to)
  PROVE  SubsInv' /\ StatusKept
<1>1. Status(i) \in Statuses
  BY DEF TransitionLock, LockRow, SubsInv, SubsTyped, SubRow, Stored, Status
<1>2. PICK step \in SubCallType : /\ step.at = "write" /\ step.id = i /\ step.prior = Status(i)
                                  /\ step.to = to /\ SubGo(c, step)
  BY <1>1 DEF TransitionLock, SubCallType, WriteCall
<1>. QED  BY <1>2, LockStep DEF TransitionLock, Writing

(* A request ends and releases its lock.  What it writes is about its own  *)
(* row, which nobody else has locked.                                      *)
LEMMA EndStep ==
  ASSUME SubsInv, NEW c \in SubCalls, NEW i \in SubIds,
         SubGo(c, Idle), rowLock' = Unlocked(c), rowLock[i] = c,
         submissions' \in [SubIds -> {NoSub} \cup SubRow],
         \A j \in SubIds \ {i} : submissions'[j] = submissions[j], Stored(i)',
         flags' \subseteq flags \cup ({i} \X SubUsers), flags \subseteq flags', IsFiniteSet(flags'),
         dismissed \subseteq dismissed', RowOK(i)',
         Status(i) \in {"accepted", "shipped", "rejected", "withdrawn"} => Status(i)' = Status(i)
  PROVE  SubsInv' /\ StatusKept
<1>1. /\ subCall' \in [SubCalls -> SubCallType] /\ subCall'[c] = Idle
      /\ \A d \in SubCalls \ {c} : subCall'[d] = subCall[d]
  BY DEF SubGo, SubsInv, SubsTyped, SubCallType
<1>2. /\ rowLock' \in [SubIds -> SubCalls \cup {Nobody}]
      /\ \A j \in SubIds : rowLock[j] # c => rowLock'[j] = rowLock[j]
  BY DEF Unlocked, SubsInv, SubsTyped
<1>3. \A j \in SubIds \ {i} : FlagsOf(j)' = FlagsOf(j)
  BY DEF FlagsOf
<1>4. SubsTyped'
  <2>1. flags' \subseteq {j \in SubIds : Stored(j)'} \X SubUsers
    BY DEF SubsInv, SubsTyped, Stored
  <2>. QED  BY <1>1, <1>2, <2>1 DEF SubsTyped
<1>5. Holds(c)'
  BY <1>1 DEF Holds, Idle, Writing
<1>6. ASSUME NEW d \in SubCalls \ {c} PROVE Holds(d)'
  <2>1. subCall[d].at \in Writing => subCall[d].id \in SubIds \ {i} /\ rowLock[subCall[d].id] = d
    BY SubCallShape DEF SubsInv, Holds
  <2>. QED  BY <1>1, <1>2, <1>3, <2>1, SubOther
<1>7. \A j \in SubIds \ {i} : RowOK(j)'
  BY <1>3, RowOther
<1>. QED  BY <1>4, <1>5, <1>6, <1>7 DEF SubsInv, StatusKept, Status

(* One that ends without having written.                                   *)
LEMMA EndQuietly ==
  ASSUME SubsInv, NEW c \in SubCalls, SubGo(c, Idle),
         rowLock' = Unlocked(c) \/ (rowLock' = rowLock /\ subCall[c].at \notin Writing),
         UNCHANGED <<submissions, flags, dismissed>>
  PROVE  SubsInv' /\ StatusKept
<1>1. /\ subCall' \in [SubCalls -> SubCallType] /\ subCall'[c] = Idle
      /\ \A d \in SubCalls \ {c} : subCall'[d] = subCall[d]
  BY DEF SubGo, SubsInv, SubsTyped, SubCallType
<1>2. /\ rowLock' \in [SubIds -> SubCalls \cup {Nobody}]
      /\ \A j \in SubIds : rowLock[j] # c => rowLock'[j] = rowLock[j]
  BY DEF Unlocked, SubsInv, SubsTyped
<1>3. \A j : FlagsOf(j)' = FlagsOf(j)
  BY DEF FlagsOf
<1>4. SubsTyped'
  BY <1>1, <1>2 DEF SubsInv, SubsTyped, Stored
<1>5. Holds(c)'
  BY <1>1 DEF Holds, Idle, Writing
<1>6. ASSUME NEW d \in SubCalls \ {c} PROVE Holds(d)'
  <2>1. subCall[d].at \in Writing => subCall[d].id \in SubIds /\ rowLock[subCall[d].id] = d
    BY SubCallShape DEF SubsInv, Holds
  <2>. QED  BY <1>1, <1>2, <1>3, <2>1, SubOther
<1>7. \A j \in SubIds : RowOK(j)'
  BY <1>3, RowOther
<1>. QED  BY <1>4, <1>5, <1>6, <1>7 DEF SubsInv, StatusKept, Status

LEMMA CreateStep ==
  ASSUME SubsInv, NEW c \in SubCalls, NEW u \in SubUsers, Create(c, u)
  PROVE  SubsInv' /\ StatusKept
<1>1. PICK i \in SubIds : insert_submission(i, u) /\ SubGo(c, [at |-> "handle", id |-> i])
  BY DEF Create
<1>2. PICK stored \in SubRow : stored.status = "review" /\ submissions' = [submissions EXCEPT ![i] = stored]
  BY <1>1 DEF insert_submission, SubRow, Statuses
<1>3. /\ submissions' \in [SubIds -> {NoSub} \cup SubRow] /\ submissions'[i] = stored /\ stored # NoSub
      /\ \A j \in SubIds \ {i} : submissions'[j] = submissions[j]
      /\ submissions[i] = NoSub /\ UNCHANGED <<flags, rowLock, dismissed>>
  <2>1. stored # NoSub
    BY <1>2 DEF NoSub
  <2>2. submissions[i] = NoSub /\ UNCHANGED <<flags, rowLock, dismissed>>
    BY <1>1 DEF insert_submission, Stored, Create
  <2>. QED  BY <1>2, <2>1, <2>2 DEF SubsInv, SubsTyped
<1>4. \A j : FlagsOf(j)' = FlagsOf(j)
  BY <1>3 DEF FlagsOf
<1>5. PICK step \in SubCallType : step.at = "handle" /\ SubGo(c, step)
  BY <1>1 DEF SubCallType
<1>6. /\ subCall' \in [SubCalls -> SubCallType] /\ subCall'[c] = step
      /\ \A d \in SubCalls \ {c} : subCall'[d] = subCall[d]
  BY <1>5 DEF SubGo, SubsInv, SubsTyped
<1>7. SubsTyped'
  BY <1>3, <1>6 DEF SubsInv, SubsTyped, Stored
<1>8. Holds(c)'
  BY <1>5, <1>6 DEF Holds, Writing
<1>9. ASSUME NEW d \in SubCalls \ {c} PROVE Holds(d)'
  <2>1. subCall[d].at \in Writing => subCall[d].id \in SubIds \ {i}
    BY <1>3, SubCallShape DEF SubsInv, Holds, Stored
  <2>. QED  BY <1>3, <1>4, <1>6, <2>1, SubOther
<1>10. RowOK(i)'
  <2>1. FlagsOf(i) = {}
    BY <1>3 DEF FlagsOf, SubsInv, SubsTyped, Stored
  <2>2. FlagCount(i)' = 0
    BY <1>4, <2>1, FS_EmptySet DEF FlagCount, FlagsOf
  <2>. QED  BY <1>2, <1>3, <2>2, SubBounds DEF RowOK, Status
<1>11. \A j \in SubIds \ {i} : RowOK(j)'
  BY <1>3, <1>4, RowOther
<1>12. StatusKept
  BY <1>3 DEF StatusKept, Status, NoSub
<1>. QED  BY <1>7, <1>8, <1>9, <1>10, <1>11, <1>12 DEF SubsInv

(* The count under the lock is the count there will be.                    *)
LEMMA FlagCommitStep ==
  ASSUME SubsInv, NEW c \in SubCalls, FlagCommit(c)
  PROVE  SubsInv' /\ StatusKept
<1>1. PICK i \in SubIds, u \in SubUsers : i = subCall[c].id /\ u = subCall[c].user
  BY SubCallShape DEF FlagCommit, SubAt, FlagCall
<1>2. /\ rowLock[i] = c /\ Stored(i) /\ subCall[c].prior = Status(i)
      /\ subCall[c].others = Flaggers(i)
  BY <1>1 DEF SubsInv, Holds, FlagCommit, SubAt, Writing
<1>3. /\ flags' = flags \cup {<<i, u>>} /\ SubGo(c, Idle) /\ rowLock' = Unlocked(c)
      /\ dismissed' = dismissed
  BY <1>1 DEF FlagCommit
<1>4. /\ flags \subseteq flags' /\ flags' \subseteq flags \cup ({i} \X SubUsers) /\ IsFiniteSet(flags')
  <2>1. IsFiniteSet(flags)
    BY DEF SubsInv, SubsTyped
  <2>2. PICK f : f = <<i, u>>
    OBVIOUS
  <2>3. IsFiniteSet(flags \cup {f})
    BY <2>1, FS_AddElement
  <2>. QED  BY <1>3, <2>2, <2>3
<1>5. PICK stored \in SubRow : stored = submissions[i]
  BY <1>2 DEF SubsInv, SubsTyped, Stored
<1>6. CASE /\ u \notin Flaggers(i) /\ Status(i) = "review"
           /\ Cardinality(Flaggers(i) \cup {u}) >= FlagThreshold
  <2>1. submissions' = [submissions EXCEPT ![i].status = "flagged"]
    BY <1>1, <1>2, <1>6 DEF FlagCommit
  <2>2. PICK new \in SubRow : new.status = "flagged" /\ submissions' = [submissions EXCEPT ![i] = new]
    BY <1>5, <2>1 DEF SubRow, Statuses
  <2>3. /\ submissions' \in [SubIds -> {NoSub} \cup SubRow] /\ submissions'[i] = new
        /\ \A j \in SubIds \ {i} : submissions'[j] = submissions[j]
    BY <2>2 DEF SubsInv, SubsTyped
  <2>4. Stored(i)' /\ RowOK(i)'
    BY <2>2, <2>3 DEF Stored, RowOK, Status, NoSub
  <2>. QED  BY <1>2, <1>3, <1>4, <1>6, <2>3, <2>4, EndStep
<1>7. CASE ~ /\ u \notin Flaggers(i) /\ Status(i) = "review"
             /\ Cardinality(Flaggers(i) \cup {u}) >= FlagThreshold
  <2>1. submissions' = submissions
    BY <1>1, <1>2, <1>7 DEF FlagCommit
  <2>2. FlagsOf(i)' = FlagsOf(i) \cup {<<i, u>>}
    BY <1>3 DEF FlagsOf
  <2>3. Flaggers(i)' = Flaggers(i) \cup {u}
    <3>1. PICK G : G = FlagsOf(i)
      OBVIOUS
    <3>2. {f[2] : f \in G \cup {<<i, u>>}} = {f[2] : f \in G} \cup {u}
      <4>1. PICK e : e = <<i, u>>
        OBVIOUS
      <4>2. e[2] = u
        BY <4>1
      <4>3. {f[2] : f \in G \cup {e}} = {f[2] : f \in G} \cup {e[2]}
        BY Zenon
      <4>. QED  BY <4>1, <4>2, <4>3
    <3>. QED  BY <2>2, <3>1, <3>2 DEF Flaggers
  <2>4. FlagCount(i)' = Cardinality(Flaggers(i) \cup {u}) /\ FlagCount(i)' \in Nat
    <3>1. IsFiniteSet(FlagsOf(i)') /\ FlagsOf(i)' \subseteq {i} \X SubUsers
      BY <1>3, <1>4, <2>2, FS_Subset DEF FlagsOf, SubsInv, SubsTyped
    <3>2. Cardinality(FlagsOf(i)') = Cardinality(Flaggers(i)') /\ Cardinality(FlagsOf(i)') \in Nat
      BY <3>1, FlagsAreFlaggers DEF Flaggers
    <3>. QED  BY <2>3, <3>2 DEF FlagCount, FlagsOf
  <2>5. FlagCount(i) = Cardinality(Flaggers(i))
    <3>1. IsFiniteSet(FlagsOf(i)) /\ FlagsOf(i) \subseteq {i} \X SubUsers
      BY FS_Subset DEF FlagsOf, SubsInv, SubsTyped
    <3>2. Cardinality(FlagsOf(i)) = Cardinality(Flaggers(i))
      BY <3>1, FlagsAreFlaggers DEF Flaggers
    <3>. QED  BY <3>2 DEF FlagCount, FlagsOf
  <2>6. RowOK(i)'
    <3>1. CASE u \in Flaggers(i)
      <4>1. Flaggers(i) \cup {u} = Flaggers(i)
        BY <3>1
      <4>2. FlagCount(i)' = FlagCount(i)
        BY <2>4, <2>5, <4>1
      <4>. QED  BY <1>3, <2>1, <4>2 DEF SubsInv, RowOK, Status
    <3>2. CASE u \notin Flaggers(i)
      BY <1>3, <1>7, <2>1, <2>4, <3>2, SubBounds DEF SubsInv, RowOK, Status
    <3>. QED  BY <3>1, <3>2
  <2>7. Stored(i)' /\ submissions' \in [SubIds -> {NoSub} \cup SubRow] /\ Status(i)' = Status(i)
    BY <1>2, <2>1 DEF Stored, SubsInv, SubsTyped, Status
  <2>. QED  BY <1>2, <1>3, <1>4, <2>1, <2>6, <2>7, EndStep
<1>. QED  BY <1>6, <1>7

LEMMA WithdrawCommitStep ==
  ASSUME SubsInv, NEW c \in SubCalls, WithdrawCommit(c)
  PROVE  SubsInv' /\ StatusKept
<1>1. PICK i \in SubIds : i = subCall[c].id
  BY SubCallShape DEF WithdrawCommit, SubAt, Writing
<1>2. rowLock[i] = c /\ Stored(i) /\ Status(i) = "review"
  BY <1>1 DEF SubsInv, Holds, WithdrawCommit, SubAt, Writing
<1>3. PICK stored \in SubRow : stored = submissions[i]
  BY <1>2 DEF SubsInv, SubsTyped, Stored
<1>4. PICK new \in SubRow : new.status = "withdrawn" /\ submissions' = [submissions EXCEPT ![i] = new]
  BY <1>1, <1>3 DEF WithdrawCommit, SubRow, Statuses
<1>5. /\ submissions' \in [SubIds -> {NoSub} \cup SubRow] /\ submissions'[i] = new
      /\ \A j \in SubIds \ {i} : submissions'[j] = submissions[j]
  BY <1>4 DEF SubsInv, SubsTyped
<1>6. Stored(i)' /\ RowOK(i)'
  BY <1>4, <1>5 DEF Stored, RowOK, Status, NoSub
<1>7. flags' = flags /\ dismissed' = dismissed /\ IsFiniteSet(flags')
  BY DEF WithdrawCommit, SubsInv, SubsTyped
<1>. QED  BY <1>2, <1>5, <1>6, <1>7, EndStep DEF WithdrawCommit

(* A transition is from an open status, or writes nothing.                 *)
LEMMA TransitionCommitStep ==
  ASSUME SubsInv, NEW c \in SubCalls, TransitionCommit(c)
  PROVE  SubsInv' /\ StatusKept
<1>1. PICK i \in SubIds, to \in {"accepted", "rejected", "review"} : i = subCall[c].id /\ to = subCall[c].to
  BY SubCallShape DEF TransitionCommit, SubAt, WriteCall
<1>2. /\ rowLock[i] = c /\ Stored(i) /\ subCall[c].prior = Status(i)
      /\ Status(i) \in legal_priors[to]
  BY <1>1 DEF SubsInv, Holds, TransitionCommit, SubAt, Writing
<1>3. SubGo(c, Idle) /\ rowLock' = Unlocked(c) /\ flags' = flags /\ IsFiniteSet(flags')
  BY DEF TransitionCommit, SubsInv, SubsTyped
<1>4. CASE Status(i) = to
  <2>1. UNCHANGED <<submissions, dismissed>>
    BY <1>1, <1>2, <1>4 DEF TransitionCommit
  <2>. QED  BY <1>3, <2>1, EndQuietly
<1>5. CASE Status(i) # to
  <2>1. /\ submissions' = [submissions EXCEPT ![i].status = to, ![i].reason = @ \/ to = "rejected"]
        /\ dismissed' = IF to = "review" THEN dismissed \cup {i} ELSE dismissed
    BY <1>1, <1>2, <1>5 DEF TransitionCommit
  <2>2. PICK stored \in SubRow : stored = submissions[i]
    BY <1>2 DEF SubsInv, SubsTyped, Stored
  <2>3. PICK r \in BOOLEAN : r = (stored.reason \/ to = "rejected")
    BY Zenon
  <2>4. to = "rejected" => r
    BY <2>3, Zenon
  <2>5. PICK new \in SubRow : /\ new.status = to /\ new.reason = r
                             /\ submissions' = [submissions EXCEPT ![i] = new]
    <3>1. [stored EXCEPT !.status = to, !.reason = r] \in SubRow
      BY <2>2 DEF SubRow, Statuses
    <3>2. submissions' = [submissions EXCEPT ![i] = [stored EXCEPT !.status = to, !.reason = r]]
      BY <2>1, <2>2, <2>3 DEF SubRow, SubsInv, SubsTyped
    <3>. QED  BY <3>1, <3>2 DEF SubRow
  <2>6. /\ submissions' \in [SubIds -> {NoSub} \cup SubRow] /\ submissions'[i] = new
        /\ \A j \in SubIds \ {i} : submissions'[j] = submissions[j]
    BY <2>5 DEF SubsInv, SubsTyped
  <2>7. Stored(i)' /\ RowOK(i)' /\ dismissed \subseteq dismissed'
    <3>1. dismissed \subseteq dismissed' /\ (to = "review" => i \in dismissed')
      BY <2>1
    <3>2. Stored(i)' /\ Status(i)' = to
      BY <2>5, <2>6 DEF Stored, Status, NoSub
    <3>3. to = "rejected" => submissions'[i].reason
      BY <2>4, <2>5, <2>6
    <3>. QED  BY <3>1, <3>2, <3>3 DEF RowOK
  <2>8. Status(i) \in {"review", "flagged"}
    BY <1>2, <1>5 DEF legal_priors
  <2>. QED  BY <1>2, <1>3, <2>6, <2>7, <2>8, EndStep
<1>. QED  BY <1>4, <1>5

LEMMA SubsStep ==
  ASSUME SubsInv, [CommunityNext]_communityVars
  PROVE  SubsInv' /\ StatusKept
<1>1. CASE UNCHANGED subVars
  BY <1>1, SubsKept DEF subVars
<1>2. CASE SubsNext
  <2>1. CASE \E u \in Voters, i \in SubIds : vote_handler(i, u)
    BY <2>1, SubsKept DEF vote_handler
  <2>2. ASSUME NEW c \in SubCalls, lookup_handle(c) \/ SubCallDies(c) PROVE SubsInv' /\ StatusKept
    BY <2>2, EndQuietly DEF lookup_handle, SubCallDies, tables, SubAt, Writing
  <2>. QED  BY <1>2, <2>1, <2>2, CreateStep, FlagLockStep, WithdrawLockStep, TransitionLockStep,
               FlagCommitStep, WithdrawCommitStep, TransitionCommitStep DEF SubsNext, dismiss
<1>. QED  BY <1>1, <1>2 DEF CommunityNext, communityVars

LEMMA SubsAtFirst == CommunityInit => SubsInv
<1>. SUFFICES ASSUME CommunityInit PROVE SubsInv
  OBVIOUS
<1>1. SubsTyped
  BY FS_EmptySet DEF CommunityInit, SubsInit, SubsTyped, SubCallType
<1>2. \A c \in SubCalls : Holds(c)
  BY DEF CommunityInit, SubsInit, Holds, Idle, Writing
<1>3. \A i \in SubIds : RowOK(i)
  BY DEF CommunityInit, SubsInit, RowOK, Status, NoSub
<1>. QED  BY <1>1, <1>2, <1>3 DEF SubsInv

(* The list of rows by last update holds every row once, and a vote is     *)
(* about a row.                                                            *)
StoredIds == {i \in SubIds : Stored(i)}
ListInv ==
  /\ updated \in Seq(SubIds) /\ IsInjective(updated) /\ ToSet(updated) = StoredIds
  /\ votes \subseteq StoredIds \X SubUsers

(* A row that is updated moves to the front, or comes in there.            *)
LEMMA TouchStep ==
  ASSUME ListInv, NEW i \in SubIds, Touch(i)
  PROVE  /\ updated' \in Seq(SubIds) /\ IsInjective(updated')
         /\ ToSet(updated') = StoredIds \cup {i}
<1>. DEFINE rest == Filtered(updated, SubIds \ {i})
<1>1. /\ rest \in Seq(SubIds) /\ IsInjective(rest)
      /\ ToSet(rest) = ToSet(updated) \cap (SubIds \ {i})
  BY FilteredItems DEF ListInv
<1>2. updated' = <<i>> \o rest
  BY DEF Touch
<1>. HIDE DEF rest
<1>3. i \notin ToSet(rest)
  BY <1>1
<1>4. /\ updated' \in Seq(SubIds) /\ IsInjective(updated') /\ ToSet(updated') = {i} \cup ToSet(rest)
  BY <1>1, <1>2, <1>3, PrependItems
<1>5. {i} \cup (ToSet(updated) \cap (SubIds \ {i})) = StoredIds \cup {i}
  BY DEF ListInv, StoredIds
<1>. QED  BY <1>1, <1>4, <1>5

(* What a step may do to the list and the rows.                            *)
ListMove ==
  \/ updated' = updated /\ StoredIds' = StoredIds
  \/ \E i \in SubIds : Touch(i) /\ StoredIds' = StoredIds \cup {i}

LEMMA ListMoved ==
  ASSUME ListInv, ListMove, votes' \subseteq StoredIds' \X SubUsers
  PROVE  ListInv'
<1>1. CASE updated' = updated /\ StoredIds' = StoredIds
  BY <1>1 DEF ListInv
<1>2. ASSUME NEW i \in SubIds, Touch(i), StoredIds' = StoredIds \cup {i}
      PROVE  ListInv'
  BY <1>2, TouchStep DEF ListInv
<1>. QED  BY <1>1, <1>2 DEF ListMove

(* A row that is there stays there.                                        *)
LEMMA RowStays ==
  ASSUME SubsInv, NEW i \in SubIds, Stored(i), NEW r,
         submissions' = [submissions EXCEPT ![i] = r], r # NoSub
  PROVE  StoredIds' = StoredIds /\ StoredIds = StoredIds \cup {i}
BY DEF StoredIds, Stored, SubsInv, SubsTyped

LEMMA ListStep ==
  ASSUME SubsInv, ListInv, [CommunityNext]_communityVars
  PROVE  ListInv'
<1>1. CASE UNCHANGED <<updated, submissions, votes>>
  BY <1>1 DEF ListInv, StoredIds, Stored
<1>2. ASSUME NEW u \in Voters, NEW i \in SubIds, vote_handler(i, u)
      PROVE  ListInv'
  <2>1. StoredIds' = StoredIds
    BY <1>2 DEF vote_handler, StoredIds, Stored
  <2>2. CASE unvote(i, u)
    BY <2>1, <2>2, ListMoved DEF unvote, ListInv, ListMove
  <2>3. CASE vote(i, u)
    <3>1. i \in StoredIds /\ StoredIds \cup {i} = StoredIds /\ u \in SubUsers
      BY <2>3, SubBounds DEF vote, StoredIds
    <3>2. votes' \subseteq StoredIds' \X SubUsers
      BY <2>1, <2>3, <3>1 DEF vote, ListInv
    <3>3. ListMove
      BY <2>1, <2>3, <3>1 DEF vote, ListMove
    <3>. QED  BY <3>2, <3>3, ListMoved
  <2>. QED  BY <1>2, <2>2, <2>3 DEF vote_handler
<1>3. ASSUME NEW c \in SubCalls, NEW u \in SubUsers, Create(c, u)
      PROVE  ListInv'
  <2>1. PICK i \in SubIds : insert_submission(i, u)
    BY <1>3 DEF Create
  <2>2. Touch(i) /\ votes' = votes
    BY <1>3, <2>1 DEF Create, insert_submission
  <2>3. StoredIds' = StoredIds \cup {i}
    BY <2>1 DEF insert_submission, StoredIds, Stored, NoSub, SubsInv, SubsTyped
  <2>. QED  BY <2>2, <2>3, ListMoved DEF ListMove, ListInv
<1>4. ASSUME NEW c \in SubCalls, FlagCommit(c)
      PROVE  ListInv'
  <2>1. PICK i \in SubIds : i = subCall[c].id
    BY <1>4, SubCallShape DEF FlagCommit, SubAt, FlagCall
  <2>2. Stored(i) /\ votes' = votes
    BY <1>4, <2>1 DEF FlagCommit, SubsInv, Holds, SubAt, Writing
  <2>3. CASE UNCHANGED <<submissions, updated>>
    BY <1>1, <2>2, <2>3
  <2>4. CASE submissions' = [submissions EXCEPT ![i].status = "flagged"] /\ Touch(i)
    <3>1. [submissions[i] EXCEPT !.status = "flagged"] # NoSub
      BY <2>2 DEF SubsInv, SubsTyped, SubRow, Stored, NoSub
    <3>. QED  BY <2>2, <2>4, <3>1, RowStays, ListMoved DEF ListMove, ListInv
  <2>. QED  BY <1>4, <2>1, <2>3, <2>4 DEF FlagCommit
<1>5. ASSUME NEW c \in SubCalls, WithdrawCommit(c)
      PROVE  ListInv'
  <2>1. PICK i \in SubIds : i = subCall[c].id
    BY <1>5, SubCallShape DEF WithdrawCommit, SubAt, Writing
  <2>2. Stored(i) /\ votes' = votes /\ Touch(i)
        /\ submissions' = [submissions EXCEPT ![i].status = "withdrawn"]
    BY <1>5, <2>1 DEF WithdrawCommit
  <2>3. [submissions[i] EXCEPT !.status = "withdrawn"] # NoSub
    BY <2>2 DEF SubsInv, SubsTyped, SubRow, Stored, NoSub
  <2>. QED  BY <2>2, <2>3, RowStays, ListMoved DEF ListMove, ListInv
<1>6. ASSUME NEW c \in SubCalls, TransitionCommit(c)
      PROVE  ListInv'
  <2>1. PICK i \in SubIds : i = subCall[c].id
    BY <1>6, SubCallShape DEF TransitionCommit, SubAt, WriteCall
  <2>2. Stored(i) /\ votes' = votes
    BY <1>6, <2>1 DEF TransitionCommit
  <2>3. CASE UNCHANGED <<submissions, updated>>
    BY <1>1, <2>2, <2>3
  <2>4. ASSUME NEW to, Touch(i),
               submissions' = [submissions EXCEPT ![i].status = to, ![i].reason = @ \/ to = "rejected"]
        PROVE  ListInv'
    <3>1. PICK r : r = (submissions[i].reason \/ to = "rejected")
      OBVIOUS
    <3>2. submissions' = [submissions EXCEPT ![i] = [submissions[i] EXCEPT !.status = to, !.reason = r]]
      BY <2>2, <2>4, <3>1 DEF SubsInv, SubsTyped, SubRow, Stored
    <3>3. [submissions[i] EXCEPT !.status = to, !.reason = r] # NoSub
      BY <2>2 DEF SubsInv, SubsTyped, SubRow, Stored, NoSub
    <3>. QED  BY <2>2, <2>4, <3>2, <3>3, RowStays, ListMoved DEF ListMove, ListInv
  <2>. QED  BY <1>6, <2>1, <2>3, <2>4 DEF TransitionCommit
<1>7. CASE UNCHANGED subVars
  BY <1>1, <1>7 DEF subVars
<1>8. CASE SubsNext
  <2>1. ASSUME NEW c \in SubCalls, lookup_handle(c) \/ SubCallDies(c) PROVE ListInv'
    BY <1>1, <2>1 DEF lookup_handle, SubCallDies, tables
  <2>2. ASSUME NEW c \in SubCalls, NEW i \in SubIds, NEW u \in SubUsers,
               FlagLock(c, i, u) \/ WithdrawLock(c, i, u)
        PROVE  ListInv'
    BY <1>1, <2>2 DEF FlagLock, WithdrawLock, tables
  <2>3. ASSUME NEW c \in SubCalls, NEW i \in SubIds, NEW to, TransitionLock(c, i, to) PROVE ListInv'
    BY <1>1, <2>3 DEF TransitionLock, tables
  <2>. QED  BY <1>2, <1>3, <1>4, <1>5, <1>6, <1>8, <2>1, <2>2, <2>3 DEF SubsNext, dismiss
<1>. QED  BY <1>7, <1>8 DEF CommunityNext, communityVars

LEMMA ListAtFirst == CommunityInit => ListInv
<1>. SUFFICES ASSUME CommunityInit PROVE ListInv
  OBVIOUS
<1>1. updated = <<>> /\ votes = {} /\ StoredIds = {}
  BY DEF CommunityInit, SubsInit, StoredIds, Stored
<1>. QED  BY <1>1 DEF ListInv, IsInjective, ToSet

-----------------------------------------------------------------------------
(* The page of the rows after o: L of them, and whether there is one more. *)
IsPage(page, listed, L, o) ==
  LET items == SubSeq(page, 1, IF Len(page) > L THEN L ELSE Len(page))
  IN /\ Len(page) > L <=> o + L < Len(listed)
     /\ ToSet(items) = {listed[q] : q \in {q \in 1..Len(listed) : o < q /\ q <= o + L}}
     /\ IsInjective(listed) => IsInjective(items)

LEMMA OnePage ==
  ASSUME NEW A, NEW listed \in Seq(A), NEW L \in Nat \ {0}, NEW o \in 0..Len(listed)
  PROVE  IsPage(PageOfRows(listed, L + 1, o), listed, L, o)
<1>. DEFINE n == Len(listed)
            last == IF o + (L + 1) > n THEN n ELSE o + (L + 1)
            page == PageOfRows(listed, L + 1, o)
            e == IF Len(page) > L THEN L ELSE Len(page)
            items == SubSeq(page, 1, e)
<1>1. n \in Nat /\ o \in Nat /\ o <= n /\ last \in o..n
  OBVIOUS
<1>2. page = SubSeq(listed, o + 1, last)
  BY DEF PageOfRows
<1>3. o + 1 \in 1..(n + 1) /\ last \in (o + 1 - 1)..n /\ last - (o + 1) + 1 = last - o
  BY <1>1
<1>4. /\ page \in Seq(A) /\ Len(page) = last - o
      /\ \A k \in 1..(last - o) : page[k] = listed[o + 1 + k - 1]
      /\ IsInjective(listed) => IsInjective(page)
  <2>. HIDE DEF last, page
  <2>1. IsPart(page, A, listed, o + 1, last)
    BY <1>2, <1>3, PartItems
  <2>. QED  BY <1>3, <2>1 DEF IsPart
<1>5. Len(page) > L <=> o + L < n
  BY <1>1, <1>4
<1>6. e \in 0..Len(page) /\ o + e \in o..n /\ \A q \in 1..n : o < q => (q <= o + e <=> q <= o + L)
  BY <1>1, <1>4
<1>. HIDE DEF page, e, last
<1>7. /\ ToSet(items) = {page[k] : k \in 1..e}
      /\ IsInjective(page) => IsInjective(items)
  <2>1. 1 \in 1..(Len(page) + 1) /\ e \in (1 - 1)..Len(page)
    BY <1>4, <1>6
  <2>2. IsPart(items, A, page, 1, e)
    BY <1>4, <2>1, PartItems
  <2>. QED  BY <2>2 DEF IsPart
<1>8. {page[k] : k \in 1..e} = {listed[q] : q \in {q \in 1..n : o < q /\ q <= o + L}}
  <2>1. ASSUME NEW k \in 1..e
        PROVE  o + k \in {q \in 1..n : o < q /\ q <= o + L} /\ page[k] = listed[o + k]
    BY <1>1, <1>4, <1>6
  <2>2. ASSUME NEW q \in 1..n, o < q, q <= o + L
        PROVE  q - o \in 1..e /\ page[q - o] = listed[q]
    BY <1>1, <1>4, <1>6, <2>2
  <2>. QED  BY <2>1, <2>2
<1>. QED  BY <1>4, <1>5, <1>7, <1>8 DEF page, e, IsPage

(* The queue, page by page, shows what waits and nothing twice.            *)
LEMMA PagesCover ==
  ASSUME ListInv, SubsInv, NEW filter \in DOMAIN QueueStatuses, NEW L \in QueueLimits
  PROVE  LET page(k) == queue(filter, L, k * L)
             pages == {k \in 0..MaxSubmissions : \A j \in 0..(k - 1) : page(j).has_more}
             shown(k) == ToSet(page(k).items)
         IN /\ UNION {shown(k) : k \in pages} = {i \in SubIds : Status(i) \in QueueStatuses[filter]}
            /\ \A j, k \in pages : j # k => shown(j) \cap shown(k) = {}
            /\ \A k \in pages : IsInjective(page(k).items)
<1>. DEFINE waiting == {i \in SubIds : Status(i) \in QueueStatuses[filter]}
            listed == Filtered(updated, waiting)
            n == Len(listed)
            page(k) == queue(filter, L, k * L)
            shown(k) == ToSet(page(k).items)
            pages == {k \in 0..MaxSubmissions : \A j \in 0..(k - 1) : page(j).has_more}
            Places(k) == {q \in 1..n : k * L < q /\ q <= k * L + L}
<1>1. L \in Nat \ {0} /\ MaxSubmissions \in Nat
  BY SubBounds
<1>2. listed \in Seq(SubIds) /\ IsInjective(listed) /\ ToSet(listed) = waiting
  <2>1. listed \in Seq(SubIds) /\ IsInjective(listed) /\ ToSet(listed) = ToSet(updated) \cap waiting
    BY FilteredItems DEF ListInv
  <2>2. \A i \in waiting : Stored(i)
    BY DEF QueueStatuses, Stored, Status, NoSub
  <2>. QED  BY <2>1, <2>2 DEF ListInv, StoredIds
<1>3. n \in Nat /\ n <= MaxSubmissions
  <2>1. IsFiniteSet(SubIds) /\ Cardinality(SubIds) = MaxSubmissions
    BY <1>1, FS_Interval DEF SubIds
  <2>. HIDE DEF listed
  <2>. QED  BY <1>2, <2>1, InjectiveLength
<1>. HIDE DEF listed, waiting
<1>4. ASSUME NEW k \in Nat, k * L \in Nat, k * L <= n
      PROVE  /\ page(k).has_more <=> k * L + L < n
             /\ shown(k) = {listed[q] : q \in Places(k)}
             /\ IsInjective(page(k).items)
  <2>. DEFINE p == PageOfRows(listed, L + 1, k * L)
              items == SubSeq(p, 1, IF Len(p) > L THEN L ELSE Len(p))
              more == Len(p) > L
  <2>1. page(k) = [items |-> items, has_more |-> more]
    BY DEF queue, listed, waiting
  <2>2. k * L \in 0..Len(listed)
    BY <1>3, <1>4
  <2>. HIDE DEF page
  <2>3. IsPage(PageOfRows(listed, L + 1, k * L), listed, L, k * L)
    BY <1>1, <1>2, <2>2, OnePage
  <2>4. /\ more <=> k * L + L < n
        /\ ToSet(items) = {listed[q] : q \in Places(k)}
        /\ IsInjective(items)
    BY <1>2, <2>3 DEF IsPage
  <2>. HIDE DEF items, p, more
  <2>5. page(k).items = items /\ page(k).has_more = more
    BY <2>1
  <2>. QED  BY <2>4, <2>5, Zenon
<1>. HIDE DEF n, page
<1>5. ASSUME NEW k \in pages
      PROVE  k \in Nat /\ k * L \in Nat /\ k * L <= n
  <2>. DEFINE P == {j \in 0..k : j * L \in Nat /\ j * L <= n}
  <2>1. 0 \in P
    BY <1>1, <1>3, <1>5
  <2>2. ASSUME NEW j \in 1..k, j - 1 \in P PROVE j \in P
    <3>1. page(j - 1).has_more
      BY <1>5
    <3>2. j - 1 \in Nat /\ (j - 1) * L + L < n
      BY <1>4, <2>2, <3>1
    <3>3. j * L = (j - 1) * L + L
      BY <1>1
    <3>. QED  BY <1>1, <1>3, <2>2, <3>2, <3>3
  <2>3. k \in Nat /\ k \in P
    <3>. HIDE DEF P
    <3>1. \A j \in 0..k : j \in P
      BY <1>5, <2>1, <2>2, UpTo
    <3>. QED  BY <1>5, <3>1
  <2>. QED  BY <2>3
<1>6. ASSUME NEW q \in 1..n
      PROVE  \E k \in pages : q \in Places(k)
  <2>1. PICK k \in 0..(q - 1) : k * L \in Nat /\ k * L <= q - 1 /\ q - 1 < k * L + L
    <3>1. q - 1 \in Nat
      BY <1>3, <1>6
    <3>. QED  BY <1>1, <3>1, PageHas
  <2>2. ASSUME NEW j \in 0..(k - 1) PROVE page(j).has_more
    <3>1. j * L \in Nat /\ j * L + L <= k * L /\ j \in Nat
      BY <1>1, PagesGrow
    <3>2. j * L + L < n /\ j * L <= n
      BY <1>1, <1>3, <2>1, <3>1
    <3>. QED  BY <1>4, <3>1, <3>2
  <2>3. k \in 0..MaxSubmissions
    BY <1>1, <1>3
  <2>4. q \in Places(k)
    BY <1>1, <1>3, <2>1
  <2>. HIDE DEF Places
  <2>. QED  BY <2>2, <2>3, <2>4
<1>7. UNION {shown(k) : k \in pages} = waiting
  <2>1. ASSUME NEW k \in pages, NEW i \in shown(k) PROVE i \in waiting
    <3>1. PICK q \in Places(k) : i = listed[q]
      BY <1>4, <1>5, <2>1
    <3>. QED  BY <1>2, <3>1 DEF ToSet, n
  <2>2. ASSUME NEW i \in waiting PROVE \E k \in pages : i \in shown(k)
    <3>1. PICK q \in 1..n : listed[q] = i
      BY <1>2, <2>2 DEF ToSet, n
    <3>2. PICK k \in pages : q \in Places(k)
      BY <1>6
    <3>3. i \in shown(k)
      BY <1>4, <1>5, <3>1, <3>2
    <3>. HIDE DEF shown, pages
    <3>. QED  BY <3>3
  <2>. HIDE DEF shown, pages
  <2>. QED  BY <2>1, <2>2
<1>8. ASSUME NEW j \in pages, NEW k \in pages, j < k PROVE shown(j) \cap shown(k) = {}
  <2>1. j * L \in Nat /\ k * L \in Nat /\ j * L + L <= k * L
    BY <1>1, <1>5, <1>8, PagesGrow
  <2>2. \A q \in Places(j), r \in Places(k) : q # r /\ listed[q] # listed[r]
    BY <1>1, <1>2, <1>3, <2>1 DEF IsInjective, n
  <2>3. shown(j) = {listed[q] : q \in Places(j)} /\ shown(k) = {listed[q] : q \in Places(k)}
    BY <1>4, <1>5
  <2>. HIDE DEF shown, Places
  <2>. QED  BY <2>2, <2>3
<1>9. \A j, k \in pages : j # k => shown(j) \cap shown(k) = {}
  <2>1. \A j, k \in pages : j # k => j < k \/ k < j
    BY <1>5
  <2>. HIDE DEF shown, pages
  <2>. QED  BY <1>8, <2>1
<1>10. \A k \in pages : IsInjective(page(k).items)
  BY <1>4, <1>5
<1>. QED  BY <1>7, <1>9, <1>10 DEF page, waiting

(* The queue of submissions is complete: what waits is shown, once, to who *)
(* turns the pages (list_admin_queue); the list by last update, on which   *)
(* it is built, holds every submission once.                               *)
THEOREM QueueShowsAll == CommunitySpec => [](SubsTypeOK /\ QueueComplete)
<1>1. SubsInv /\ ListInv => SubsTypeOK /\ QueueComplete
  <2>. SUFFICES ASSUME SubsInv, ListInv PROVE SubsTypeOK /\ QueueComplete
    OBVIOUS
  <2>1. SubsTypeOK
    BY DEF SubsTypeOK, SubsInv, SubsTyped, SubRow, ListInv, StoredIds
  <2>2. QueueComplete
    BY PagesCover, Zenon DEF QueueComplete
  <2>. QED  BY <2>1, <2>2
<1>2. SubsInv /\ ListInv /\ [CommunityNext]_communityVars => SubsInv' /\ ListInv'
  BY SubsStep, ListStep
<1>. QED  BY <1>1, <1>2, SubsAtFirst, ListAtFirst, PTL DEF CommunitySpec

(* However the flags of a submission are given, the one that reaches the   *)
(* threshold takes it out of review, unless flags of it were dismissed.    *)
THEOREM FlagsEscalate == CommunitySpec => []FlaggedInTime
<1>1. SubsInv => FlaggedInTime
  BY DEF SubsInv, RowOK, FlaggedInTime
<1>2. SubsInv /\ [CommunityNext]_communityVars => SubsInv'
  BY SubsStep
<1>. QED  BY <1>1, <1>2, SubsAtFirst, PTL DEF CommunitySpec

(* A decided submission keeps its status and a rejected one its reason; a  *)
(* code that is still good is replaced only by a start that overlapped the *)
(* one that issued it (admin_transition, withdraw, flag; start).           *)
THEOREM DecisionsKept == CommunitySpec => DecisionsStay
<1>1. SubsInv /\ SubsInv' /\ [CommunityNext]_communityVars => DecidedKept
  <2>. SUFFICES ASSUME SubsInv, SubsInv', [CommunityNext]_communityVars PROVE DecidedKept
    OBVIOUS
  <2>1. StatusKept /\ \A i \in SubIds : Status(i)' = "rejected" => submissions'[i].reason
    BY SubsStep DEF SubsInv, RowOK, Status
  <2>. QED  BY <2>1 DEF DecidedKept, StatusKept
<1>2. RsiInv /\ [CommunityNext]_communityVars => CodeKept
  <2>. SUFFICES ASSUME RsiInv, [CommunityNext]_communityVars,
                       rsiRow.code # NoCode, rsiRow.expires > rsiClock,
                       rsiRow'.code \notin {rsiRow.code, NoCode}
                PROVE  \E c \in RsiCalls : rsiCall[c].at = "set" /\ rsiCall[c].seen < rsiRow.code
    BY DEF CodeKept
  <2>1. RsiNext
    BY DEF CommunityNext, communityVars, rsiVars
  <2>2. PICK c \in RsiCalls : set_rsi_verify_code(c)
    <3>1. rsiRow' # rsiRow
      OBVIOUS
    <3>2. \A c \in RsiCalls : ~mark_rsi_verified(c)
      BY DEF mark_rsi_verified
    <3>. QED  BY <2>1, <3>1, <3>2 DEF RsiNext, BioEdited, RsiTick, StartRead, VerifyRead, CheckAnswered,
                ProfileStart, ProfileSave, OrgsStart, OrgsSave, OrgsFail
  <2>3. rsiCall[c].at = "set" /\ ~(rsiRow.expires <= rsiClock)
    BY <2>2 DEF set_rsi_verify_code, RsiInv, RsiTyped, RsiTypeOK
  <2>. QED  BY <2>3 DEF RsiInv, RsiCallOK
<1>3. SubsInv /\ [CommunityNext]_communityVars => SubsInv'
  BY SubsStep
<1>4. /\ SubsInv /\ SubsInv' /\ RsiInv /\ [CommunityNext]_communityVars
      => [(part = "submissions" => DecidedKept) /\ (part = "rsi" => CodeKept)]_communityVars
  BY <1>1, <1>2
<1>. QED  BY <1>3, <1>4, SubsAtFirst, RsiAtFirst, RsiStep, PTL DEF CommunitySpec, DecisionsStay
-----------------------------------------------------------------------------
(* Organisations.                                                          *)
LEMMA OrgCallShape ==
  ASSUME OrgsTyped, NEW c \in OrgCalls
  PROVE  /\ orgCall[c].at # "free" => orgCall[c].slug \in Slugs
         /\ orgCall[c].at = "create" => orgCall[c] \in CreateCall
         /\ orgCall[c].at \in {"wipe", "row"} => orgCall[c] \in DeleteCall
         /\ orgCall[c].at = "add" => orgCall[c] \in AddCall
         /\ orgCall[c].at = "remove" => orgCall[c] \in RemoveCall
  BY DEF OrgsTyped, OrgCallType, FreeCall, CreateCall, DeleteCall, AddCall, RemoveCall

LEMMA RolesAre == Roles = {"owner", "admin", "member"} /\ FirstRoles(3) = Roles /\ Len(RoleOrder) = 3
<1>1. Len(RoleOrder) = 3 /\ RoleOrder[1] = "owner" /\ RoleOrder[2] = "admin" /\ RoleOrder[3] = "member"
  BY DEF RoleOrder
<1>2. 1..3 = {1, 2, 3}
  OBVIOUS
<1>3. FirstRoles(3) = {"owner", "admin", "member"}
  BY <1>1, <1>2 DEF FirstRoles
<1>. QED  BY <1>1, <1>3 DEF Roles

(* A slug that a step does not concern.                                    *)
LEMMA OrgOther ==
  ASSUME NEW s \in Slugs, SlugClean(s),
         organizations'[s] = organizations[s], RelsOf(s)' = RelsOf(s), s \in ownerless => s \in ownerless',
         \A c \in OrgCalls :
           \/ orgCall'[c] = orgCall[c]
           \/ c \notin BusyWith(s) /\ (orgCall'[c].at = "free" \/ orgCall'[c].slug # s)
  PROVE  SlugClean(s)'
<1>1. /\ BusyWith(s)' = BusyWith(s)
      /\ \A c \in BusyWith(s) : orgCall'[c] = orgCall[c]
  BY DEF BusyWith, Doing
<1>2. (OwnerHolds(s)' <=> OwnerHolds(s)) /\ (Exists(s)' <=> Exists(s))
  BY DEF OwnerHolds, Exists
<1>. QED  BY <1>1, <1>2 DEF SlugClean

(* A step of one request about s.                                          *)
LEMMA OrgOneCall ==
  ASSUME OrgsInv, OrgsTyped', NEW c \in OrgCalls, NEW s \in Slugs,
         \A d \in OrgCalls \ {c} : orgCall'[d] = orgCall[d],
         orgCall[c].at = "free" \/ orgCall[c].slug = s,
         orgCall'[c].at = "free" \/ orgCall'[c].slug = s,
         \A t \in Slugs \ {s} : organizations'[t] = organizations[t] /\ RelsOf(t)' = RelsOf(t),
         ownerless \subseteq ownerless', leftovers \subseteq leftovers',
         s \notin leftovers' => SlugClean(s)'
  PROVE  OrgsInv'
<1>1. ASSUME NEW t \in Slugs \ leftovers', t # s PROVE SlugClean(t)'
  <2>1. SlugClean(t) /\ c \notin BusyWith(t)
    BY <1>1 DEF OrgsInv, BusyWith, Doing
  <2>. QED  BY <1>1, <2>1, OrgOther
<1>. QED  BY <1>1 DEF OrgsInv

LEMMA OrgsKept ==
  ASSUME OrgsInv, UNCHANGED orgVars
  PROVE  OrgsInv'
<1>1. \A s \in Slugs \ leftovers' : SlugClean(s)'
  BY OrgOther DEF OrgsInv, orgVars, RelsOf
<1>. QED  BY <1>1 DEF OrgsInv, orgVars, OrgsTyped, OrgsTypeOK

(* A request that starts is alone, or the slug is noted.                   *)
LEMMA OrgStarts ==
  ASSUME OrgsInv, NEW c \in OrgCalls, NEW s \in Slugs, NEW step \in OrgCallType,
         step.at # "free", step.slug = s, OrgStart(c, s, step)
  PROVE  /\ orgCall' \in [OrgCalls -> OrgCallType] /\ orgCall[c].at = "free" /\ orgCall'[c] = step
         /\ \A d \in OrgCalls \ {c} : orgCall'[d] = orgCall[d]
         /\ leftovers \subseteq leftovers' /\ leftovers' \subseteq Slugs
         /\ s \notin leftovers' => /\ SlugClean(s) /\ BusyWith(s) = {} /\ BusyWith(s)' = {c}
<1>1. /\ orgCall' \in [OrgCalls -> OrgCallType] /\ orgCall[c].at = "free" /\ orgCall'[c] = step
      /\ \A d \in OrgCalls \ {c} : orgCall'[d] = orgCall[d]
  BY DEF OrgStart, OrgsInv, OrgsTyped, Doing
<1>2. leftovers \subseteq leftovers' /\ leftovers' \subseteq Slugs
  BY DEF OrgStart, OrgsInv, OrgsTyped, OrgsTypeOK
<1>3. s \notin leftovers' => BusyWith(s) = {}
  BY DEF OrgStart, BusyWith, Doing
<1>4. BusyWith(s) = {} => BusyWith(s)' = {c}
  BY <1>1 DEF BusyWith, Doing
<1>. QED  BY <1>1, <1>2, <1>3, <1>4 DEF OrgsInv

(* One that starts and writes nothing yet.                                 *)
LEMMA OrgStartStep ==
  ASSUME OrgsInv, NEW c \in OrgCalls, NEW s \in Slugs, NEW step \in OrgCallType,
         step.at \in {"wipe", "add", "remove"}, step.slug = s, OrgStart(c, s, step),
         Exists(s), step.at # "remove" => step.id = organizations[s].id,
         UNCHANGED <<organizations, relations, orgRevision, orgIds, ownerless>>
  PROVE  OrgsInv'
<1>1. /\ orgCall' \in [OrgCalls -> OrgCallType] /\ orgCall[c].at = "free" /\ orgCall'[c] = step
      /\ \A d \in OrgCalls \ {c} : orgCall'[d] = orgCall[d]
      /\ leftovers \subseteq leftovers' /\ leftovers' \subseteq Slugs
      /\ s \notin leftovers' => /\ SlugClean(s) /\ BusyWith(s) = {} /\ BusyWith(s)' = {c}
  BY OrgStarts
<1>2. organizations[s].id \in 1..orgIds
  BY DEF OrgsInv, OrgsTyped, OrgsTypeOK, Exists
<1>3. OrgsTyped'
  BY <1>1, <1>2 DEF OrgsInv, OrgsTyped, OrgsTypeOK, WithId
<1>4. \A t : RelsOf(t)' = RelsOf(t) /\ (OwnerHolds(t)' <=> OwnerHolds(t)) /\ (Exists(t)' <=> Exists(t))
  BY DEF RelsOf, OwnerHolds, Exists
<1>5. s \notin leftovers' => SlugClean(s)'
  BY <1>1, <1>4 DEF SlugClean, WithId
<1>. QED  BY <1>1, <1>3, <1>4, <1>5, OrgOneCall

LEMMA DeleteStartStep ==
  ASSUME OrgsInv, NEW c \in OrgCalls, NEW s \in Slugs, DeleteStart(c, s) \/ AdminDeleteStart(c, s)
  PROVE  OrgsInv'
<1>1. organizations[s].id \in Nat
  BY DEF OrgsInv, OrgsTyped, OrgsTypeOK, Exists, DeleteStart, AdminDeleteStart
<1>2. PICK step \in OrgCallType :
        step.at = "wipe" /\ step.slug = s /\ step.id = organizations[s].id /\ OrgStart(c, s, step)
  BY <1>1 DEF DeleteStart, AdminDeleteStart, OrgCallType, DeleteCall
<1>. QED  BY <1>2, OrgStartStep DEF DeleteStart, AdminDeleteStart

LEMMA AddCheckStep ==
  ASSUME OrgsInv, NEW c \in OrgCalls, NEW s \in Slugs, NEW by, NEW h \in Members, NEW role,
         AddCheck(c, by, h, s, role)
  PROVE  OrgsInv'
<1>1. organizations[s].id \in Nat /\ role \in {"admin", "member"}
  BY DEF OrgsInv, OrgsTyped, OrgsTypeOK, Exists, AddCheck
<1>2. PICK step \in OrgCallType :
        step.at = "add" /\ step.slug = s /\ step.id = organizations[s].id /\ OrgStart(c, s, step)
  BY <1>1 DEF AddCheck, OrgCallType, AddCall
<1>. QED  BY <1>2, OrgStartStep DEF AddCheck

LEMMA RemoveCheckStep ==
  ASSUME OrgsInv, NEW c \in OrgCalls, NEW s \in Slugs, NEW by, NEW h \in Members, RemoveCheck(c, by, h, s)
  PROVE  OrgsInv'
<1>1. PICK step \in OrgCallType : step.at = "remove" /\ step.slug = s /\ OrgStart(c, s, step)
  BY DEF RemoveCheck, OrgCallType, RemoveCall
<1>. QED  BY <1>1, OrgStartStep DEF RemoveCheck

(* A slug without a row has no relations: they would be of an organisation *)
(* that has it.                                                            *)
LEMMA CreateRowStep ==
  ASSUME OrgsInv, NEW c \in OrgCalls, NEW s \in Slugs, NEW h \in Members, CreateRow(c, h, s)
  PROVE  OrgsInv'
<1>1. PICK n \in Nat : n = orgIds + 1 /\ orgIds' = n /\ n \in 1..n /\ orgIds \in Nat
  BY DEF CreateRow, insert_org, OrgsInv, OrgsTyped
<1>2. PICK stored \in [id : 1..n, owner : Members] :
        stored.id = n /\ stored.owner = h /\ organizations' = [organizations EXCEPT ![s] = stored]
  BY <1>1 DEF CreateRow, insert_org
<1>3. PICK step \in OrgCallType : /\ step.at = "create" /\ step.slug = s /\ step.id = n /\ step.by = h
                                  /\ OrgStart(c, s, step)
  BY <1>1 DEF CreateRow, OrgCallType, CreateCall
<1>4. /\ orgCall' \in [OrgCalls -> OrgCallType] /\ orgCall[c].at = "free" /\ orgCall'[c] = step
      /\ \A d \in OrgCalls \ {c} : orgCall'[d] = orgCall[d]
      /\ leftovers \subseteq leftovers' /\ leftovers' \subseteq Slugs
      /\ s \notin leftovers' => /\ SlugClean(s) /\ BusyWith(s) = {} /\ BusyWith(s)' = {c}
  BY <1>3, OrgStarts
<1>5. /\ UNCHANGED <<relations, orgRevision, ownerless>> /\ organizations[s] = NoOrg
      /\ \A t : RelsOf(t)' = RelsOf(t)
  BY DEF CreateRow, insert_org, Exists, RelsOf
<1>6. /\ organizations' \in [Slugs -> {NoOrg} \cup [id : 1..n, owner : Members]]
      /\ organizations'[s] = stored /\ \A t \in Slugs \ {s} : organizations'[t] = organizations[t]
  BY <1>1, <1>2 DEF OrgsInv, OrgsTyped, OrgsTypeOK
<1>7. OrgsTyped'
  BY <1>1, <1>3, <1>4, <1>5, <1>6 DEF OrgsInv, OrgsTyped, OrgsTypeOK
<1>8. ASSUME s \notin leftovers' PROVE SlugClean(s)'
  <2>1. RelsOf(s) = {}
    BY <1>1, <1>4, <1>5, <1>8 DEF SlugClean, RelsOf, NoOrg, OrgsInv, OrgsTyped, OrgsTypeOK
  <2>. QED  BY <1>2, <1>3, <1>4, <1>5, <1>6, <1>8, <2>1 DEF SlugClean
<1>. QED  BY <1>3, <1>4, <1>5, <1>6, <1>7, <1>8, OrgOneCall

(* A request that ends was alone, unless the slug is noted.                *)
LEMMA OrgEnds ==
  ASSUME OrgsInv, NEW c \in OrgCalls, NEW s \in Slugs, orgCall[c].at # "free", s = orgCall[c].slug,
         OrgDone(c)
  PROVE  /\ orgCall' \in [OrgCalls -> OrgCallType] /\ orgCall'[c].at = "free"
         /\ \A d \in OrgCalls \ {c} : orgCall'[d] = orgCall[d]
         /\ \A d \in OrgCalls : orgCall'[d].at \in WithId => orgCall'[d] = orgCall[d]
         /\ c \in BusyWith(s)
         /\ s \notin leftovers => SlugClean(s) /\ BusyWith(s) = {c} /\ BusyWith(s)' = {}
<1>1. /\ orgCall' \in [OrgCalls -> OrgCallType] /\ orgCall'[c].at = "free"
      /\ \A d \in OrgCalls \ {c} : orgCall'[d] = orgCall[d]
  BY DEF OrgDone, OrgsInv, OrgsTyped, OrgCallType, FreeCall
<1>2. c \in BusyWith(s)
  BY DEF BusyWith, Doing
<1>3. s \notin leftovers => SlugClean(s) /\ BusyWith(s) = {c}
  BY <1>2 DEF OrgsInv, SlugClean
<1>4. BusyWith(s) = {c} => BusyWith(s)' = {}
  BY <1>1 DEF BusyWith, Doing
<1>. QED  BY <1>1, <1>2, <1>3, <1>4 DEF WithId

(* One that ends and writes a relation.                                    *)
LEMMA WriteRole ==
  ASSUME OrgsInv, NEW c \in OrgCalls, NEW s \in Slugs, NEW h \in Members, NEW role \in Roles, NEW id,
         orgCall[c].at \in {"create", "add"}, orgCall[c].slug = s, orgCall[c].id = id,
         orgCall[c].at = "create" => role = "owner" /\ h = orgCall[c].by,
         orgCall[c].at = "add" => role # "owner",
         OrgDone(c), write_org_role(s, h, role, id),
         UNCHANGED <<organizations, orgRevision, orgIds, leftovers, ownerless>>
  PROVE  OrgsInv'
<1>1. /\ orgCall' \in [OrgCalls -> OrgCallType] /\ orgCall'[c].at = "free"
      /\ \A d \in OrgCalls \ {c} : orgCall'[d] = orgCall[d]
      /\ \A d \in OrgCalls : orgCall'[d].at \in WithId => orgCall'[d] = orgCall[d]
      /\ c \in BusyWith(s)
      /\ s \notin leftovers => SlugClean(s) /\ BusyWith(s) = {c} /\ BusyWith(s)' = {}
  BY OrgEnds
<1>2. id \in 1..orgIds
  BY DEF OrgsInv, OrgsTyped, WithId
<1>3. PICK new \in [slug : Slugs, role : Roles, handle : Members, for : 1..orgIds] :
        /\ new.slug = s /\ new.role = role /\ new.handle = h /\ new.for = id
        /\ relations' = {rel \in relations : ~(rel.slug = s /\ rel.role = role /\ rel.handle = h)} \cup {new}
  BY <1>2 DEF write_org_role
<1>4. IsFiniteSet(relations')
  <2>1. PICK S : S = {rel \in relations : ~(rel.slug = s /\ rel.role = role /\ rel.handle = h)}
    OBVIOUS
  <2>2. IsFiniteSet(S)
    BY <2>1, FS_Subset DEF OrgsInv, OrgsTyped
  <2>3. IsFiniteSet(S \cup {new})
    BY <2>2, FS_AddElement
  <2>. QED  BY <1>3, <2>1, <2>3
<1>5. OrgsTyped'
  BY <1>1, <1>3, <1>4 DEF OrgsInv, OrgsTyped, OrgsTypeOK
<1>6. \A t \in Slugs \ {s} : RelsOf(t)' = RelsOf(t)
  BY <1>3 DEF RelsOf
<1>7. ASSUME s \notin leftovers PROVE SlugClean(s)'
  <2>1. SlugClean(s) /\ BusyWith(s) = {c} /\ BusyWith(s)' = {} /\ id = organizations[s].id
    BY <1>1, <1>7 DEF SlugClean, WithId
  <2>2. \A rel \in RelsOf(s)' : rel.for = organizations'[s].id
    BY <1>3, <2>1 DEF RelsOf, SlugClean
  <2>3. ASSUME s \notin ownerless', Exists(s)' PROVE OwnerHolds(s)'
    <3>1. CASE orgCall[c].at = "create"
      BY <1>1, <1>3, <2>1, <3>1 DEF OwnerHolds, RelsOf, SlugClean
    <3>2. CASE orgCall[c].at = "add"
      <4>1. OwnerHolds(s)
        BY <2>1, <2>3, <3>2 DEF SlugClean, Exists
      <4>. QED  BY <1>3, <3>2, <4>1 DEF OwnerHolds, RelsOf
    <3>. QED  BY <3>1, <3>2
  <2>. QED  BY <2>1, <2>2, <2>3 DEF SlugClean
<1>. QED  BY <1>1, <1>5, <1>6, <1>7, OrgOneCall

LEMMA CreateRoleStep ==
  ASSUME OrgsInv, NEW c \in OrgCalls, CreateRole(c)
  PROVE  OrgsInv'
<1>1. orgCall[c] \in CreateCall /\ orgCall[c].at = "create"
  BY OrgCallShape DEF CreateRole, Doing, OrgsInv
<1>2. orgCall[c].slug \in Slugs /\ orgCall[c].by \in Members /\ "owner" \in Roles
  BY <1>1, RolesAre DEF CreateCall
<1>. QED  BY <1>1, <1>2, WriteRole DEF CreateRole

LEMMA AddRoleStep ==
  ASSUME OrgsInv, NEW c \in OrgCalls, AddRole(c)
  PROVE  OrgsInv'
<1>1. orgCall[c] \in AddCall /\ orgCall[c].at = "add"
  BY OrgCallShape DEF AddRole, Doing, OrgsInv
<1>2. /\ orgCall[c].slug \in Slugs /\ orgCall[c].handle \in Members
      /\ orgCall[c].role \in Roles /\ orgCall[c].role # "owner"
  BY <1>1, RolesAre DEF AddCall
<1>. QED  BY <1>1, <1>2, WriteRole DEF AddRole

(* One that ends and takes its row away.                                   *)
LEMMA DeleteRow ==
  ASSUME OrgsInv, NEW c \in OrgCalls, NEW s \in Slugs, orgCall[c].at \in {"create", "row"},
         orgCall[c].slug = s, OrgDone(c), delete_by_id(s, orgCall[c].id),
         UNCHANGED <<relations, orgRevision, orgIds, leftovers, ownerless>>
  PROVE  OrgsInv'
<1>1. /\ orgCall' \in [OrgCalls -> OrgCallType] /\ orgCall'[c].at = "free"
      /\ \A d \in OrgCalls \ {c} : orgCall'[d] = orgCall[d]
      /\ \A d \in OrgCalls : orgCall'[d].at \in WithId => orgCall'[d] = orgCall[d]
      /\ s \notin leftovers => SlugClean(s) /\ BusyWith(s) = {c} /\ BusyWith(s)' = {}
  BY OrgEnds
<1>2. /\ organizations' \in [Slugs -> {NoOrg} \cup [id : 1..orgIds, owner : Members]]
      /\ \A t \in Slugs \ {s} : organizations'[t] = organizations[t]
      /\ organizations[s].id = orgCall[c].id => organizations'[s] = NoOrg
  BY DEF delete_by_id, OrgsInv, OrgsTyped, OrgsTypeOK
<1>3. OrgsTyped'
  BY <1>1, <1>2 DEF OrgsInv, OrgsTyped, OrgsTypeOK
<1>4. \A t : RelsOf(t)' = RelsOf(t)
  BY DEF RelsOf
<1>5. s \notin leftovers => SlugClean(s)'
  BY <1>1, <1>2, <1>4 DEF SlugClean, Exists, WithId
<1>. QED  BY <1>1, <1>2, <1>3, <1>4, <1>5, OrgOneCall

(* One that ends and leaves the tables as they are.                        *)
LEMMA OrgEndStep ==
  ASSUME OrgsInv, NEW c \in OrgCalls, NEW s \in Slugs, orgCall[c].at # "free",
         orgCall[c].slug = s, OrgDone(c),
         UNCHANGED <<organizations, relations, orgRevision, orgIds, leftovers>>,
         ownerless' \subseteq Slugs, ownerless \subseteq ownerless',
         orgCall[c].at \in {"create", "row"} => s \in ownerless'
  PROVE  OrgsInv'
<1>1. /\ orgCall' \in [OrgCalls -> OrgCallType] /\ orgCall'[c].at = "free"
      /\ \A d \in OrgCalls \ {c} : orgCall'[d] = orgCall[d]
      /\ \A d \in OrgCalls : orgCall'[d].at \in WithId => orgCall'[d] = orgCall[d]
      /\ s \notin leftovers => SlugClean(s) /\ BusyWith(s) = {c} /\ BusyWith(s)' = {}
  BY OrgEnds
<1>2. OrgsTyped'
  BY <1>1 DEF OrgsInv, OrgsTyped, OrgsTypeOK
<1>3. \A t : RelsOf(t)' = RelsOf(t) /\ (OwnerHolds(t)' <=> OwnerHolds(t)) /\ (Exists(t)' <=> Exists(t))
  BY DEF RelsOf, OwnerHolds, Exists
<1>4. s \notin leftovers => SlugClean(s)'
  BY <1>1, <1>3 DEF SlugClean
<1>. QED  BY <1>1, <1>2, <1>3, <1>4, OrgOneCall

(* One that ends with its row taken away and its relation left behind is   *)
(* noted.                                                                  *)
LEMMA CreateUndoStep ==
  ASSUME OrgsInv, NEW c \in OrgCalls, CreateUndo(c)
  PROVE  OrgsInv'
<1>1. orgCall[c] \in CreateCall /\ orgCall[c].at = "create"
  BY OrgCallShape DEF CreateUndo, Doing, OrgsInv
<1>2. PICK s \in Slugs, h \in Members, id \in Nat :
        s = orgCall[c].slug /\ h = orgCall[c].by /\ id = orgCall[c].id
  BY <1>1 DEF CreateCall
<1>3. PICK applied \in BOOLEAN, undone \in BOOLEAN :
        /\ IF applied THEN write_org_role(s, h, "owner", id) ELSE relations' = relations
        /\ IF undone THEN delete_by_id(s, id) ELSE organizations' = organizations
        /\ leftovers' = IF applied /\ undone THEN leftovers \cup {s} ELSE leftovers
        /\ ownerless' = IF applied \/ undone THEN ownerless ELSE ownerless \cup {s}
  BY <1>2 DEF CreateUndo
<1>4. OrgDone(c) /\ UNCHANGED <<orgRevision, orgIds>> /\ "owner" \in Roles
  BY RolesAre DEF CreateUndo
<1>5. CASE ~applied /\ undone
  BY <1>1, <1>2, <1>3, <1>4, <1>5, DeleteRow
<1>6. CASE ~applied /\ ~undone
  BY <1>1, <1>2, <1>3, <1>4, <1>6, OrgEndStep DEF OrgsInv, OrgsTyped, OrgsTypeOK
<1>7. CASE applied /\ ~undone
  BY <1>1, <1>2, <1>3, <1>4, <1>7, WriteRole
<1>8. CASE applied /\ undone
  <2>1. /\ orgCall' \in [OrgCalls -> OrgCallType] /\ orgCall'[c].at = "free"
        /\ \A d \in OrgCalls \ {c} : orgCall'[d] = orgCall[d]
        /\ \A d \in OrgCalls : orgCall'[d].at \in WithId => orgCall'[d] = orgCall[d]
    BY <1>1, <1>2, <1>4, OrgEnds
  <2>2. id \in 1..orgIds
    BY <1>1, <1>2 DEF OrgsInv, OrgsTyped, WithId
  <2>3. PICK new \in [slug : Slugs, role : Roles, handle : Members, for : 1..orgIds] :
          /\ new.slug = s /\ new.role = "owner" /\ new.handle = h
          /\ relations' = {rel \in relations : ~(rel.slug = s /\ rel.role = "owner" /\ rel.handle = h)}
                            \cup {new}
    <3>1. PICK new \in [slug : Slugs, role : Roles, handle : Members, for : 1..orgIds] :
            new = [slug |-> s, role |-> "owner", handle |-> h, for |-> id]
      BY <1>4, <2>2
    <3>. QED  BY <1>3, <1>8, <3>1 DEF write_org_role
  <2>4. IsFiniteSet(relations')
    <3>1. PICK S : S = {rel \in relations : ~(rel.slug = s /\ rel.role = "owner" /\ rel.handle = h)}
      OBVIOUS
    <3>2. IsFiniteSet(S)
      BY <3>1, FS_Subset DEF OrgsInv, OrgsTyped
    <3>3. IsFiniteSet(S \cup {new})
      BY <3>2, FS_AddElement
    <3>. QED  BY <2>3, <3>1, <3>3
  <2>5. /\ organizations' \in [Slugs -> {NoOrg} \cup [id : 1..orgIds, owner : Members]]
        /\ \A t \in Slugs \ {s} : organizations'[t] = organizations[t]
    BY <1>3, <1>8 DEF delete_by_id, OrgsInv, OrgsTyped, OrgsTypeOK
  <2>6. OrgsTyped'
    BY <1>3, <1>4, <1>8, <2>1, <2>3, <2>4, <2>5 DEF OrgsInv, OrgsTyped, OrgsTypeOK
  <2>7. \A t \in Slugs \ {s} : RelsOf(t)' = RelsOf(t)
    BY <2>3 DEF RelsOf
  <2>. QED  BY <1>2, <1>3, <1>8, <2>1, <2>5, <2>6, <2>7, OrgOneCall
<1>. QED  BY <1>5, <1>6, <1>7, <1>8

LEMMA DeleteOrgRowStep ==
  ASSUME OrgsInv, NEW c \in OrgCalls, DeleteOrgRow(c)
  PROVE  OrgsInv'
<1>1. orgCall[c].at = "row" /\ orgCall[c].slug \in Slugs
  BY OrgCallShape DEF DeleteOrgRow, Doing, OrgsInv
<1>. QED  BY <1>1, DeleteRow DEF DeleteOrgRow

LEMMA OrgCallDiesStep ==
  ASSUME OrgsInv, NEW c \in OrgCalls, OrgCallDies(c)
  PROVE  OrgsInv'
<1>1. orgCall[c].at # "free" /\ orgCall[c].slug \in Slugs
  BY OrgCallShape DEF OrgCallDies, Doing, OrgsInv
<1>2. /\ ownerless' \subseteq Slugs /\ ownerless \subseteq ownerless'
      /\ orgCall[c].at \in {"create", "row"} => orgCall[c].slug \in ownerless'
  BY <1>1 DEF OrgCallDies, Doing, OrgsInv, OrgsTyped, OrgsTypeOK
<1>. QED  BY <1>1, <1>2, OrgEndStep DEF OrgCallDies

(* After a clean-up that went through no relation is left.                 *)
LEMMA WipeStep ==
  ASSUME OrgsInv, NEW c \in OrgCalls, WipeRelations(c)
  PROVE  OrgsInv'
<1>1. orgCall[c] \in DeleteCall /\ orgCall[c].at = "wipe"
  BY OrgCallShape DEF WipeRelations, Doing, OrgsInv
<1>2. PICK s \in Slugs : s = orgCall[c].slug /\ c \in BusyWith(s)
  BY <1>1 DEF DeleteCall, BusyWith, Doing
<1>3. PICK n \in 0..3 :
        /\ relations' = relations \ {rel \in relations : rel.slug = s /\ rel.role \in FirstRoles(n)}
        /\ leftovers' = IF n < 3 THEN leftovers \cup {s} ELSE leftovers
  BY <1>2, RolesAre DEF WipeRelations, delete_all_org_relationships
<1>4. [orgCall[c] EXCEPT !.at = "row"] \in DeleteCall
  BY <1>1 DEF DeleteCall
<1>5. PICK step \in DeleteCall : /\ step.at = "row" /\ step.slug = s /\ step.id = orgCall[c].id
                                 /\ orgCall' = [orgCall EXCEPT ![c] = step]
  BY <1>1, <1>2, <1>4 DEF WipeRelations, OrgStep, DeleteCall
<1>6. /\ orgCall' \in [OrgCalls -> OrgCallType] /\ orgCall'[c] = step
      /\ \A d \in OrgCalls \ {c} : orgCall'[d] = orgCall[d]
  BY <1>5 DEF OrgsInv, OrgsTyped, OrgCallType
<1>7. UNCHANGED <<organizations, orgRevision, orgIds, ownerless>>
  BY DEF WipeRelations
<1>8. IsFiniteSet(relations')
  BY <1>3, FS_Subset DEF OrgsInv, OrgsTyped
<1>9. orgCall[c].id \in 1..orgIds
  BY <1>1 DEF OrgsInv, OrgsTyped, WithId
<1>10. OrgsTyped'
  BY <1>3, <1>5, <1>6, <1>7, <1>8, <1>9 DEF OrgsInv, OrgsTyped, OrgsTypeOK
<1>11. \A t \in Slugs \ {s} : RelsOf(t)' = RelsOf(t)
  BY <1>3 DEF RelsOf
<1>12. ASSUME s \notin leftovers' PROVE SlugClean(s)'
  <2>1. n = 3 /\ s \notin leftovers
    BY <1>3, <1>12
  <2>2. SlugClean(s) /\ BusyWith(s) = {c}
    BY <1>2, <2>1 DEF OrgsInv, SlugClean
  <2>3. BusyWith(s)' = {c}
    BY <1>2, <1>5, <1>6, <2>2 DEF BusyWith, Doing
  <2>4. RelsOf(s)' = {}
    BY <1>3, <2>1, RolesAre DEF RelsOf, OrgsInv, OrgsTyped, OrgsTypeOK
  <2>. QED  BY <1>1, <1>5, <1>6, <1>7, <2>2, <2>3, <2>4 DEF SlugClean, WithId
<1>. QED  BY <1>1, <1>2, <1>3, <1>5, <1>6, <1>7, <1>10, <1>11, <1>12, OrgOneCall

(* Whoever removes the owner is noted; the owner keeps the role else.      *)
LEMMA RemoveRolesStep ==
  ASSUME OrgsInv, NEW c \in OrgCalls, RemoveRoles(c)
  PROVE  OrgsInv'
<1>1. orgCall[c] \in RemoveCall /\ orgCall[c].at = "remove"
  BY OrgCallShape DEF RemoveRoles, Doing, OrgsInv
<1>2. PICK s \in Slugs, h \in Members : s = orgCall[c].slug /\ h = orgCall[c].handle
  BY <1>1 DEF RemoveCall
<1>3. PICK n \in 1..3 :
        relations' = {rel \in relations : ~(rel.slug = s /\ rel.handle = h /\ rel.role \in FirstRoles(n))}
  BY <1>2, RolesAre DEF RemoveRoles, delete_org_member_all_roles
<1>4. /\ orgCall' \in [OrgCalls -> OrgCallType] /\ orgCall'[c].at = "free"
      /\ \A d \in OrgCalls \ {c} : orgCall'[d] = orgCall[d]
      /\ \A d \in OrgCalls : orgCall'[d].at \in WithId => orgCall'[d] = orgCall[d]
      /\ s \notin leftovers => SlugClean(s) /\ BusyWith(s) = {c} /\ BusyWith(s)' = {}
  BY <1>1, <1>2, OrgEnds DEF RemoveRoles
<1>5. /\ UNCHANGED <<organizations, orgRevision, orgIds, leftovers>>
      /\ ownerless \subseteq ownerless' /\ ownerless' \subseteq Slugs
      /\ HasRole(h, s, {"owner"}, relations) => s \in ownerless'
  BY <1>2 DEF RemoveRoles, HasRole, OrgsInv, OrgsTyped, OrgsTypeOK
<1>6. IsFiniteSet(relations')
  BY <1>3, FS_Subset DEF OrgsInv, OrgsTyped
<1>7. OrgsTyped'
  BY <1>3, <1>4, <1>5, <1>6 DEF OrgsInv, OrgsTyped, OrgsTypeOK
<1>8. \A t \in Slugs \ {s} : RelsOf(t)' = RelsOf(t)
  BY <1>3 DEF RelsOf
<1>9. ASSUME s \notin leftovers PROVE SlugClean(s)'
  <2>1. SlugClean(s) /\ BusyWith(s) = {c} /\ BusyWith(s)' = {}
    BY <1>4, <1>9
  <2>2. \A rel \in RelsOf(s)' : rel.for = organizations'[s].id
    BY <1>3, <1>5, <2>1 DEF RelsOf, SlugClean
  <2>3. ASSUME s \notin ownerless', Exists(s)' PROVE OwnerHolds(s)'
    <3>1. OwnerHolds(s) /\ ~HasRole(h, s, {"owner"}, relations)
      BY <1>1, <1>5, <2>1, <2>3 DEF SlugClean, Exists
    <3>. QED  BY <1>3, <1>5, <3>1 DEF OwnerHolds, RelsOf, HasRole
  <2>. QED  BY <2>1, <2>2, <2>3 DEF SlugClean
<1>. QED  BY <1>1, <1>2, <1>4, <1>5, <1>7, <1>8, <1>9, OrgOneCall

LEMMA OwnerDeletedStep ==
  ASSUME OrgsInv, NEW h \in Members, OwnerAccountDeleted(h)
  PROVE  OrgsInv'
<1>1. /\ organizations' = [s \in Slugs |->
           IF Exists(s) /\ organizations[s].owner = h THEN NoOrg ELSE organizations[s]]
      /\ leftovers' = leftovers \cup {s \in Slugs : Exists(s) /\ organizations[s].owner = h}
      /\ UNCHANGED <<relations, orgRevision, orgIds, orgCall, ownerless>>
  BY DEF OwnerAccountDeleted
<1>2. OrgsTyped'
  BY <1>1 DEF OrgsInv, OrgsTyped, OrgsTypeOK
<1>3. ASSUME NEW s \in Slugs \ leftovers' PROVE SlugClean(s)'
  <2>1. SlugClean(s) /\ organizations'[s] = organizations[s]
    BY <1>1, <1>3 DEF OrgsInv
  <2>. QED  BY <1>1, <2>1, OrgOther DEF RelsOf
<1>. QED  BY <1>2, <1>3 DEF OrgsInv

LEMMA OrgAdvanceStep ==
  ASSUME OrgsInv, OrgRevisionAdvances
  PROVE  OrgsInv'
<1>1. \A s \in Slugs \ leftovers' : SlugClean(s)'
  BY OrgOther DEF OrgsInv, OrgRevisionAdvances, RelsOf
<1>. QED  BY <1>1 DEF OrgsInv, OrgRevisionAdvances, OrgsTyped, OrgsTypeOK

LEMMA OrgsStep == OrgsInv /\ [CommunityNext]_communityVars => OrgsInv'
<1>. SUFFICES ASSUME OrgsInv, [CommunityNext]_communityVars PROVE OrgsInv'
  OBVIOUS
<1>1. CASE UNCHANGED orgVars
  BY <1>1, OrgsKept
<1>2. CASE OrgsNext
  BY <1>2, OrgAdvanceStep, OwnerDeletedStep, DeleteStartStep, CreateRowStep, RemoveCheckStep, AddCheckStep,
     CreateRoleStep, CreateUndoStep, WipeStep, DeleteOrgRowStep, AddRoleStep, RemoveRolesStep,
     OrgCallDiesStep DEF OrgsNext
<1>. QED  BY <1>1, <1>2 DEF CommunityNext, communityVars

LEMMA OrgsAtFirst == CommunityInit => OrgsInv
<1>. SUFFICES ASSUME CommunityInit PROVE OrgsInv
  OBVIOUS
<1>1. OrgsTyped
  BY FS_EmptySet DEF CommunityInit, OrgsInit, OrgsTyped, OrgsTypeOK, OrgCallType, FreeCall, WithId
<1>2. \A s \in Slugs : SlugClean(s)
  BY DEF CommunityInit, OrgsInit, SlugClean, BusyWith, RelsOf, Doing, Exists
<1>. QED  BY <1>1, <1>2 DEF OrgsInv

(* Roles are listed as relations are.                                      *)
LEMMA Listed ==
  ASSUME NEW s, NEW h, NEW role
  PROVE  <<h, role>> \in list_org_members(s) <=> May(h, s, {role})
  BY DEF list_org_members, May, HasRole

(* The first of the roles that somebody has is the highest.                *)
LEMMA YourRole ==
  ASSUME NEW s, NEW h, May(h, s, Roles)
  PROVE  /\ your_role(h, s) = "owner" <=> May(h, s, {"owner"})
         /\ your_role(h, s) \in {"owner", "admin"} <=> May(h, s, {"owner", "admin"})
<1>1. /\ RoleOrder[1] = "owner" /\ RoleOrder[2] = "admin" /\ RoleOrder[3] = "member"
      /\ DOMAIN RoleOrder = 1..3
  BY DEF RoleOrder
<1>2. PICK K : K = {k \in DOMAIN RoleOrder : <<h, RoleOrder[k]>> \in list_org_members(s)}
  OBVIOUS
<1>3. /\ 1 \in K <=> May(h, s, {"owner"})
      /\ 2 \in K <=> May(h, s, {"admin"})
      /\ 3 \in K <=> May(h, s, {"member"})
      /\ K \subseteq 1..3
  BY <1>1, <1>2, Listed
<1>4. /\ May(h, s, {"owner"}) \/ May(h, s, {"admin"}) \/ May(h, s, {"member"})
      /\ May(h, s, {"owner", "admin"}) <=> May(h, s, {"owner"}) \/ May(h, s, {"admin"})
  BY RolesAre DEF May, HasRole
<1>5. Min(K) \in K /\ \A k \in K : Min(K) <= k
  <2>1. \E x \in K : \A y \in K : x <= y
    <3>1. CASE 1 \in K
      BY <1>3, <3>1
    <3>2. CASE 1 \notin K /\ 2 \in K
      BY <1>3, <3>2
    <3>3. CASE 1 \notin K /\ 2 \notin K
      <4>1. 3 \in K /\ \A y \in K : y = 3
        BY <1>3, <1>4, <3>3
      <4>. QED  BY <4>1
    <3>. QED  BY <3>1, <3>2, <3>3
  <2>. QED  BY <2>1 DEF Min
<1>6. PICK m \in 1..3 : your_role(h, s) = RoleOrder[m] /\ m \in K /\ \A k \in K : m <= k
  BY <1>2, <1>3, <1>5 DEF your_role
<1>7. CASE 1 \in K
  <2>1. m = 1
    BY <1>3, <1>6, <1>7
  <2>2. your_role(h, s) = "owner"
    BY <1>1, <1>6, <2>1
  <2>3. May(h, s, {"owner"}) /\ May(h, s, {"owner", "admin"})
    BY <1>3, <1>4, <1>7
  <2>. QED  BY <2>2, <2>3
<1>8. CASE 1 \notin K /\ 2 \in K
  <2>1. m = 2
    BY <1>3, <1>6, <1>8
  <2>2. your_role(h, s) = "admin"
    BY <1>1, <1>6, <2>1
  <2>3. ~May(h, s, {"owner"}) /\ May(h, s, {"owner", "admin"})
    BY <1>3, <1>4, <1>8
  <2>. QED  BY <2>2, <2>3
<1>9. CASE 1 \notin K /\ 2 \notin K
  <2>1. m = 3
    BY <1>3, <1>6, <1>9
  <2>2. your_role(h, s) = "member"
    BY <1>1, <1>6, <2>1
  <2>3. ~May(h, s, {"owner"}) /\ ~May(h, s, {"owner", "admin"})
    BY <1>3, <1>4, <1>9
  <2>. QED  BY <2>2, <2>3
<1>. QED  BY <1>7, <1>8, <1>9

(* A list that is not empty counts somebody, and nobody twice.             *)
LEMMA MembersCounted ==
  ASSUME OrgsInv, NEW s, NEW h, May(h, s, Roles)
  PROVE  member_count_for(s) \in 1..Cardinality(list_org_members(s))
<1>1. PICK M : M = list_org_members(s)
  OBVIOUS
<1>2. IsFiniteSet(M)
  <2>1. PICK R : R = {rel \in orgRevision : rel.slug = s}
    OBVIOUS
  <2>2. IsFiniteSet(R)
    BY <2>1, FS_Subset DEF OrgsInv, OrgsTyped
  <2>3. PICK g : g = [rel \in R |-> <<rel.handle, rel.role>>]
    OBVIOUS
  <2>4. M = {<<rel.handle, rel.role>> : rel \in R}
    BY <1>1, <2>1 DEF list_org_members
  <2>5. g \in Surjection(R, M)
    BY <2>3, <2>4 DEF Surjection
  <2>. QED  BY <2>2, <2>5, FS_Surjection
<1>3. PICK H : H = {m[1] : m \in M}
  OBVIOUS
<1>4. IsFiniteSet(H) /\ Cardinality(H) <= Cardinality(M)
  <2>1. PICK g : g = [m \in M |-> m[1]]
    OBVIOUS
  <2>2. g \in Surjection(M, H)
    BY <1>3, <2>1 DEF Surjection
  <2>. QED  BY <1>2, <2>2, FS_Surjection
<1>5. H # {}
  BY <1>1, <1>3 DEF May, HasRole, list_org_members
<1>6. Cardinality(H) \in Nat /\ Cardinality(M) \in Nat /\ Cardinality(H) # 0
  BY <1>2, <1>4, <1>5, FS_CardinalityType, FS_EmptySet
<1>. QED  BY <1>1, <1>3, <1>4, <1>6 DEF member_count_for

(* However requests overlap and clean-ups fail, a role is one of the       *)
(* organisation that has the slug, an organisation has its creator as      *)
(* owner and the role a page shows is the one that counts, with the        *)
(* exceptions the code allows (create_org, delete_org, get_org).           *)
THEOREM RolesHold ==
  CommunitySpec => [](OrgsTypeOK /\ NoInheritedRole /\ OwnedByCreator /\ RoleShownHolds)
<1>1. OrgsInv => OrgsTypeOK /\ NoInheritedRole /\ OwnedByCreator
  <2>. SUFFICES ASSUME OrgsInv PROVE OrgsTypeOK /\ NoInheritedRole /\ OwnedByCreator
    OBVIOUS
  <2>1. OrgsTypeOK
    BY DEF OrgsInv, OrgsTyped
  <2>2. NoInheritedRole
    BY <2>1 DEF OrgsInv, SlugClean, NoInheritedRole, RelsOf, OrgsTypeOK
  <2>3. ASSUME NEW s \in Slugs \ (ownerless \cup leftovers), Exists(s),
               \A c \in OrgCalls : ~Doing(c, "free") => orgCall[c].slug # s
        PROVE  HasRole(organizations[s].owner, s, {"owner"}, relations)
    BY <2>3 DEF OrgsInv, SlugClean, BusyWith, OwnerHolds, RelsOf, HasRole
  <2>. QED  BY <2>1, <2>2, <2>3 DEF OwnedByCreator
<1>2. OrgsInv /\ OwnedByCreator => RoleShownHolds
  <2>. SUFFICES ASSUME OrgsInv, OwnedByCreator, NEW h \in Members, NEW s \in Slugs
                PROVE  /\ get_org(h, s) # <<>> =>
                            LET page == get_org(h, s)[1]
                            IN /\ page.your_role = "owner" <=> May(h, s, {"owner"})
                               /\ page.your_role \in {"owner", "admin"} <=> May(h, s, {"owner", "admin"})
                               /\ member_count_for(s) \in 1..Cardinality(page.members)
                       /\ /\ s \in list_orgs(h) \ (ownerless \cup leftovers)
                          /\ orgRevision = relations
                          /\ \A c \in OrgCalls : ~Doing(c, "free") => orgCall[c].slug # s
                          => get_org(h, s) # <<>> /\ get_org(h, s)[1].your_role = "owner"
    BY DEF RoleShownHolds
  <2>1. May(h, s, Roles) =>
          /\ your_role(h, s) = "owner" <=> May(h, s, {"owner"})
          /\ your_role(h, s) \in {"owner", "admin"} <=> May(h, s, {"owner", "admin"})
          /\ member_count_for(s) \in 1..Cardinality(list_org_members(s))
    BY YourRole, MembersCounted
  <2>2. Exists(s) /\ May(h, s, Roles) =>
          /\ get_org(h, s) # <<>> /\ get_org(h, s)[1].your_role = your_role(h, s)
          /\ get_org(h, s)[1].members = list_org_members(s)
    BY DEF get_org
  <2>3. get_org(h, s) # <<>> => Exists(s) /\ May(h, s, Roles)
    BY DEF get_org
  <2>4. ASSUME s \in list_orgs(h) \ (ownerless \cup leftovers), orgRevision = relations,
               \A c \in OrgCalls : ~Doing(c, "free") => orgCall[c].slug # s
        PROVE  Exists(s) /\ May(h, s, {"owner"}) /\ May(h, s, Roles)
    BY <2>4, RolesAre DEF OwnedByCreator, list_orgs, May, HasRole
  <2>. QED  BY <2>1, <2>2, <2>3, <2>4
<1>. QED  BY <1>1, <1>2, OrgsAtFirst, OrgsStep, PTL DEF CommunitySpec

(* What the run checks of organisations, submissions, staff, the mailer    *)
(* and the RSI profile holds for any number of accounts, requests, slugs,  *)
(* submissions and settings.                                               *)
THEOREM CommunityHolds == CommunitySpec => []CommunitySafe
<1>1. /\ OrgsTypeOK /\ NoInheritedRole /\ OwnedByCreator /\ RoleShownHolds
      /\ SubsTypeOK /\ QueueComplete /\ FlaggedInTime /\ StaffTypeOK /\ AdminRemains
      /\ MailerFollowsConfig /\ RsiTypeOK /\ VerifiedByOwner /\ OneMainOrg
      => CommunitySafe
  BY Zenon DEF CommunitySafe
<1>. QED  BY <1>1, RolesHold, QueueShowsAll, FlagsEscalate, AdminStays, MailerFollows,
             HandleVerifiedByOwner, OneOrgIsMain, PTL
-----------------------------------------------------------------------------
(* AuditLog: types hold, and once the table has its first row the          *)
(* committed rows always form one chain in seq order, so that the table    *)
(* implements HashChain.                                                   *)

(* Every handler in a transaction has a tail row that is in the table.     *)
TailIsCommitted ==
  \A w \in Writers :
    pc[w] \in {"select", "locked", "indexing", "inserted"} => tail[w] \in rows

(* Two transactions never hold the lock on one row.                        *)
LockExclusive ==
  \A v, w \in Writers :
    /\ pc[v] \in {"locked", "indexing", "inserted"}
    /\ pc[w] \in {"locked", "indexing", "inserted"}
    /\ tail[v] = tail[w]
    => v = w

(* A row past the trigger still extends the last committed row.            *)
PendingExtendsTail ==
  \A w \in Writers :
    pc[w] \in {"indexing", "inserted"} =>
      /\ Chain!IsLast(tail[w], rows)
      /\ row[w].prev_hash = tail[w].row_hash
      /\ row[w].seq > tail[w].seq

(* A row past the unique index has a digest no committed row has.          *)
PendingIsNew ==
  \A w \in Writers :
    pc[w] = "inserted" => \A r \in rows : r.row_hash # row[w].row_hash

(* seq and row_hash identify a committed row, and there is a last one.     *)
RowsKeyed ==
  /\ \E r \in rows : Chain!IsLast(r, rows)
  /\ \A r, q \in rows : r.seq = q.seq => r = q
  /\ \A r, q \in rows : r.row_hash = q.row_hash => r = q

(* The inductive invariant of a chain that has its first row.              *)
ChainInv ==
  /\ TypeOK
  /\ RowsKeyed
  /\ Chain!Verifies(rows)
  /\ TailIsCommitted
  /\ LockExclusive
  /\ PendingExtendsTail
  /\ PendingIsNew
-----------------------------------------------------------------------------
(* What ORDER BY seq DESC LIMIT 1 returns: a row of the table, or no row.  *)
LEMMA TailInRows ==
  ASSUME rows = {} \/ \E r \in rows : Chain!IsLast(r, rows)
  PROVE  /\ TailRow \in rows \cup {NoRow}
         /\ rows # {} => Chain!IsLast(TailRow, rows)
<1>1. CASE rows = {}
  BY <1>1 DEF TailRow
<1>2. CASE rows # {}
  <2>1. \E r \in rows : Chain!IsLast(r, rows)
    BY <1>2
  <2>2. TailRow = CHOOSE r \in rows : Chain!IsLast(r, rows)
    BY <1>2 DEF TailRow
  <2>. QED  BY <2>1, <2>2
<1>. QED  BY <1>1, <1>2

(* The table is empty or has a last row.                                   *)
HasLast == rows = {} \/ \E r \in rows : Chain!IsLast(r, rows)

(* Committing a row whose seq is a number leaves a last row.               *)
LEMMA LastAfterCommit ==
  ASSUME HasLast, \A r \in rows : r.seq \in Nat,
         NEW n, n.seq \in Nat
  PROVE  \E r \in rows \cup {n} : Chain!IsLast(r, rows \cup {n})
<1>1. CASE rows = {}
  BY <1>1 DEF Chain!IsLast
<1>2. CASE \E r \in rows : Chain!IsLast(r, rows)
  <2>1. PICK r \in rows : Chain!IsLast(r, rows)
    BY <1>2
  <2>2. CASE r.seq =< n.seq
    <3>1. Chain!IsLast(n, rows \cup {n})
      BY <2>1, <2>2 DEF Chain!IsLast
    <3>. QED  BY <3>1
  <2>3. CASE ~(r.seq =< n.seq)
    <3>1. Chain!IsLast(r, rows \cup {n})
      BY <2>1, <2>3 DEF Chain!IsLast
    <3>. QED  BY <3>1
  <2>. QED  BY <2>2, <2>3
<1>. QED  BY <1>1, <1>2 DEF HasLast

(* Every step of every handler keeps the types and a last row, from an     *)
(* empty table as well as from a seeded one.                               *)
LEMMA TypeStep ==
  ASSUME TypeOK, HasLast, [Next]_vars
  PROVE  TypeOK' /\ HasLast'
<1>. USE DEF Steps, Goto, Return
<1>1. ASSUME NEW w \in Writers, NEW p \in Payloads, Begin(w, p)
      PROVE  TypeOK' /\ HasLast'
  <2>1. TailRow \in rows \cup {NoRow}
    BY TailInRows DEF HasLast
  <2>. QED  BY <1>1, <2>1 DEF Begin, TypeOK, HasLast
<1>2. ASSUME NEW w \in Writers, LockTail(w)
      PROVE  TypeOK' /\ HasLast'
  BY <1>2 DEF LockTail, TypeOK, HasLast
<1>3. ASSUME NEW w \in Writers, Insert(w)
      PROVE  TypeOK' /\ HasLast'
  <2>1. tail[w].seq \in Nat
    BY DEF TypeOK, NoRow
  <2>2. row'[w].seq = nextval + 1 /\ row'[w].hashed_seq = tail[w].seq + 1
    BY <1>3 DEF Insert, NewRow, Row, TypeOK
  <2>. QED  BY <1>3, <2>1, <2>2 DEF Insert, TypeOK, HasLast
<1>4. ASSUME NEW w \in Writers, InsertRejected(w)
      PROVE  TypeOK' /\ HasLast'
  BY <1>4 DEF InsertRejected, TypeOK, HasLast
<1>5. ASSUME NEW w \in Writers, IndexRow(w)
      PROVE  TypeOK' /\ HasLast'
  BY <1>5 DEF IndexRow, TypeOK, HasLast
<1>6. ASSUME NEW w \in Writers, IndexRejected(w)
      PROVE  TypeOK' /\ HasLast'
  BY <1>6 DEF IndexRejected, TypeOK, HasLast
<1>7. ASSUME NEW w \in Writers, Commit(w) \/ CommitUnanswered(w)
      PROVE  TypeOK' /\ HasLast'
  <2>1. row[w].seq \in 1..nextval /\ row[w].hashed_seq \in Nat
    BY <1>7 DEF Commit, CommitUnanswered, TypeOK
  <2>2. rows' = rows \cup {row[w]}
    BY <1>7 DEF Commit, CommitUnanswered
  <2>3. TypeOK'
    BY <1>7, <2>1, <2>2 DEF Commit, CommitUnanswered, TypeOK
  <2>4. \E r \in rows \cup {row[w]} : Chain!IsLast(r, rows \cup {row[w]})
    <3>1. (\A r \in rows : r.seq \in Nat) /\ row[w].seq \in Nat
      BY <2>1 DEF TypeOK
    <3>. HIDE DEF Steps, Goto, Return
    <3>. QED  BY <3>1, LastAfterCommit
  <2>5. \E r \in rows' : \A q \in rows' : q.seq =< r.seq
    BY <2>2, <2>4 DEF Chain!IsLast
  <2>. QED  BY <2>3, <2>5 DEF HasLast, Chain!IsLast
<1>8. ASSUME NEW w \in Writers, Abort(w)
      PROVE  TypeOK' /\ HasLast'
  BY <1>8 DEF Abort, TypeOK, HasLast
<1>9. ASSUME NEW w \in Writers, MirrorPut(w) \/ MirrorFailed(w)
      PROVE  TypeOK' /\ HasLast'
  BY <1>9 DEF MirrorPut, MirrorFailed, TypeOK, HasLast
<1>10. CASE UNCHANGED vars
  BY <1>10 DEF vars, local, TypeOK, HasLast
<1>. QED
  BY <1>1, <1>2, <1>3, <1>4, <1>5, <1>6, <1>7, <1>8, <1>9, <1>10
     DEF Next, Step, CheckIndex, Fault

(* Every reachable state of append, its transactions and its mirror is of  *)
(* the declared type, for any number of handlers and appends.              *)
THEOREM TypeCorrect == Spec => []TypeOK
<1>1. Init => TypeOK /\ HasLast
  BY DEF Init, TypeOK, HasLast, Steps, NoRow, Row, Chain!IsLast
<1>2. TypeOK /\ HasLast /\ [Next]_vars => (TypeOK /\ HasLast)'
  BY TypeStep
<1>. QED  BY <1>1, <1>2, PTL DEF Spec
-----------------------------------------------------------------------------
(* A row that extends the last row of a chain keeps the chain: the heart   *)
(* of append, whoever commits.                                             *)
LEMMA ChainExtends ==
  ASSUME NEW t \in rows, NEW n,
         \A r \in rows : r.seq \in Nat, n.seq \in Nat,
         RowsKeyed, Chain!Verifies(rows), Chain!IsLast(t, rows),
         n.seq > t.seq, n.prev_hash = t.row_hash,
         \A r \in rows : r.row_hash # n.row_hash
  PROVE  /\ Chain!Follows(n, rows)
         /\ Chain!Verifies(rows \cup {n})
         /\ Chain!IsLast(n, rows \cup {n})
         /\ \A r, q \in rows \cup {n} : r.seq = q.seq => r = q
         /\ \A r, q \in rows \cup {n} : r.row_hash = q.row_hash => r = q
<1>1. \A q \in rows : q.seq < n.seq
  BY DEF Chain!IsLast
<1>2. \A q \in rows : Chain!IsLast(q, rows) => q = t
  BY DEF Chain!IsLast, RowsKeyed
<1>3. Chain!Follows(n, rows)
  BY <1>1, <1>2 DEF Chain!Follows
<1>4. Chain!Verifies(rows \cup {n})
  <2>. SUFFICES ASSUME NEW r \in rows \cup {n}
                PROVE  Chain!Follows(r, {q \in rows \cup {n} : q.seq < r.seq})
    BY DEF Chain!Verifies
  <2>1. CASE r = n
    <3>1. {q \in rows \cup {n} : q.seq < r.seq} = rows
      BY <1>1, <2>1
    <3>. QED  BY <1>3, <2>1, <3>1
  <2>2. CASE r \in rows
    <3>1. {q \in rows \cup {n} : q.seq < r.seq} = {q \in rows : q.seq < r.seq}
      BY <1>1, <2>2
    <3>. QED  BY <2>2, <3>1 DEF Chain!Verifies
  <2>. QED  BY <2>1, <2>2
<1>5. Chain!IsLast(n, rows \cup {n})
  BY <1>1 DEF Chain!IsLast
<1>6. \A r, q \in rows \cup {n} : r.seq = q.seq => r = q
  BY <1>1 DEF RowsKeyed
<1>7. \A r, q \in rows \cup {n} : r.row_hash = q.row_hash => r = q
  BY DEF RowsKeyed
<1>. QED  BY <1>3, <1>4, <1>5, <1>6, <1>7

(* The row a handler commits extends the chain, and no other handler is    *)
(* past the trigger at that moment: the row lock it holds is the one any   *)
(* such handler would need.                                                *)
LEMMA CommitExtends ==
  ASSUME ChainInv, NEW w \in Writers, pc[w] = "inserted",
         rows' = rows \cup {row[w]}
  PROVE  /\ Chain!Follows(row[w], rows)
         /\ Chain!Verifies(rows)'
         /\ RowsKeyed'
         /\ \A v \in Writers : pc[v] \in {"indexing", "inserted"} => v = w
<1>1. tail[w] \in rows /\ Chain!IsLast(tail[w], rows)
  BY DEF ChainInv, TailIsCommitted, PendingExtendsTail
<1>2. /\ \A r \in rows : r.seq \in Nat
      /\ row[w].seq \in Nat
  BY DEF ChainInv, TypeOK
<1>3. /\ row[w].seq > tail[w].seq
      /\ row[w].prev_hash = tail[w].row_hash
      /\ \A r \in rows : r.row_hash # row[w].row_hash
  BY DEF ChainInv, PendingExtendsTail, PendingIsNew
<1>4. /\ Chain!Follows(row[w], rows)
      /\ Chain!Verifies(rows \cup {row[w]})
      /\ Chain!IsLast(row[w], rows \cup {row[w]})
      /\ \A r, q \in rows \cup {row[w]} : r.seq = q.seq => r = q
      /\ \A r, q \in rows \cup {row[w]} : r.row_hash = q.row_hash => r = q
  BY <1>1, <1>2, <1>3, ChainExtends DEF ChainInv
<1>5. Chain!Verifies(rows)'
  BY <1>4 DEF Chain!Verifies, Chain!Follows, Chain!IsLast
<1>6. RowsKeyed'
  <2>1. \E r \in rows' : \A q \in rows' : q.seq =< r.seq
    BY <1>4 DEF Chain!IsLast
  <2>. QED  BY <1>4, <2>1 DEF RowsKeyed, Chain!IsLast
<1>7. ASSUME NEW v \in Writers, pc[v] \in {"indexing", "inserted"}
      PROVE  v = w
  <2>1. tail[v] \in rows /\ Chain!IsLast(tail[v], rows)
    BY <1>7 DEF ChainInv, TailIsCommitted, PendingExtendsTail
  <2>2. tail[v] = tail[w]
    BY <1>1, <1>2, <2>1 DEF Chain!IsLast, ChainInv, RowsKeyed
  <2>. QED  BY <1>7, <2>2 DEF ChainInv, LockExclusive
<1>. QED  BY <1>4, <1>5, <1>6, <1>7

(* A step that commits nothing leaves the rows and all said of them alone. *)
LEMMA RowsUntouched ==
  ASSUME ChainInv, rows' = rows
  PROVE  RowsKeyed' /\ Chain!Verifies(rows)'
BY DEF ChainInv, RowsKeyed, Chain!Verifies, Chain!Follows, Chain!IsLast

(* Every step of every handler preserves the inductive invariant.          *)
LEMMA ChainStep ==
  ASSUME ChainInv, [Next]_vars
  PROVE  ChainInv'
<1>. DEFINE Handlers == TailIsCommitted /\ LockExclusive /\ PendingExtendsTail /\ PendingIsNew
<1>0. TypeOK /\ HasLast /\ rows # {}
  BY DEF ChainInv, RowsKeyed, HasLast
<1>1. TypeOK'
  BY <1>0, TypeStep
<1>2. ASSUME NEW w \in Writers, NEW p \in Payloads, Begin(w, p)
      PROVE  RowsKeyed' /\ Chain!Verifies(rows)' /\ Handlers'
  <2>1. TailRow \in rows
    BY <1>0, TailInRows DEF HasLast, Chain!IsLast
  <2>2. Handlers'
    BY <1>0, <1>2, <2>1
       DEF Begin, Goto, ChainInv, TypeOK, TailIsCommitted, LockExclusive,
           PendingExtendsTail, PendingIsNew, Chain!IsLast
  <2>. QED  BY <1>2, <2>2, RowsUntouched DEF Begin
<1>3. ASSUME NEW w \in Writers, LockTail(w)
      PROVE  RowsKeyed' /\ Chain!Verifies(rows)' /\ Handlers'
  <2>1. tail[w] # NoRow
    BY <1>3 DEF LockTail, ChainInv, TailIsCommitted, TypeOK, NoRow
  <2>2. LockExclusive'
    BY <1>3, <2>1 DEF LockTail, Goto, Locks, ChainInv, TypeOK, LockExclusive
  <2>3. TailIsCommitted' /\ PendingExtendsTail' /\ PendingIsNew'
    BY <1>3 DEF LockTail, Goto, ChainInv, TypeOK, TailIsCommitted,
                PendingExtendsTail, PendingIsNew, Chain!IsLast
  <2>. QED  BY <1>3, <2>2, <2>3, RowsUntouched DEF LockTail
<1>4. ASSUME NEW w \in Writers, Insert(w)
      PROVE  RowsKeyed' /\ Chain!Verifies(rows)' /\ Handlers'
  <2>1. tail[w] \in rows /\ TailRow \in rows /\ Chain!IsLast(TailRow, rows)
    BY <1>0, <1>4, TailInRows DEF HasLast, Insert, ChainInv, TailIsCommitted, Chain!IsLast
  <2>2. tail[w] = TailRow
    BY <1>4, <2>1 DEF Insert, ChainCheck, ChainInv, RowsKeyed
  <2>3. row'[w].prev_hash = tail[w].row_hash /\ row'[w].seq = nextval + 1
    BY <1>4 DEF Insert, NewRow, Row, ChainInv, TypeOK
  <2>4. tail[w].seq \in Nat /\ tail[w].seq =< nextval
    BY <2>1 DEF ChainInv, TypeOK
  <2>5. PendingExtendsTail'
    <3>. SUFFICES ASSUME NEW v \in Writers, pc'[v] \in {"indexing", "inserted"}
                  PROVE  /\ tail[v] \in rows
                         /\ \A q \in rows : q.seq =< tail[v].seq
                         /\ row'[v].prev_hash = tail[v].row_hash
                         /\ row'[v].seq > tail[v].seq
      BY <1>4 DEF PendingExtendsTail, Insert, Chain!IsLast
    <3>1. CASE v = w
      BY <2>1, <2>2, <2>3, <2>4, <3>1 DEF Chain!IsLast, ChainInv, TypeOK
    <3>2. CASE v # w
      BY <1>4, <3>2 DEF Insert, Goto, ChainInv, TypeOK, PendingExtendsTail, Chain!IsLast
    <3>. QED  BY <3>1, <3>2
  <2>6. TailIsCommitted' /\ LockExclusive' /\ PendingIsNew'
    BY <1>4 DEF Insert, Goto, ChainInv, TypeOK, TailIsCommitted, LockExclusive, PendingIsNew
  <2>. QED  BY <1>4, <2>5, <2>6, RowsUntouched DEF Insert
<1>5. ASSUME NEW w \in Writers, IndexRow(w)
      PROVE  RowsKeyed' /\ Chain!Verifies(rows)' /\ Handlers'
  <2>1. Handlers'
    BY <1>5 DEF IndexRow, HashCommitted, Goto, ChainInv, TypeOK, TailIsCommitted,
                LockExclusive, PendingExtendsTail, PendingIsNew, Chain!IsLast
  <2>. QED  BY <1>5, <2>1, RowsUntouched DEF IndexRow
<1>6. ASSUME NEW w \in Writers, Commit(w) \/ CommitUnanswered(w)
      PROVE  RowsKeyed' /\ Chain!Verifies(rows)' /\ Handlers'
  <2>1. /\ pc[w] = "inserted"
        /\ rows' = rows \cup {row[w]}
    BY <1>6 DEF Commit, CommitUnanswered
  <2>2. /\ RowsKeyed' /\ Chain!Verifies(rows)'
        /\ \A v \in Writers : pc[v] \in {"indexing", "inserted"} => v = w
    BY <2>1, CommitExtends
  <2>3. \A v \in Writers : pc'[v] \notin {"indexing", "inserted"}
    BY <1>6, <2>2 DEF Commit, CommitUnanswered, Return, Goto, ChainInv, TypeOK
  <2>4. TailIsCommitted' /\ LockExclusive'
    BY <1>6, <2>1 DEF Commit, CommitUnanswered, Return, Goto, ChainInv, TypeOK,
                      TailIsCommitted, LockExclusive
  <2>. QED  BY <2>2, <2>3, <2>4 DEF PendingExtendsTail, PendingIsNew
<1>7. ASSUME NEW w \in Writers, Return(w), rows' = rows
      PROVE  RowsKeyed' /\ Chain!Verifies(rows)' /\ Handlers'
  <2>1. Handlers'
    BY <1>7 DEF Return, Goto, ChainInv, TypeOK, TailIsCommitted, LockExclusive,
                PendingExtendsTail, PendingIsNew, Chain!IsLast
  <2>. QED  BY <1>7, <2>1, RowsUntouched
<1>8. ASSUME UNCHANGED vars
      PROVE  RowsKeyed' /\ Chain!Verifies(rows)' /\ Handlers'
  <2>1. Handlers'
    BY <1>8 DEF vars, local, ChainInv, TailIsCommitted, LockExclusive,
                PendingExtendsTail, PendingIsNew, Chain!IsLast
  <2>. QED  BY <1>8, <2>1, RowsUntouched DEF vars
<1>9. RowsKeyed' /\ Chain!Verifies(rows)' /\ Handlers'
  <2>. HIDE DEF Handlers
  <2>1. ASSUME NEW w \in Writers,
               \/ InsertRejected(w) \/ IndexRejected(w) \/ Abort(w)
               \/ MirrorPut(w) \/ MirrorFailed(w)
        PROVE  RowsKeyed' /\ Chain!Verifies(rows)' /\ Handlers'
    <3>1. Return(w) /\ rows' = rows
      BY <2>1 DEF InsertRejected, IndexRejected, Abort, MirrorPut, MirrorFailed
    <3>. QED  BY <1>7, <3>1
  <2>. QED
    BY <1>2, <1>3, <1>4, <1>5, <1>6, <1>8, <2>1 DEF Next, Step, CheckIndex, Fault
<1>. QED  BY <1>1, <1>9 DEF ChainInv

(* A table with its first row satisfies the inductive invariant.           *)
LEMMA ChainInit ==
  ASSUME Init, Seeded
  PROVE  ChainInv
<1>1. PICK p \in Payloads : rows = {Row(1, 1, ZeroHash, p)}
  BY DEF Init
<1>2. Row(1, 1, ZeroHash, p).seq = 1 /\ Row(1, 1, ZeroHash, p).hashed_seq = 1
      /\ Row(1, 1, ZeroHash, p).prev_hash = ZeroHash
  BY DEF Row
<1>3. TypeOK
  BY <1>1, <1>2 DEF Init, TypeOK, Steps
<1>4. RowsKeyed
  BY <1>1, <1>2 DEF RowsKeyed, Chain!IsLast
<1>5. Chain!Verifies(rows)
  BY <1>1, <1>2 DEF Chain!Verifies, Chain!Follows
<1>. QED
  BY <1>3, <1>4, <1>5 DEF ChainInv, Init, TailIsCommitted, LockExclusive,
                          PendingExtendsTail, PendingIsNew

(* The inductive invariant holds throughout.                               *)
LEMMA ChainInvariant == Seeded /\ Spec => []ChainInv
<1>1. Seeded /\ Init => ChainInv
  BY ChainInit
<1>2. ChainInv /\ [Next]_vars => ChainInv'
  BY ChainStep
<1>. QED  BY <1>1, <1>2, PTL DEF Spec

(* Once the chain has its first row, the verification scan of the table    *)
(* succeeds in every reachable state: concurrent appenders, stale tails,   *)
(* burnt sequence numbers and aborts never break or fork it.               *)
THEOREM ScanAlwaysVerifies == Seeded /\ Spec => []ScanVerifies
<1>1. ChainInv => ScanVerifies
  BY DEF ChainInv, ScanVerifies
<1>. QED  BY <1>1, ChainInvariant, PTL

(* Once the chain has its first row, append, the trigger and the unique    *)
(* index together implement the abstract chain: a step adds at most one    *)
(* row and adds it at the end.                                             *)
THEOREM AppendImplementsHashChain == Seeded /\ Spec => ImplementsHashChain
<1>1. ChainInv => Chain!Init
  BY DEF ChainInv, Chain!Init
<1>2. ASSUME ChainInv, [Next]_vars
      PROVE  [Chain!Append]_rows
  <2>1. ASSUME NEW w \in Writers, Commit(w) \/ CommitUnanswered(w)
        PROVE  Chain!Append
    <3>1. pc[w] = "inserted" /\ rows' = rows \cup {row[w]}
      BY <2>1 DEF Commit, CommitUnanswered
    <3>2. Chain!Follows(row[w], rows)
      BY <1>2, <3>1, CommitExtends
    <3>. QED  BY <3>1, <3>2 DEF Chain!Append
  <2>. QED
    BY <1>2, <2>1 DEF Next, Step, CheckIndex, Fault, Begin, LockTail, Insert, InsertRejected,
                      IndexRow, IndexRejected, Abort, MirrorPut, MirrorFailed, vars
<1>3. Seeded /\ Spec => Chain!Init
  BY <1>1, ChainInit DEF Spec
<1>. QED
  BY <1>2, <1>3, ChainInvariant, PTL DEF Spec, ImplementsHashChain, Chain!Spec
-----------------------------------------------------------------------------
(* The mirror.  A handler that has committed mirrors a row of the table.   *)
MirrorsCommitted == \A w \in Writers : pc[w] = "mirroring" => row[w] \in rows

(* It stays so together with what the bucket holds.                        *)
LEMMA MirrorCommitted == Spec => [](MirrorsCommitted /\ MirrorHoldsCommitted)
<1>. DEFINE Inv == TypeOK /\ HasLast /\ MirrorsCommitted /\ MirrorHoldsCommitted
<1>1. Init => Inv
  BY DEF Init, TypeOK, HasLast, Steps, NoRow, Row, Chain!IsLast, MirrorsCommitted,
         MirrorHoldsCommitted
<1>2. ASSUME Inv, [Next]_vars
      PROVE  Inv'
  <2>1. TypeOK' /\ HasLast'
    BY <1>2, TypeStep
  <2>2. ASSUME NEW w \in Writers, MirrorPut(w)
        PROVE  MirrorsCommitted' /\ MirrorHoldsCommitted'
    BY <1>2, <2>2 DEF MirrorPut, PutObject, Return, Goto, TypeOK, MirrorsCommitted,
                      MirrorHoldsCommitted
  <2>3. ASSUME NEW w \in Writers, Commit(w) \/ CommitUnanswered(w)
        PROVE  MirrorsCommitted' /\ MirrorHoldsCommitted'
    BY <1>2, <2>3 DEF Commit, CommitUnanswered, Return, Goto, TypeOK, MirrorsCommitted,
                      MirrorHoldsCommitted
  <2>4. ASSUME NEW w \in Writers, NEW p \in Payloads,
               \/ Begin(w, p) \/ LockTail(w) \/ Insert(w) \/ IndexRow(w)
        PROVE  MirrorsCommitted' /\ MirrorHoldsCommitted'
    BY <1>2, <2>4 DEF Begin, LockTail, Insert, IndexRow, Goto, TypeOK, MirrorsCommitted,
                      MirrorHoldsCommitted
  <2>5. ASSUME NEW w \in Writers,
               InsertRejected(w) \/ IndexRejected(w) \/ Abort(w) \/ MirrorFailed(w)
        PROVE  MirrorsCommitted' /\ MirrorHoldsCommitted'
    BY <1>2, <2>5 DEF InsertRejected, IndexRejected, Abort, MirrorFailed, Return, Goto, TypeOK,
                      MirrorsCommitted, MirrorHoldsCommitted
  <2>6. ASSUME UNCHANGED vars
        PROVE  MirrorsCommitted' /\ MirrorHoldsCommitted'
    BY <1>2, <2>6 DEF vars, local, MirrorsCommitted, MirrorHoldsCommitted
  <2>. QED
    <3>. HIDE DEF Inv
    <3>1. MirrorsCommitted' /\ MirrorHoldsCommitted'
      BY <1>2, <2>2, <2>3, <2>4, <2>5, <2>6, PayloadsAssumption DEF Next, Step, CheckIndex, Fault
    <3>. QED  BY <2>1, <3>1 DEF Inv
<1>3. Inv => MirrorsCommitted /\ MirrorHoldsCommitted
  OBVIOUS
<1>. QED  BY <1>1, <1>2, <1>3, PTL DEF Spec

(* Only committed rows reach the bucket, each under its own key, from an   *)
(* empty or a seeded table and whatever fails.                             *)
THEOREM MirrorOnlyCommitted == Spec => []MirrorHoldsCommitted
BY MirrorCommitted, PTL
-----------------------------------------------------------------------------
(* Keys of the bucket.  The seq a row was hashed with is at most its own   *)
(* and, in a chain, belongs to no other row.                               *)
HashedKeyed ==
  /\ \A r \in rows : r.hashed_seq =< r.seq
  /\ \A r, q \in rows : r.hashed_seq = q.hashed_seq => r = q

(* A pending row was hashed with the successor of its tail's seq.          *)
PendingHashed ==
  \A w \in Writers :
    pc[w] \in {"indexing", "inserted"} => row[w].hashed_seq = tail[w].seq + 1

(* What the two need to be inductive.                                      *)
MirrorInv == ChainInv /\ HashedKeyed /\ PendingHashed /\ MirrorsCommitted /\ MirrorHoldsCommitted

(* A committed row has a key of its own: its tail was the last row, so its *)
(* hashed seq is above the seq of every row before it.                     *)
LEMMA CommitKeyed ==
  ASSUME MirrorInv, NEW w \in Writers, pc[w] = "inserted", rows' = rows \cup {row[w]}
  PROVE  HashedKeyed'
<1>1. tail[w] \in rows /\ \A q \in rows : q.seq =< tail[w].seq
  BY DEF MirrorInv, ChainInv, TailIsCommitted, PendingExtendsTail, Chain!IsLast
<1>2. row[w].hashed_seq = tail[w].seq + 1 /\ row[w].seq > tail[w].seq
  BY DEF MirrorInv, ChainInv, PendingExtendsTail, PendingHashed
<1>3. \A r \in rows : r.seq \in Nat /\ r.hashed_seq \in Nat
  BY DEF MirrorInv, ChainInv, TypeOK
<1>4. row[w].seq \in Nat
  BY DEF MirrorInv, ChainInv, TypeOK
<1>5. \A r \in rows : r.hashed_seq < row[w].hashed_seq
  BY <1>1, <1>2, <1>3 DEF MirrorInv, HashedKeyed
<1>. QED  BY <1>1, <1>2, <1>3, <1>4, <1>5 DEF MirrorInv, HashedKeyed

(* Every step keeps the keys apart.                                        *)
LEMMA KeysStep ==
  ASSUME MirrorInv, [Next]_vars
  PROVE  HashedKeyed' /\ PendingHashed'
<1>. USE DEF MirrorInv
<1>1. ASSUME NEW w \in Writers, Insert(w)
      PROVE  HashedKeyed' /\ PendingHashed'
  <2>1. row'[w].hashed_seq = tail[w].seq + 1
    BY <1>1 DEF Insert, NewRow, Row, ChainInv, TypeOK
  <2>. QED  BY <1>1, <2>1 DEF Insert, Goto, ChainInv, TypeOK, HashedKeyed, PendingHashed
<1>2. ASSUME NEW w \in Writers, Commit(w) \/ CommitUnanswered(w)
      PROVE  HashedKeyed' /\ PendingHashed'
  <2>1. HashedKeyed'
    BY <1>2, CommitKeyed DEF Commit, CommitUnanswered
  <2>2. PendingHashed'
    BY <1>2 DEF Commit, CommitUnanswered, Return, Goto, ChainInv, TypeOK, PendingHashed
  <2>. QED  BY <2>1, <2>2
<1>3. ASSUME NEW w \in Writers, NEW p \in Payloads, Begin(w, p) \/ LockTail(w) \/ IndexRow(w)
      PROVE  HashedKeyed' /\ PendingHashed'
  BY <1>3 DEF Begin, LockTail, IndexRow, Goto, ChainInv, TypeOK, HashedKeyed, PendingHashed
<1>4. ASSUME NEW w \in Writers,
             \/ InsertRejected(w) \/ IndexRejected(w) \/ Abort(w)
             \/ MirrorPut(w) \/ MirrorFailed(w)
      PROVE  HashedKeyed' /\ PendingHashed'
  <2>1. Return(w) /\ rows' = rows
    BY <1>4 DEF InsertRejected, IndexRejected, Abort, MirrorPut, MirrorFailed
  <2>. QED  BY <2>1 DEF Return, Goto, ChainInv, TypeOK, HashedKeyed, PendingHashed
<1>5. ASSUME UNCHANGED vars
      PROVE  HashedKeyed' /\ PendingHashed'
  BY <1>5 DEF vars, local, HashedKeyed, PendingHashed
<1>. QED
  BY <1>1, <1>2, <1>3, <1>4, <1>5, PayloadsAssumption DEF Next, Step, CheckIndex, Fault

(* Once the chain has its first row, no object of the bucket is ever       *)
(* replaced by another row, whatever numbers the sequence has burnt: the   *)
(* key of object_key, the hashed seq, names one committed row.             *)
THEOREM MirrorKeysDistinct == Seeded /\ Spec => MirrorNeverOverwrites
<1>1. Seeded /\ Init => MirrorInv
  <2>. SUFFICES ASSUME Seeded, Init  PROVE MirrorInv
    OBVIOUS
  <2>1. ChainInv
    BY ChainInit
  <2>. QED  BY <2>1 DEF Init, Row, MirrorInv, HashedKeyed, PendingHashed, MirrorsCommitted,
                        MirrorHoldsCommitted
<1>2. ASSUME MirrorInv, [Next]_vars, (MirrorsCommitted /\ MirrorHoldsCommitted)'
      PROVE  MirrorInv'
  BY <1>2, ChainStep, KeysStep DEF MirrorInv
<1>3. ASSUME MirrorInv, [Next]_vars
      PROVE  [\A k \in DOMAIN mirror : k \in DOMAIN mirror' /\ mirror'[k] = mirror[k]]_vars
  <2>1. ASSUME NEW w \in Writers, MirrorPut(w)
        PROVE  \A k \in DOMAIN mirror : k \in DOMAIN mirror' /\ mirror'[k] = mirror[k]
    <3>1. row[w] \in rows
      BY <1>3, <2>1 DEF MirrorPut, MirrorInv, MirrorsCommitted
    <3>2. \A k \in DOMAIN mirror : k = ObjectKey(row[w]) => mirror[k] = row[w]
      BY <1>3, <3>1 DEF MirrorInv, MirrorHoldsCommitted, HashedKeyed, ObjectKey
    <3>. QED  BY <2>1, <3>2 DEF MirrorPut, PutObject
  <2>. QED
    BY <1>3, <2>1 DEF Next, Step, CheckIndex, Fault, Begin, LockTail, Insert, InsertRejected,
                      IndexRow, IndexRejected, Commit, CommitUnanswered, Abort, MirrorFailed, vars
<1>. QED
  BY <1>1, <1>2, <1>3, MirrorCommitted, PTL DEF Spec, MirrorNeverOverwrites
-----------------------------------------------------------------------------
(* From an empty table.  Several handlers may then commit a first row, and *)
(* a first row may be committed late, so that the table is no chain; what  *)
(* remains is that no row is extended twice.                               *)

Pending(w) == pc[w] \in {"indexing", "inserted"}

(* Digests: of what they are, who has them, and that a prev_hash is one.   *)
DigestsKeyed ==
  /\ \A r \in rows : r.row_hash = Digest(r.prev_hash, r.payload, r.hashed_seq)
  /\ \A r, q \in rows : r.row_hash = q.row_hash => r = q
  /\ \A r, q \in rows : r.seq = q.seq => r = q
  /\ \A r \in rows : r.prev_hash = ZeroHash \/ \E q \in rows : q.row_hash = r.prev_hash

(* A row is later than the one it extends.                                 *)
ExtendsEarlier == \A r, q \in rows : r.prev_hash = q.row_hash => r.seq > q.seq

(* The lock on a row that exists is exclusive; whoever waits for a lock    *)
(* waits for such a row.                                                   *)
RowLockExclusive ==
  /\ \A w \in Writers : pc[w] = "select" => tail[w] # NoRow
  /\ \A v, w \in Writers :
       /\ pc[v] \in {"locked", "indexing", "inserted"}
       /\ pc[w] \in {"locked", "indexing", "inserted"}
       /\ tail[v] = tail[w] /\ tail[w] # NoRow
       => v = w

(* A pending row links to its tail, is later, and nothing extends its tail *)
(* before it does.                                                         *)
PendingLinked ==
  \A w \in Writers : Pending(w) =>
    /\ row[w].row_hash = Digest(row[w].prev_hash, row[w].payload, row[w].hashed_seq)
    /\ row[w].prev_hash = tail[w].row_hash
    /\ row[w].seq > tail[w].seq
    /\ tail[w] # NoRow => \A r \in rows : r.prev_hash # tail[w].row_hash

(* Its seq is its own, and past the index so is its digest.                *)
PendingKeyed ==
  /\ \A w \in Writers : Pending(w) => \A r \in rows : r.seq # row[w].seq
  /\ \A v, w \in Writers : Pending(v) /\ Pending(w) /\ row[v].seq = row[w].seq => v = w
  /\ \A w \in Writers : pc[w] = "inserted" => \A r \in rows : r.row_hash # row[w].row_hash
  /\ \A v, w \in Writers :
       pc[v] = "inserted" /\ pc[w] = "inserted" /\ row[v].row_hash = row[w].row_hash => v = w

(* The inductive invariant of a table that may start empty.                *)
ForkInv ==
  /\ TypeOK /\ HasLast
  /\ NoForkAfterGenesis
  /\ DigestsKeyed /\ ExtendsEarlier
  /\ RowLockExclusive /\ PendingLinked /\ PendingKeyed

(* No digest is the zero hash.                                             *)
LEMMA DigestNotZero ==
  ASSUME NEW a, NEW b, NEW c
  PROVE  Digest(a, b, c) # ZeroHash
BY DEF Digest, ZeroHash

(* Equal digests have equal inputs.                                        *)
LEMMA DigestInjective ==
  ASSUME NEW a, NEW b, NEW c, NEW d, NEW e, NEW f, Digest(a, b, c) = Digest(d, e, f)
  PROVE  a = d /\ b = e /\ c = f
BY DEF Digest

(* The numbers a row and a tail carry, and what a tail is.                 *)
LEMMA ForkTypes ==
  ASSUME ForkInv
  PROVE  /\ nextval \in Nat
         /\ \A r \in rows : r.seq \in Nat /\ r.seq >= 1 /\ r.seq =< nextval
         /\ \A w \in Writers : tail[w] \in rows \/ tail[w] = NoRow
         /\ \A w \in Writers : tail[w].seq \in Nat /\ tail[w].seq =< nextval
         /\ \A w \in Writers : Pending(w) => row[w].seq \in Nat /\ row[w].seq =< nextval
         /\ NoRow.seq = 0 /\ NoRow.row_hash = ZeroHash
         /\ \A r \in rows : r.row_hash # ZeroHash
<1>1. /\ nextval \in Nat
      /\ \A r \in rows : r.seq \in Nat /\ r.seq >= 1 /\ r.seq =< nextval
      /\ \A w \in Writers : tail[w] \in rows \/ tail[w] = NoRow
      /\ \A w \in Writers : Pending(w) => row[w].seq \in Nat /\ row[w].seq =< nextval
  BY DEF ForkInv, TypeOK, Pending
<1>2. NoRow.seq = 0 /\ NoRow.row_hash = ZeroHash
  BY DEF NoRow
<1>3. \A r \in rows : r.row_hash # ZeroHash
  BY DigestNotZero DEF ForkInv, DigestsKeyed
<1>. QED  BY <1>1, <1>2, <1>3

(* Rows and pending rows as they were: what is said of the table stays.    *)
LEMMA TableUntouched ==
  ASSUME ForkInv, rows' = rows
  PROVE  NoForkAfterGenesis' /\ DigestsKeyed' /\ ExtendsEarlier'
BY DEF ForkInv, NoForkAfterGenesis, DigestsKeyed, ExtendsEarlier, Digest

(* The step that matters: a commit forks nothing, since whatever extends   *)
(* its tail would have needed the lock it holds.                           *)
LEMMA ForkCommit ==
  ASSUME ForkInv, NEW w \in Writers, pc[w] = "inserted", rows' = rows \cup {row[w]},
         UNCHANGED nextval,
         \A v \in Writers : v # w => pc'[v] = pc[v] /\ tail'[v] = tail[v] /\ row'[v] = row[v],
         pc'[w] \in {"mirroring", "idle"}
  PROVE  /\ NoForkAfterGenesis' /\ DigestsKeyed' /\ ExtendsEarlier'
         /\ RowLockExclusive' /\ PendingLinked' /\ PendingKeyed'
<1>. DEFINE n == row[w]
<1>0. Pending(w)
  BY DEF Pending
<1>1. /\ n.row_hash = Digest(n.prev_hash, n.payload, n.hashed_seq)
      /\ n.prev_hash = tail[w].row_hash /\ n.seq > tail[w].seq
      /\ tail[w] # NoRow => \A r \in rows : r.prev_hash # tail[w].row_hash
      /\ \A r \in rows : r.seq # n.seq /\ r.row_hash # n.row_hash
  BY <1>0 DEF ForkInv, PendingLinked, PendingKeyed
<1>2. tail[w] \in rows \/ (tail[w] = NoRow /\ n.prev_hash = ZeroHash)
  BY <1>1, ForkTypes
<1>3. \A r \in rows : r.prev_hash = n.prev_hash => n.prev_hash = ZeroHash
  BY <1>1, <1>2, ForkTypes
<1>4. NoForkAfterGenesis'
  BY <1>3 DEF ForkInv, NoForkAfterGenesis
<1>5. n.prev_hash # n.row_hash /\ \A r \in rows : r.prev_hash # n.row_hash
  <2>1. n.row_hash # ZeroHash
    BY <1>1, DigestNotZero
  <2>. QED  BY <1>1, <1>2, <2>1 DEF ForkInv, DigestsKeyed
<1>6. DigestsKeyed'
  <2>1. \A r \in rows' : r.row_hash = Digest(r.prev_hash, r.payload, r.hashed_seq)
    BY <1>1 DEF ForkInv, DigestsKeyed
  <2>2. \A r, q \in rows' : (r.row_hash = q.row_hash => r = q) /\ (r.seq = q.seq => r = q)
    BY <1>1 DEF ForkInv, DigestsKeyed
  <2>3. \A r \in rows' : r.prev_hash = ZeroHash \/ \E q \in rows' : q.row_hash = r.prev_hash
    BY <1>1, <1>2 DEF ForkInv, DigestsKeyed
  <2>. QED  BY <2>1, <2>2, <2>3 DEF DigestsKeyed, Digest
<1>7. ExtendsEarlier'
  <2>1. \A q \in rows : n.prev_hash = q.row_hash => n.seq > q.seq
    <3>1. \A q \in rows : n.prev_hash = q.row_hash => q = tail[w]
      BY <1>1, <1>2, ForkTypes DEF ForkInv, DigestsKeyed
    <3>. QED  BY <1>1, <3>1
  <2>. QED  BY <1>5, <2>1 DEF ForkInv, ExtendsEarlier
<1>8. \A v \in Writers : pc'[v] # "idle" /\ pc'[v] # "mirroring" => v # w
  OBVIOUS
<1>9. RowLockExclusive' /\ PendingKeyed'
  BY <1>0, <1>8 DEF ForkInv, RowLockExclusive, PendingKeyed, Pending
<1>10. PendingLinked'
  <2>. SUFFICES ASSUME NEW v \in Writers, Pending(v)'
                PROVE  /\ row'[v].row_hash = Digest(row'[v].prev_hash, row'[v].payload, row'[v].hashed_seq)
                       /\ row'[v].prev_hash = tail'[v].row_hash
                       /\ row'[v].seq > tail'[v].seq
                       /\ tail'[v] # NoRow => \A r \in rows' : r.prev_hash # tail'[v].row_hash
    BY DEF PendingLinked, Digest, NoRow
  <2>1. v # w /\ Pending(v)
    BY DEF Pending
  <2>2. tail[v] # NoRow => n.prev_hash # tail[v].row_hash
    <3>1. tail[v] # NoRow => tail[v] # tail[w]
      BY <2>1 DEF ForkInv, RowLockExclusive, Pending
    <3>. QED  BY <1>1, <1>2, <3>1, ForkTypes DEF ForkInv, DigestsKeyed
  <2>. QED  BY <2>1, <2>2 DEF ForkInv, PendingLinked
<1>. QED  BY <1>4, <1>6, <1>7, <1>9, <1>10
(* Every step of every handler preserves it.                               *)
LEMMA ForkStep ==
  ASSUME ForkInv, [Next]_vars
  PROVE  ForkInv'
<1>. DEFINE Table == NoForkAfterGenesis /\ DigestsKeyed /\ ExtendsEarlier
            Handlers == RowLockExclusive /\ PendingLinked /\ PendingKeyed
<1>0. TypeOK' /\ HasLast'
  BY TypeStep DEF ForkInv
<1>1. rows' = rows => Table'
  BY TableUntouched
<1>2. ASSUME NEW w \in Writers, NEW p \in Payloads, Begin(w, p)
      PROVE  Table' /\ Handlers'
  <2>1. rows # {} => TailRow # NoRow
    BY TailInRows, ForkTypes DEF ForkInv, HasLast, Chain!IsLast
  <2>2. RowLockExclusive'
    BY <1>2, <2>1 DEF Begin, Goto, ForkInv, TypeOK, RowLockExclusive, TailRow
  <2>3. PendingLinked' /\ PendingKeyed'
    BY <1>2 DEF Begin, Goto, ForkInv, TypeOK, PendingLinked, PendingKeyed, Pending, Digest
  <2>. QED  BY <1>1, <1>2, <2>2, <2>3 DEF Begin
<1>3. ASSUME NEW w \in Writers, LockTail(w)
      PROVE  Table' /\ Handlers'
  <2>1. RowLockExclusive'
    BY <1>3 DEF LockTail, Goto, Locks, ForkInv, TypeOK, RowLockExclusive
  <2>2. PendingLinked' /\ PendingKeyed'
    BY <1>3 DEF LockTail, Goto, ForkInv, TypeOK, PendingLinked, PendingKeyed, Pending, Digest
  <2>. QED  BY <1>1, <1>3, <2>1, <2>2 DEF LockTail
<1>4. ASSUME NEW w \in Writers, Insert(w)
      PROVE  Table' /\ Handlers'
  <2>. DEFINE n == NewRow(w)
  <2>1. /\ row' = [row EXCEPT ![w] = n] /\ pc' = [pc EXCEPT ![w] = "indexing"]
        /\ pc[w] = "locked" /\ nextval' = nextval + 1
        /\ UNCHANGED <<rows, tail>>
    BY <1>4 DEF Insert, Goto
  <2>2. /\ n.seq = nextval + 1 /\ n.prev_hash = tail[w].row_hash
        /\ n.row_hash = Digest(n.prev_hash, n.payload, n.hashed_seq)
    BY DEF NewRow, Row
  <2>3. tail[w] # NoRow => \A r \in rows : r.prev_hash # tail[w].row_hash
    <3>. SUFFICES ASSUME tail[w] # NoRow, NEW r \in rows, r.prev_hash = tail[w].row_hash
                  PROVE  FALSE
      OBVIOUS
    <3>1. tail[w] \in rows /\ TailRow \in rows /\ \A q \in rows : q.seq =< TailRow.seq
      BY ForkTypes, TailInRows DEF ForkInv, HasLast, Chain!IsLast
    <3>2. tail[w] = TailRow
      BY <1>4, <3>1 DEF Insert, ChainCheck, ForkInv, DigestsKeyed
    <3>3. r.seq > tail[w].seq
      BY <3>1 DEF ForkInv, ExtendsEarlier
    <3>. QED  BY <3>1, <3>2, <3>3, ForkTypes
  <2>. HIDE DEF n
  <2>4. row'[w] = n /\ \A v \in Writers \ {w} : row'[v] = row[v]
    BY <2>1 DEF ForkInv, TypeOK
  <2>5. pc'[w] = "indexing" /\ \A v \in Writers \ {w} : pc'[v] = pc[v]
    BY <2>1 DEF ForkInv, TypeOK
  <2>6. RowLockExclusive'
    BY <2>1, <2>5 DEF ForkInv, RowLockExclusive
  <2>7. PendingKeyed'
    BY <2>1, <2>2, <2>4, <2>5, ForkTypes DEF ForkInv, PendingKeyed, Pending
  <2>8. PendingLinked'
    <3>1. n.seq > tail[w].seq
      BY <2>2, ForkTypes
    <3>. QED  BY <2>1, <2>2, <2>3, <2>4, <2>5, <3>1 DEF ForkInv, PendingLinked, Pending, Digest
  <2>. QED  BY <1>1, <2>1, <2>6, <2>7, <2>8
<1>5. ASSUME NEW w \in Writers, IndexRow(w)
      PROVE  Table' /\ Handlers'
  <2>1. RowLockExclusive' /\ PendingLinked'
    BY <1>5 DEF IndexRow, Goto, ForkInv, TypeOK, RowLockExclusive, PendingLinked, Pending, Digest
  <2>2. PendingKeyed'
    BY <1>5 DEF IndexRow, HashInFlight, HashCommitted, Goto, ForkInv, TypeOK, PendingKeyed, Pending
  <2>. QED  BY <1>1, <1>5, <2>1, <2>2 DEF IndexRow
<1>6. ASSUME NEW w \in Writers, Commit(w) \/ CommitUnanswered(w)
      PROVE  Table' /\ Handlers'
  <2>1. /\ pc[w] = "inserted" /\ rows' = rows \cup {row[w]} /\ UNCHANGED nextval
        /\ \A v \in Writers : v # w => pc'[v] = pc[v] /\ tail'[v] = tail[v] /\ row'[v] = row[v]
        /\ pc'[w] \in {"mirroring", "idle"}
    BY <1>6 DEF Commit, CommitUnanswered, Return, Goto, ForkInv, TypeOK
  <2>. QED  BY <2>1, ForkCommit
<1>7. ASSUME NEW w \in Writers, Return(w), rows' = rows
      PROVE  Table' /\ Handlers'
  <2>1. /\ pc'[w] = "idle"
        /\ \A v \in Writers : v # w => pc'[v] = pc[v] /\ tail'[v] = tail[v] /\ row'[v] = row[v]
    BY <1>7 DEF Return, Goto, ForkInv, TypeOK
  <2>2. RowLockExclusive' /\ PendingLinked' /\ PendingKeyed'
    BY <1>7, <2>1 DEF ForkInv, RowLockExclusive, PendingLinked, PendingKeyed, Pending, Digest
  <2>. QED  BY <1>1, <1>7, <2>2
<1>8. ASSUME UNCHANGED vars
      PROVE  Table' /\ Handlers'
  <2>1. RowLockExclusive' /\ PendingLinked' /\ PendingKeyed'
    BY <1>8 DEF vars, local, ForkInv, RowLockExclusive, PendingLinked, PendingKeyed, Pending, Digest
  <2>. QED  BY <1>1, <1>8, <2>1 DEF vars
<1>9. Table' /\ Handlers'
  <2>. HIDE DEF Table, Handlers
  <2>1. ASSUME NEW w \in Writers,
               \/ InsertRejected(w) \/ IndexRejected(w) \/ Abort(w)
               \/ MirrorPut(w) \/ MirrorFailed(w)
        PROVE  Table' /\ Handlers'
    <3>1. Return(w) /\ rows' = rows
      BY <2>1 DEF InsertRejected, IndexRejected, Abort, MirrorPut, MirrorFailed
    <3>. QED  BY <1>7, <3>1
  <2>. QED
    BY <1>2, <1>3, <1>4, <1>5, <1>6, <1>8, <2>1 DEF Next, Step, CheckIndex, Fault
<1>. QED  BY <1>0, <1>9 DEF ForkInv

(* It holds from an empty and from a seeded table.                         *)
LEMMA ForkInvariant == Spec => []ForkInv
<1>1. Init => ForkInv
  <2>. SUFFICES ASSUME Init  PROVE ForkInv
    OBVIOUS
  <2>1. TypeOK /\ HasLast
    BY DEF Init, TypeOK, HasLast, Steps, NoRow, Row, Chain!IsLast
  <2>2. NoForkAfterGenesis /\ DigestsKeyed
    BY DEF Init, NoForkAfterGenesis, DigestsKeyed, Row
  <2>3. ExtendsEarlier
    BY DigestNotZero DEF Init, ExtendsEarlier, Row
  <2>. QED  BY <2>1, <2>2, <2>3
               DEF Init, ForkInv, RowLockExclusive, PendingLinked, PendingKeyed, Pending
<1>2. ForkInv /\ [Next]_vars => ForkInv'
  BY ForkStep
<1>. QED  BY <1>1, <1>2, PTL DEF Spec

(* Also when the table starts empty, and first rows may be committed side  *)
(* by side and late, no later row is ever extended by two appenders.       *)
THEOREM NeverForksLater == Spec => []NoForkAfterGenesis
<1>1. ForkInv => NoForkAfterGenesis
  BY DEF ForkInv
<1>. QED  BY <1>1, ForkInvariant, PTL

(* Whatever refuses an append, the trigger or the unique index, another    *)
(* row was committed after this append read its tail: of appenders that    *)
(* meet, one gets through.                                                 *)
THEOREM RefusedOnlyForProgress == Spec => RejectionMeansProgress
<1>. DEFINE Progress ==
       rejected' > rejected =>
         \E w \in Writers :
           pc[w] # "idle" /\ pc'[w] = "idle" /\ \E r \in rows : r.seq > tail[w].seq
<1>1. ASSUME ForkInv, [Next]_vars
      PROVE  [Progress]_vars
  <2>. rejected \in Nat
    BY <1>1 DEF ForkInv, TypeOK
  <2>1. ASSUME NEW w \in Writers, InsertRejected(w)
        PROVE  Progress
    <3>1. pc[w] # "idle" /\ pc'[w] = "idle"
      BY <1>1, <2>1 DEF InsertRejected, Return, Goto, ForkInv, TypeOK
    <3>2. tail[w].row_hash # TailRow.row_hash
      BY <2>1 DEF InsertRejected, ChainCheck
    <3>3. \E r \in rows : r.seq > tail[w].seq
      <4>1. CASE rows = {}
        BY <1>1, <3>2, <4>1, ForkTypes DEF TailRow
      <4>2. CASE rows # {}
        <5>1. TailRow \in rows /\ \A q \in rows : q.seq =< TailRow.seq
          BY <1>1, <4>2, TailInRows DEF ForkInv, HasLast, Chain!IsLast
        <5>2. tail[w].seq # TailRow.seq
          BY <1>1, <3>2, <5>1, ForkTypes DEF ForkInv, DigestsKeyed
        <5>3. tail[w].seq =< TailRow.seq
          BY <1>1, <5>1, ForkTypes
        <5>. QED  BY <1>1, <5>1, <5>2, <5>3, ForkTypes
      <4>. QED  BY <4>1, <4>2
    <3>. QED  BY <3>1, <3>3
  <2>2. ASSUME NEW w \in Writers, IndexRejected(w)
        PROVE  Progress
    <3>1. pc[w] # "idle" /\ pc'[w] = "idle" /\ Pending(w)
      BY <1>1, <2>2 DEF IndexRejected, Return, Goto, ForkInv, TypeOK, Pending
    <3>2. PICK r \in rows : r.row_hash = row[w].row_hash
      BY <2>2 DEF IndexRejected, HashCommitted
    <3>3. r.prev_hash = tail[w].row_hash
      BY <1>1, <3>1, <3>2, DigestInjective DEF ForkInv, DigestsKeyed, PendingLinked
    <3>4. r.seq > tail[w].seq
      BY <1>1, <3>3, ForkTypes DEF ForkInv, ExtendsEarlier
    <3>. QED  BY <3>1, <3>4
  <2>3. UNCHANGED rejected => Progress
    OBVIOUS
  <2>. QED
    <3>. HIDE DEF Progress
    <3>. QED
      BY <1>1, <2>1, <2>2, <2>3
         DEF Next, Step, CheckIndex, Fault, Begin, LockTail, Insert, IndexRow, Commit,
             CommitUnanswered, Abort, MirrorPut, MirrorFailed, vars
<1>. QED  BY <1>1, ForkInvariant, PTL DEF Spec, RejectionMeansProgress
=============================================================================
