---------------------------- MODULE MCCommunity ----------------------------
(***************************************************************************)
(* Organisations, submissions, staff roles, the mail settings and the RSI  *)
(* profile for TLC, and the audit log from its first row on.  A behaviour  *)
(* exercises one of them and leaves the others in their initial state.     *)
(***************************************************************************)
EXTENDS Organisations, Submissions, StaffRoles, SmtpConfig, RsiProfile, AuditLog, TLC

VARIABLE part

communityVars == <<part, orgVars, subVars, staffVars, smtpVars, rsiVars, vars>>

CommunityInit ==
  /\ part \in {"orgs", "submissions", "staff", "smtp", "rsi", "audit"}
  /\ OrgsInit /\ SubsInit /\ StaffInit /\ SmtpInit /\ RsiInit /\ Init

CommunityNext ==
  /\ part' = part
  /\ \/ part = "orgs" /\ OrgsNext /\ UNCHANGED <<subVars, staffVars, smtpVars, rsiVars, vars>>
     \/ part = "submissions" /\ SubsNext /\ UNCHANGED <<orgVars, staffVars, smtpVars, rsiVars, vars>>
     \/ part = "staff" /\ StaffNext /\ UNCHANGED <<orgVars, subVars, smtpVars, rsiVars, vars>>
     \/ part = "smtp" /\ SmtpNext /\ UNCHANGED <<orgVars, subVars, staffVars, rsiVars, vars>>
     \/ part = "rsi" /\ RsiNext /\ UNCHANGED <<orgVars, subVars, staffVars, smtpVars, vars>>
     \/ part = "audit" /\ Next /\ UNCHANGED <<orgVars, subVars, staffVars, smtpVars, rsiVars>>

CommunitySpec == CommunityInit /\ [][CommunityNext]_communityVars

(* Requests in flight: one set of model values for all parts, which are    *)
(* interchangeable in each of them.                                        *)
CommunitySymmetry ==
  Permutations(UNION {OrgCalls, SubCalls, StaffCalls, SmtpCalls, RsiCalls, Payloads})

(* Once every slug has leftovers hardly anything is claimed of the         *)
(* organisations any more.                                                 *)
OrgsBound == leftovers # Slugs
-----------------------------------------------------------------------------
(* Nobody inherits a role of a deleted organisation, every organisation    *)
(* has its owner, an administrator remains, the mailer follows the stored  *)
(* settings, only who controls a handle has it verified; a submission that *)
(* reaches the threshold is flagged and the queue shows what waits.        *)
CommunitySafe ==
  CASE part = "orgs" -> OrgsTypeOK /\ NoInheritedRole /\ OwnedByCreator /\ RoleShownHolds
    [] part = "submissions" -> SubsTypeOK /\ FlaggedInTime /\ QueueComplete
    [] part = "staff" -> StaffTypeOK /\ AdminRemains
    [] part = "smtp" -> MailerFollowsConfig
    [] part = "rsi" -> RsiTypeOK /\ VerifiedByOwner /\ OneMainOrg
    [] OTHER -> TRUE

(* Decisions stay: a decided submission is not changed by a vote or a      *)
(* flag, and a verification code in use is not replaced.                   *)
DecisionsStay == [][(part = "submissions" => DecidedKept) /\ (part = "rsi" => CodeKept)]_communityVars
=============================================================================
