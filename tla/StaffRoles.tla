----------------------------- MODULE StaffRoles -----------------------------
(***************************************************************************)
(* Site-wide staff roles of crates/starstats-server: staff_roles.rs, the   *)
(* gates of admin_routes.rs, and grant_role and revoke_role of             *)
(* admin_user_routes.rs.  A request passes the gate, looks the target up   *)
(* and writes: roles and accounts may change in between.                   *)
(***************************************************************************)
EXTENDS Integers, FiniteSets

CONSTANTS
  StaffUsers,     \* accounts
  BootstrapUsers, \* those of STARSTATS_BOOTSTRAP_ADMIN_HANDLES
  StaffCalls      \* requests in progress

ASSUME BootstrapAssumption == BootstrapUsers \subseteq StaffUsers

StaffRole == {"moderator", "admin"}
NoStaffCall == [at |-> "free"]

VARIABLES
  staffUsers,     \* accounts that exist
  staff_roles,    \* active grants, pairs of an account and a role
  revocations,    \* revoked grants: pairs of an account and who revoked it
  staffCall,      \* [StaffCalls -> progress of a request]
  unattended      \* history: no admin yet, an admin's account was deleted, or
                  \* an admin was revoked by one who was no longer admin

staffVars == <<staffUsers, staff_roles, revocations, staffCall, unattended>>

(* list_active_for_user and StaffRoleSet::has: an admin is a moderator.    *)
has(u, role) == <<u, role>> \in staff_roles \/ (role = "moderator" /\ <<u, "admin">> \in staff_roles)

Admins == {u \in StaffUsers : has(u, "admin")}

StaffInit ==
  /\ staffUsers = StaffUsers
  /\ staff_roles = {} /\ revocations = {}
  /\ staffCall = [c \in StaffCalls |-> NoStaffCall]
  /\ unattended = TRUE

StaffGo(c, step) == staffCall' = [staffCall EXCEPT ![c] = step]
-----------------------------------------------------------------------------
(* The server starts: whoever is named and has an account becomes admin,   *)
(* one who was revoked before too.  Requests in progress are gone.  The    *)
(* loop ends early when an audit entry cannot be written (n handles done). *)
grant_one(u) == {<<u, "admin">>}

bootstrap_admins_from_env ==
  /\ \E done \in SUBSET (BootstrapUsers \cap staffUsers) :
       /\ staff_roles' = staff_roles \cup UNION {grant_one(u) : u \in done}
       /\ unattended' = (unattended /\ done = {})
  /\ staffCall' = [c \in StaffCalls |-> NoStaffCall]
  /\ UNCHANGED <<staffUsers, revocations>>

(* RequireAdmin: the token's account is admin when the request comes in.   *)
require_admin(by) == has(by, "admin")

GrantStart(c, by, u, role) ==
  /\ staffCall[c] = NoStaffCall /\ require_admin(by) /\ u \in staffUsers
  /\ StaffGo(c, [at |-> "grant", by |-> by, user |-> u, role |-> role])
  /\ UNCHANGED <<staffUsers, staff_roles, revocations, unattended>>

(* grant; the foreign keys refuse accounts that are gone by now.           *)
grant(u, role, by) ==
  staff_roles' = IF {by, u} \subseteq staffUsers THEN staff_roles \cup {<<u, role>>} ELSE staff_roles

GrantWrite(c) ==
  /\ staffCall[c].at = "grant" /\ StaffGo(c, NoStaffCall)
  /\ grant(staffCall[c].user, staffCall[c].role, staffCall[c].by)
  /\ UNCHANGED <<staffUsers, revocations, unattended>>

(* revoke_role refuses to take one's own admin role.                       *)
RevokeStart(c, by, u, role) ==
  /\ staffCall[c] = NoStaffCall /\ require_admin(by) /\ u \in staffUsers
  /\ ~(by = u /\ role = "admin")
  /\ StaffGo(c, [at |-> "revoke", by |-> by, user |-> u, role |-> role])
  /\ UNCHANGED <<staffUsers, staff_roles, revocations, unattended>>

(* An UPDATE of the active grant, if there is one.                         *)
revoke(u, role, by) ==
  IF <<u, role>> \in staff_roles /\ by \in staffUsers
    THEN /\ staff_roles' = staff_roles \ {<<u, role>>}
         /\ revocations' = revocations \cup {<<u, by>>}
         /\ unattended' = (unattended \/ (role = "admin" /\ u # by /\ ~has(by, "admin")))
    ELSE UNCHANGED <<staff_roles, revocations, unattended>>

RevokeWrite(c) ==
  /\ staffCall[c].at = "revoke" /\ StaffGo(c, NoStaffCall)
  /\ revoke(staffCall[c].user, staffCall[c].role, staffCall[c].by)
  /\ UNCHANGED staffUsers

(* A grant that u revoked of someone else refers to u.  The foreign key    *)
(* would set the reference to NULL, the table's CHECK wants a revoker: the *)
(* deletion fails.                                                         *)
Deletable(u) == \A r \in revocations : r[2] = u => r[1] = u

(* delete_user of users.rs: grants of the account go with it.              *)
StaffAccountDeleted(u) ==
  /\ u \in staffUsers /\ Deletable(u)
  /\ staffUsers' = staffUsers \ {u}
  /\ staff_roles' = {g \in staff_roles : g[1] # u}
  /\ revocations' = {r \in revocations : r[1] # u}
  /\ unattended' = (unattended \/ has(u, "admin"))
  /\ UNCHANGED staffCall
-----------------------------------------------------------------------------
StaffNext ==
  \/ bootstrap_admins_from_env
  \/ \E u \in StaffUsers : StaffAccountDeleted(u)
  \/ \E c \in StaffCalls :
       \/ \E by, u \in StaffUsers, role \in StaffRole :
            GrantStart(c, by, u, role) \/ RevokeStart(c, by, u, role)
       \/ GrantWrite(c) \/ RevokeWrite(c)

StaffSpec == StaffInit /\ [][StaffNext]_staffVars
-----------------------------------------------------------------------------
(* Types; grants and revocations are of accounts that exist.               *)
StaffTypeOK ==
  /\ staff_roles \subseteq staffUsers \X StaffRole
  /\ revocations \subseteq staffUsers \X staffUsers

(* There is an admin, once there has been one: the rule that nobody takes  *)
(* their own admin role is enough (revoke_role), unless two admins revoke  *)
(* each other at the same time or an admin's account is deleted.           *)
AdminRemains == unattended \/ Admins # {}

(* The privacy page promises that everybody can delete their account.  The *)
(* tables break it for whoever has revoked somebody else's role.           *)
AccountDeletable == \A u \in staffUsers : Deletable(u)
=============================================================================
