--------------------------- MODULE Organisations ---------------------------
(***************************************************************************)
(* Organisations in crates/starstats-server: rows of the table             *)
(* organizations (orgs.rs) and relations in SpiceDB (spicedb.rs), written  *)
(* one after the other by org_routes.rs and admin_org_routes.rs.           *)
(*                                                                         *)
(* SpiceDB knows an organisation by its slug, the table by its id: what is *)
(* left behind under a slug belongs to whoever takes the slug next.  All   *)
(* organisations here have one name; slug k is its k-th candidate.         *)
(*                                                                         *)
(* SpiceDB answers from a revision that may lag behind the last write, and *)
(* a write it reports as failed may have been applied.                     *)
(***************************************************************************)
EXTENDS Integers, Sequences, FiniteSetsExt

CONSTANTS
  Members,        \* handles
  OrgCalls,       \* requests in progress
  SlugMax,        \* SLUG_COLLISION_MAX
  MaxOrgs         \* bound on organisations ever created (exploration only)

ASSUME OrgBounds == SlugMax \in Nat /\ MaxOrgs \in Nat

Slugs == 0..SlugMax
RoleOrder == <<"owner", "admin", "member">>
FirstRoles(n) == {RoleOrder[k] : k \in 1..n}
Roles == FirstRoles(Len(RoleOrder))
NoOrg == [id |-> 0]

VARIABLES
  organizations,  \* [Slugs -> row, NoOrg: none]; a row is [id, owner]
  relations,      \* SpiceDB: [slug, role, handle, for]; for is history: the
                  \* id of the organisation it was written for
  orgRevision,    \* the relations as SpiceDB answers from them
  orgIds,         \* ids used so far
  orgCall,        \* [OrgCalls -> progress of a request]
  leftovers,      \* history: slugs with a clean-up that failed or never ran,
                  \* with a creation taken back after its write was applied,
                  \* or with requests that overlapped
  ownerless       \* history: slugs whose owner was removed, or whose creation
                  \* could be neither finished nor undone

orgVars ==
  <<organizations, relations, orgRevision, orgIds, orgCall, leftovers, ownerless>>

OrgsInit ==
  /\ organizations = [s \in Slugs |-> NoOrg]
  /\ relations = {} /\ orgRevision = {} /\ orgIds = 0
  /\ orgCall = [c \in OrgCalls |-> [at |-> "free"]]
  /\ leftovers = {} /\ ownerless = {}

Exists(s) == organizations[s] # NoOrg
Doing(c, at) == orgCall[c].at = at
OrgStep(c, at) == orgCall' = [orgCall EXCEPT ![c].at = at]
OrgDone(c) == orgCall' = [orgCall EXCEPT ![c] = [at |-> "free"]]

(* Requests about one slug that overlap are noted when they start.         *)
OrgStart(c, s, step) ==
  /\ Doing(c, "free")
  /\ orgCall' = [orgCall EXCEPT ![c] = step]
  /\ leftovers' = IF \E d \in OrgCalls : ~Doing(d, "free") /\ orgCall[d].slug = s
                  THEN leftovers \cup {s} ELSE leftovers

HasRole(h, s, roles, rels) == \E rel \in rels : rel.slug = s /\ rel.handle = h /\ rel.role \in roles

(* schema.zed: manage_org = owner, manage_members = admin + owner; asked   *)
(* with minimize_latency.                                                  *)
May(h, s, roles) == HasRole(h, s, roles, orgRevision)

OrgRevisionAdvances ==
  /\ orgRevision' = relations
  /\ UNCHANGED <<organizations, relations, orgIds, orgCall, leftovers, ownerless>>
-----------------------------------------------------------------------------
(* create_org tries the slugs in order; the unique index decides.          *)
insert_org(h, s) ==
  /\ ~Exists(s)
  /\ orgIds < MaxOrgs /\ orgIds' = orgIds + 1
  /\ organizations' = [organizations EXCEPT ![s] = [id |-> orgIds', owner |-> h]]

CreateRow(c, h, s) ==
  /\ insert_org(h, s) /\ \A t \in 0..(s - 1) : Exists(t)
  /\ OrgStart(c, s, [at |-> "create", slug |-> s, id |-> orgIds', by |-> h])
  /\ UNCHANGED <<relations, orgRevision, ownerless>>

write_org_role(s, h, role, id) ==
  relations' = {rel \in relations : ~(rel.slug = s /\ rel.role = role /\ rel.handle = h)}
                 \cup {[slug |-> s, role |-> role, handle |-> h, for |-> id]}

CreateRole(c) ==
  /\ Doing(c, "create") /\ OrgDone(c)
  /\ write_org_role(orgCall[c].slug, orgCall[c].by, "owner", orgCall[c].id)
  /\ UNCHANGED <<organizations, orgRevision, orgIds, leftovers, ownerless>>

(* delete_by_id                                                            *)
delete_by_id(s, id) ==
  organizations' = IF organizations[s].id = id THEN [organizations EXCEPT ![s] = NoOrg]
                   ELSE organizations

(* The write fails, and may have been applied all the same: the row is     *)
(* taken back, if that works, the relation is not.                         *)
CreateUndo(c) ==
  /\ Doing(c, "create") /\ OrgDone(c)
  /\ LET s == orgCall[c].slug IN
       \E applied, undone \in BOOLEAN :
         /\ IF applied THEN write_org_role(s, orgCall[c].by, "owner", orgCall[c].id)
            ELSE UNCHANGED relations
         /\ IF undone THEN delete_by_id(s, orgCall[c].id) ELSE UNCHANGED organizations
         /\ leftovers' = IF applied /\ undone THEN leftovers \cup {s} ELSE leftovers
         /\ ownerless' = IF applied \/ undone THEN ownerless ELSE ownerless \cup {s}
  /\ UNCHANGED <<orgRevision, orgIds>>
-----------------------------------------------------------------------------
(* delete_org, and delete_org_admin, which asks for no relation.           *)
DeleteStart(c, s) ==
  /\ Exists(s) /\ \E h \in Members : May(h, s, {"owner"})
  /\ OrgStart(c, s, [at |-> "wipe", slug |-> s, id |-> organizations[s].id])
  /\ UNCHANGED <<organizations, relations, orgRevision, orgIds, ownerless>>

AdminDeleteStart(c, s) ==
  /\ Exists(s)
  /\ OrgStart(c, s, [at |-> "wipe", slug |-> s, id |-> organizations[s].id])
  /\ UNCHANGED <<organizations, relations, orgRevision, orgIds, ownerless>>

(* Mutant of delete_all_org_relationships: one role is forgotten.          *)
delete_all_org_relationships_but(s, n) ==
  {rel \in relations : rel.slug = s /\ rel.role \in FirstRoles(n) \ {"member"}}

(* delete_all_org_relationships, role after role: n of them are done.  The *)
(* pointers of records shared with the organisation, which come last, are  *)
(* state of Sharing.                                                       *)
delete_all_org_relationships(s, n) ==
  {rel \in relations : rel.slug = s /\ rel.role \in FirstRoles(n)}

(* It stops at the first call that fails, and the deletion goes on.        *)
WipeRelations(c) ==
  /\ Doing(c, "wipe") /\ OrgStep(c, "row")
  /\ LET s == orgCall[c].slug
     IN \E n \in 0..Len(RoleOrder) :
          /\ relations' = relations \ delete_all_org_relationships(s, n)
          /\ leftovers' = IF n < Len(RoleOrder) THEN leftovers \cup {s} ELSE leftovers
  /\ UNCHANGED <<organizations, orgRevision, orgIds, ownerless>>

DeleteOrgRow(c) ==
  /\ Doing(c, "row") /\ OrgDone(c)
  /\ delete_by_id(orgCall[c].slug, orgCall[c].id)
  /\ UNCHANGED <<relations, orgRevision, orgIds, leftovers, ownerless>>
-----------------------------------------------------------------------------

(* add_member: the permission, then the relation; one role is not removed  *)
(* for another.                                                            *)
AddCheck(c, by, h, s, role) ==
  /\ Exists(s) /\ May(by, s, {"admin", "owner"}) /\ role \in {"admin", "member"}
  /\ OrgStart(c, s, [at |-> "add", slug |-> s, id |-> organizations[s].id,
                     handle |-> h, role |-> role])
  /\ UNCHANGED <<organizations, relations, orgRevision, orgIds, ownerless>>

AddRole(c) ==
  /\ Doing(c, "add") /\ OrgDone(c)
  /\ write_org_role(orgCall[c].slug, orgCall[c].handle, orgCall[c].role, orgCall[c].id)
  /\ UNCHANGED <<organizations, orgRevision, orgIds, leftovers, ownerless>>

(* remove_member: an admin may remove the owner.                           *)
RemoveCheck(c, by, h, s) ==
  /\ Exists(s) /\ May(by, s, {"admin", "owner"})
  /\ OrgStart(c, s, [at |-> "remove", slug |-> s, handle |-> h])
  /\ UNCHANGED <<organizations, relations, orgRevision, orgIds, ownerless>>

(* Role after role; a failure after the first one is a 500.                *)
delete_org_member_all_roles(s, h) ==
  \E n \in 1..Len(RoleOrder) :
    relations' = {rel \in relations :
      ~(rel.slug = s /\ rel.handle = h /\ rel.role \in FirstRoles(n))}

RemoveRoles(c) ==
  /\ Doing(c, "remove") /\ OrgDone(c)
  /\ delete_org_member_all_roles(orgCall[c].slug, orgCall[c].handle)
  /\ ownerless' = IF HasRole(orgCall[c].handle, orgCall[c].slug, {"owner"}, relations)
                  THEN ownerless \cup {orgCall[c].slug} ELSE ownerless
  /\ UNCHANGED <<organizations, orgRevision, orgIds, leftovers>>

(* delete_user: the foreign key takes the owner's organisations along.     *)
OwnerAccountDeleted(h) ==
  /\ \E s \in Slugs : Exists(s) /\ organizations[s].owner = h
  /\ organizations' = [s \in Slugs |->
       IF Exists(s) /\ organizations[s].owner = h THEN NoOrg ELSE organizations[s]]
  /\ leftovers' = leftovers \cup {s \in Slugs : Exists(s) /\ organizations[s].owner = h}
  /\ UNCHANGED <<relations, orgRevision, orgIds, orgCall, ownerless>>

(* A call fails, or the server dies between two steps.                     *)
OrgCallDies(c) ==
  /\ ~Doing(c, "free") /\ OrgDone(c)
  /\ ownerless' = IF Doing(c, "create") \/ Doing(c, "row")
                  THEN ownerless \cup {orgCall[c].slug} ELSE ownerless
  /\ UNCHANGED <<organizations, relations, orgRevision, orgIds, leftovers>>
-----------------------------------------------------------------------------
(* list_org_members, and what is made of it.                               *)
list_org_members(s) == {<<rel.handle, rel.role>> : rel \in {rel \in orgRevision : rel.slug = s}}

(* The highest of several roles wins.                                      *)
your_role(h, s) ==
  RoleOrder[Min({k \in DOMAIN RoleOrder : <<h, RoleOrder[k]>> \in list_org_members(s)})]

member_count_for(s) == Cardinality({m[1] : m \in list_org_members(s)})

(* get_org: 404 to those who may not view it.                              *)
get_org(h, s) ==
  IF ~Exists(s) \/ ~May(h, s, Roles) THEN <<>>
  ELSE <<[members |-> list_org_members(s), your_role |-> your_role(h, s)]>>

(* list_orgs: of the accounts' own column, not of SpiceDB.                 *)
list_orgs(h) == {s \in Slugs : Exists(s) /\ organizations[s].owner = h}
-----------------------------------------------------------------------------
OrgsNext ==
  \/ OrgRevisionAdvances
  \/ \E h \in Members : OwnerAccountDeleted(h)
  \/ \E c \in OrgCalls :
       \/ \E s \in Slugs :
            \/ DeleteStart(c, s) \/ AdminDeleteStart(c, s)
            \/ \E h \in Members :
                 \/ CreateRow(c, h, s)
                 \/ \E by \in Members :
                      \/ RemoveCheck(c, by, h, s)
                      \/ \E role \in Roles \cup {"another"} : AddCheck(c, by, h, s, role)
       \/ CreateRole(c) \/ CreateUndo(c) \/ WipeRelations(c) \/ DeleteOrgRow(c)
       \/ AddRole(c) \/ RemoveRoles(c) \/ OrgCallDies(c)

OrgsSpec == OrgsInit /\ [][OrgsNext]_orgVars
-----------------------------------------------------------------------------
(* Types; a relation was written for an organisation that has existed.     *)
OrgsTypeOK ==
  /\ organizations \in [Slugs -> {NoOrg} \cup [id : 1..orgIds, owner : Members]]
  /\ relations \subseteq [slug : Slugs, role : Roles, handle : Members, for : 1..orgIds]
  /\ orgRevision \subseteq [slug : Slugs, role : Roles, handle : Members, for : 1..orgIds]
  /\ leftovers \subseteq Slugs /\ ownerless \subseteq Slugs

(* Whoever has a role under a slug was given it in the organisation that   *)
(* has the slug now, unless a clean-up failed (delete_org goes on then), a *)
(* creation was taken back although SpiceDB had applied the write that it  *)
(* reported as failed (create_org removes the row only), a deleted owner's *)
(* organisations went by the foreign key, or requests about the slug       *)
(* overlapped.                                                             *)
NoInheritedRole ==
  \A rel \in relations :
    rel.slug \notin leftovers => rel.for = organizations[rel.slug].id

(* An organisation that nobody is working on has its creator as owner, as  *)
(* long as nobody removed them and a failed creation could be taken back.  *)
OwnedByCreator ==
  \A s \in Slugs \ (ownerless \cup leftovers) :
    Exists(s) /\ (\A c \in OrgCalls : ~Doing(c, "free") => orgCall[c].slug # s)
      => HasRole(organizations[s].owner, s, {"owner"}, relations)

(* The role a page shows its reader is the one the server goes by, also    *)
(* for who has several, and the organisations on somebody's list, settled, *)
(* open for them as their owner once SpiceDB answers from its last write   *)
(* (get_org, list_orgs).                                                   *)
RoleShownHolds ==
  \A h \in Members, s \in Slugs :
    /\ get_org(h, s) # <<>> =>
         LET page == get_org(h, s)[1]
         IN /\ page.your_role = "owner" <=> May(h, s, {"owner"})
            /\ page.your_role \in {"owner", "admin"} <=> May(h, s, {"owner", "admin"})
            /\ member_count_for(s) \in 1..Cardinality(page.members)
    /\ /\ s \in list_orgs(h) \ (ownerless \cup leftovers) /\ orgRevision = relations
       /\ \A c \in OrgCalls : ~Doing(c, "free") => orgCall[c].slug # s
       => get_org(h, s) # <<>> /\ get_org(h, s)[1].your_role = "owner"
=============================================================================
