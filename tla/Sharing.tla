------------------------------ MODULE Sharing ------------------------------
(***************************************************************************)
(* What one owner shares with whom, in crates/starstats-server: the        *)
(* handlers of sharing_routes.rs over SpiceDB relations (spicedb.rs) and   *)
(* rows of share_metadata (share_metadata.rs).                             *)
(*                                                                         *)
(* SpiceDB says who may look, the row says until when and at what; the two *)
(* are written and read one after the other, by requests that overlap.  A  *)
(* request may die between its steps.  A row whose columns are NULL and no *)
(* row read the same, and so they are one value here.                      *)
(*                                                                         *)
(* SpiceDB is asked with its default consistency and answers from a        *)
(* revision that may lag behind the last write; and it compares handles    *)
(* with case, which share_metadata does not.                               *)
(***************************************************************************)
EXTENDS Integers, FiniteSets

CONSTANTS
  Viewers,          \* handles other than the owner's
  OrgMembers,       \* those in the organisation the owner may share with
  ShareCalls,       \* requests in progress
  RapidThreshold,   \* RAPID_GRANT_THRESHOLD
  MaxGrants         \* bound on grants ever made (exploration only)

ASSUME OrgMembersAssumption == OrgMembers \subseteq Viewers
ASSUME RapidThresholdAssumption == RapidThreshold \in Nat \ {0} /\ MaxGrants \in Nat

Kinds == {"timeline", "aggregates"}
(* ShareScope.kind; "full" and, for what the server enforces, "tabs".      *)
Scopes == {"full"} \cup Kinds
Terms == [scope : Scopes, expiry : {"never", "later", "past"}]
NoTerms == [scope |-> "full", expiry |-> "never"]
NotShared == [scope |-> "none", expiry |-> "never"]

VARIABLES
  grants,       \* relation share_with_user of the owner's stats_record
  public,       \* relation public_view
  orgShare,     \* relation share_with_org
  revision,     \* the three relations as SpiceDB answers from them
  meta,         \* share_metadata of the owner: [Viewers -> Terms]
  auditRows,    \* audit_log: [action -> number of rows], within the window
  shareCall,    \* [ShareCalls -> progress of a request]
  wanted,       \* history: what the owner last asked for, per viewer
  muddled,      \* history: viewers with a request that failed, or with requests
                \* that overlapped, at least one of them of the owner
  crowded,      \* history: viewers with views that overlapped
  lingering,    \* history: viewers whose grant outlived the last unshare, which
                \* named them in another case
  overshown     \* history: viewers shown what the owner had not granted

shareVars ==
  <<grants, public, orgShare, revision, meta, auditRows, shareCall, wanted, muddled, crowded,
    lingering, overshown>>

NoCall == [at |-> "free"]

Relations == [grants |-> grants, public |-> public, orgShare |-> orgShare]

SharingInit ==
  /\ grants = {} /\ public = FALSE /\ orgShare = FALSE /\ revision = Relations
  /\ meta = [v \in Viewers |-> NoTerms]
  /\ auditRows = [a \in {"share.granted", "share.created"} |-> 0]
  /\ shareCall = [c \in ShareCalls |-> NoCall]
  /\ wanted = [v \in Viewers |-> NotShared]
  /\ muddled = {} /\ crowded = {} /\ lingering = {} /\ overshown = {}

Busy(v) == {c \in ShareCalls : shareCall[c] # NoCall /\ shareCall[c].viewer = v}
Is(c, at) == shareCall[c].at = at

ViewSteps == {"view_meta", "lapse", "lapse_meta", "scope"}

(* A request starts; one that overlaps another is noted.                   *)
Open(c, v, step) ==
  /\ shareCall[c] = NoCall
  /\ shareCall' = [shareCall EXCEPT ![c] = step]
  /\ LET views == step.at = "view_meta" /\ \A d \in Busy(v) : shareCall[d].at \in ViewSteps
     IN /\ muddled' = IF Busy(v) = {} \/ views THEN muddled ELSE muddled \cup {v}
        /\ crowded' = IF Busy(v) # {} /\ views THEN crowded \cup {v} ELSE crowded

Step(c, at) == shareCall' = [shareCall EXCEPT ![c].at = at]
Close(c) == shareCall' = [shareCall EXCEPT ![c] = NoCall]

(* schema.zed: view = share_with_user + share_with_org->view + public_view *)
MaySee(v, rel) == v \in rel.grants \/ rel.public \/ (rel.orgShare /\ v \in OrgMembers)

(* consistency: None is minimize_latency.                                  *)
check_view(v) == MaySee(v, revision)

(* SpiceDB's revision moves on when it sees fit.                           *)
RevisionAdvances ==
  /\ revision' = Relations
  /\ UNCHANGED <<grants, public, orgShare, meta, auditRows, shareCall, wanted, muddled, crowded,
                 lingering, overshown>>
-----------------------------------------------------------------------------
(* set_visibility, share_with_org, unshare_with_org: one relation each.    *)
write_public_view(p) == public' = p

write_share_with_org(s) == orgShare' = s

set_visibility(p) ==
  /\ write_public_view(p)
  /\ UNCHANGED <<grants, orgShare, revision, meta, auditRows, shareCall, wanted, muddled, crowded,
                 lingering, overshown>>

share_with_org ==
  /\ write_share_with_org(TRUE)
  /\ UNCHANGED <<grants, public, revision, meta, auditRows, shareCall, wanted, muddled, crowded,
                 lingering, overshown>>

unshare_with_org ==
  /\ write_share_with_org(FALSE)
  /\ UNCHANGED <<grants, public, revision, meta, auditRows, shareCall, wanted, muddled, crowded,
                 lingering, overshown>>

(* The limit of check_rapid_grant counts rows of share.created.            *)
check_rapid_grant == auditRows["share.created"] < RapidThreshold

(* add_share: everything it checks before the first write.  An expiry in   *)
(* the past is refused.                                                    *)
AddStart(c, v, terms) ==
  /\ check_rapid_grant
  /\ auditRows["share.granted"] + Cardinality({d \in ShareCalls : Is(d, "add")}) < MaxGrants
  /\ terms.expiry # "past"
  /\ Open(c, v, [at |-> "add", viewer |-> v, terms |-> terms])
  /\ UNCHANGED <<grants, public, orgShare, revision, meta, auditRows, wanted, lingering, overshown>>

write_share_with_user(v) == grants' = grants \cup {v}

AddGrant(c) ==
  /\ Is(c, "add") /\ Step(c, "add_meta")
  /\ write_share_with_user(shareCall[c].viewer)
  /\ UNCHANGED <<public, orgShare, revision, meta, auditRows, wanted, muddled, crowded, lingering,
                 overshown>>

(* Mutant of upsert: a column that is NULL does not overwrite.             *)
upsert_keeps(v, terms) ==
  meta' = [meta EXCEPT ![v] = [scope  |-> IF terms.scope = "full" THEN @.scope ELSE terms.scope,
                               expiry |-> IF terms.expiry = "never" THEN @.expiry ELSE terms.expiry]]

upsert(v, terms) == meta' = [meta EXCEPT ![v] = terms]

(* The upsert may fail.                                                    *)
AddMeta(c) ==
  /\ Is(c, "add_meta") /\ Close(c)
  /\ LET v == shareCall[c].viewer IN
       /\ \/ upsert(v, shareCall[c].terms) /\ UNCHANGED muddled
          \/ muddled' = muddled \cup {v} /\ UNCHANGED meta
       /\ wanted' = [wanted EXCEPT ![v] = shareCall[c].terms]
       /\ lingering' = lingering \ {v}
  /\ auditRows' = [auditRows EXCEPT !["share.granted"] = @ + 1]
  /\ UNCHANGED <<crowded, grants, public, orgShare, revision, overshown>>

(* SpiceDB finds nothing to delete under a handle in another case.         *)
delete_share_with_user(v, exact) == grants' = IF exact THEN grants \ {v} ELSE grants

(* delete_share takes the handle as the caller wrote it.                   *)
DelGrant(c, v, exact) ==
  /\ Open(c, v, [at |-> "del_meta", viewer |-> v])
  /\ delete_share_with_user(v, exact)
  /\ UNCHANGED <<public, orgShare, revision, meta, auditRows, wanted, lingering, overshown>>

(* share_metadata::delete compares handles without case.                   *)
delete_meta(v) == meta' = [meta EXCEPT ![v] = NoTerms]

DelMeta(c) ==
  /\ Is(c, "del_meta") /\ Close(c)
  /\ LET v == shareCall[c].viewer IN
       /\ \/ delete_meta(v) /\ UNCHANGED muddled
          \/ muddled' = muddled \cup {v} /\ UNCHANGED meta
       /\ wanted' = [wanted EXCEPT ![v] = NotShared]
       /\ lingering' = IF v \in grants THEN lingering \cup {v} ELSE lingering \ {v}
  /\ UNCHANGED <<crowded, grants, public, orgShare, revision, auditRows, overshown>>
-----------------------------------------------------------------------------
Current(terms) == terms.expiry # "past"

(* friend_summary and friend_timeline ask SpiceDB first.  due records what *)
(* the viewer may be shown by then; it is TRUE as well for a request that  *)
(* an outdated revision or a lingering grant lets in.                      *)
ViewCheck(c, v, kind) ==
  /\ check_view(v)
  /\ Open(c, v, [at |-> "view_meta", viewer |-> v, kind |-> kind,
                 due |-> \/ ~MaySee(v, Relations) \/ v \in lingering
                         \/ public \/ (orgShare /\ v \in OrgMembers)
                         \/ Current(wanted[v]) /\ wanted[v].scope \in {"full", kind}])
  /\ UNCHANGED <<grants, public, orgShare, revision, meta, auditRows, wanted, lingering, overshown>>

(* The row decides; when it cannot be read the view goes on.               *)
check_view_with_expiry(v) == IF meta[v].expiry = "past" THEN "lapse" ELSE "scope"

ViewMeta(c) ==
  /\ Is(c, "view_meta")
  /\ \/ Step(c, check_view_with_expiry(shareCall[c].viewer)) /\ UNCHANGED muddled
     \/ /\ Step(c, "scope")
        /\ muddled' = muddled \cup {shareCall[c].viewer}
  /\ UNCHANGED <<crowded, grants, public, orgShare, revision, meta, auditRows, wanted, lingering,
                 overshown>>

(* The lazy revocation of an expired share; either delete may fail, that   *)
(* of SpiceDB after it has been applied as well.                           *)
LapseGrant(c) ==
  /\ Is(c, "lapse") /\ Step(c, "lapse_meta")
  /\ \/ delete_share_with_user(shareCall[c].viewer, TRUE) /\ UNCHANGED muddled
     \/ /\ muddled' = muddled \cup {shareCall[c].viewer}
        /\ \E applied \in BOOLEAN : delete_share_with_user(shareCall[c].viewer, applied)
  /\ UNCHANGED <<crowded, public, orgShare, revision, meta, auditRows, wanted, lingering, overshown>>

LapseMeta(c) ==
  /\ Is(c, "lapse_meta") /\ Close(c)
  /\ \/ delete_meta(shareCall[c].viewer) /\ UNCHANGED muddled
     \/ muddled' = muddled \cup {shareCall[c].viewer} /\ UNCHANGED meta
  /\ wanted' = [wanted EXCEPT ![shareCall[c].viewer] = NotShared]
  /\ lingering' = lingering \ {shareCall[c].viewer}
  /\ UNCHANGED <<crowded, grants, public, orgShare, revision, auditRows, overshown>>

(* scope_allows_timeline, scope_allows_aggregates                          *)
scope_allows(scope, kind) == scope \in {"full", kind}

(* The second read of the row clamps what is shown; failing, nothing does. *)
ViewScope(c) ==
  /\ Is(c, "scope") /\ Close(c)
  /\ LET v == shareCall[c].viewer IN
       \/ /\ overshown' = IF scope_allows(meta[v].scope, shareCall[c].kind) /\ ~shareCall[c].due
                          THEN overshown \cup {v} ELSE overshown
          /\ UNCHANGED muddled
       \/ /\ overshown' = IF shareCall[c].due THEN overshown ELSE overshown \cup {v}
          /\ muddled' = muddled \cup {v}
  /\ UNCHANGED <<crowded, grants, public, orgShare, revision, meta, auditRows, wanted, lingering>>

(* The clock passes expires_at.                                            *)
ShareExpires(v) ==
  /\ meta[v].expiry = "later"
  /\ meta' = [meta EXCEPT ![v].expiry = "past"]
  /\ wanted' = IF wanted[v] = meta[v] THEN [wanted EXCEPT ![v].expiry = "past"] ELSE wanted
  /\ UNCHANGED <<grants, public, orgShare, revision, auditRows, shareCall, muddled, crowded, lingering,
                 overshown>>

(* A 500 for a failed SpiceDB call, or a crash.                            *)
ShareCallDies(c) ==
  /\ shareCall[c] # NoCall /\ Close(c)
  /\ muddled' = IF shareCall[c].at \in {"add_meta", "del_meta", "lapse_meta"}
                THEN muddled \cup {shareCall[c].viewer} ELSE muddled
  /\ UNCHANGED <<crowded, grants, public, orgShare, revision, meta, auditRows, wanted, lingering,
                 overshown>>
-----------------------------------------------------------------------------
SharingNext ==
  \/ \E b \in BOOLEAN : set_visibility(b)
  \/ share_with_org \/ unshare_with_org \/ RevisionAdvances
  \/ \E v \in Viewers : ShareExpires(v)
  \/ \E c \in ShareCalls :
       \/ \E v \in Viewers :
            \/ \E terms \in Terms : AddStart(c, v, terms)
            \/ \E exact \in BOOLEAN : DelGrant(c, v, exact)
            \/ \E kind \in Kinds : ViewCheck(c, v, kind)
       \/ AddGrant(c) \/ AddMeta(c) \/ DelMeta(c)
       \/ ViewMeta(c) \/ LapseGrant(c) \/ LapseMeta(c) \/ ViewScope(c)
       \/ ShareCallDies(c)

SharingSpec == SharingInit /\ [][SharingNext]_shareVars
-----------------------------------------------------------------------------
(* Types; a row of share_metadata is never left half written.              *)
SharingTypeOK ==
  /\ grants \subseteq Viewers /\ {public, orgShare} \subseteq BOOLEAN
  /\ meta \in [Viewers -> Terms] /\ wanted \in [Viewers -> Terms \cup {NotShared}]
  /\ revision \in [grants : SUBSET Viewers, public : BOOLEAN, orgShare : BOOLEAN]
  /\ muddled \cup crowded \subseteq Viewers /\ lingering \cup overshown \subseteq Viewers
  /\ \A c \in ShareCalls : shareCall[c] # NoCall => shareCall[c].viewer \in Viewers

(* When no request about a viewer is open, none overlapped and none failed *)
(* half way, SpiceDB and share_metadata hold exactly what the owner last   *)
(* asked for: a re-share overwrites every column, a revocation or a lapse  *)
(* leaves nothing that a later grant would inherit.  The one grant too     *)
(* many is that of a viewer whom the owner unshared in another case: its   *)
(* terms are gone, the relation stays until it is named as it was written. *)
SharedAsAsked ==
  \A v \in Viewers \ muddled : Busy(v) = {} =>
    /\ v \in grants <=> wanted[v] # NotShared \/ v \in lingering
    /\ meta[v] = IF wanted[v] = NotShared THEN NoTerms ELSE wanted[v]

(* Nobody is shown more than the owner had granted when the request came   *)
(* in: nothing after the expiry, nothing outside the scope.  It needs that *)
(* requests about the viewer do not overlap (the grant is written before   *)
(* its scope, the scope is read after the permission), that the reads of   *)
(* the row succeed (the code lets a view pass when they fail), that        *)
(* SpiceDB would not refuse the viewer if it answered from its present     *)
(* relations, and that no grant lingers: whoever is let in after the row   *)
(* has gone is shown everything.                                           *)
ShownAsGranted == overshown \subseteq muddled \cup crowded
=============================================================================
