---------------------------- MODULE SharingViews ----------------------------
(***************************************************************************)
(* What the sharing pages show: an owner's list of shares and a viewer's   *)
(* list of owners (SpiceDB joined with share_metadata), the summary and    *)
(* timeline of a friend, of anybody and of the owner's preview             *)
(* (sharing_routes.rs), and the moderators' overview                       *)
(* (admin_sharing_routes.rs).  Sharing has the races; here each request is *)
(* one step.                                                               *)
(***************************************************************************)
EXTENDS Lists, FiniteSetsExt

CONSTANTS
  SharePairs,    \* pairs of an owner and a recipient
  Sharer,        \* the owner whose events are modelled
  TopLimit,      \* TOP_GRANTERS_LIMIT
  AuditPage,     \* the page size that AuditQuery::list clamps to
  MaxAudit       \* bound on audit rows (exploration only)

ASSUME SharingViewsAssumption ==
  /\ {TopLimit, AuditPage} \subseteq Nat \ {0} /\ MaxAudit \in Nat
  /\ IsFiniteSet(SharePairs) /\ \A p \in SharePairs : p = <<p[1], p[2]>>

EventType == {"t1", "t2"}

(* scope column: NULL, and a scope of each kind, with a window or filters. *)
Scope(kind, window, allow, deny) == [kind |-> kind, window |-> window, allow |-> allow, deny |-> deny]
NoWindow == 9
NullScope == Scope("null", NoWindow, EventType, {})
ShareScopes ==
  {NullScope, Scope("full", NoWindow, EventType, {"t2"}), Scope("timeline", 1, EventType, {}),
   Scope("aggregates", 1, {"t1"}, {}), Scope("tabs", NoWindow, EventType, {})}
ScopeKinds == {"full", "timeline", "aggregates", "tabs"}

(* Rows of events of Sharer; age in days.                                  *)
EventRows == {[type |-> "t1", age |-> 2], [type |-> "t2", age |-> 1]}
RequestDays == 2

VARIABLES
  shared,       \* SpiceDB: share_with_user
  openTo,       \* SpiceDB: public_view of Sharer
  metaRows,     \* share_metadata: [pair -> NoMeta or [scope, expires]]
  acts,         \* audit_log: [<<action, pair>> -> rows]
  ownEvents,    \* events of Sharer: [EventRows -> "none", "shown" or "hidden"]
  profiled,     \* Sharer has a snapshot of the RSI profile and organisations
  partial       \* history: a metadata write has failed

viewVars == <<shared, openTo, metaRows, acts, ownEvents, profiled, partial>>
NoMeta == [scope |-> NullScope, expires |-> "norow"]
Actions == {"share.granted", "share.revoked", "share.viewed"}

ViewsInit ==
  /\ shared = {} /\ openTo = FALSE
  /\ metaRows = [p \in SharePairs |-> NoMeta]
  /\ acts = [x \in Actions \X SharePairs |-> 0]
  /\ ownEvents = [e \in EventRows |-> "none"]
  /\ profiled = FALSE /\ partial = FALSE

AuditCount(S) == SumOver(S, acts)
Audited(action, p) ==
  /\ AuditCount(DOMAIN acts) < MaxAudit
  /\ acts' = [acts EXCEPT ![<<action, p>>] = @ + 1]
-----------------------------------------------------------------------------
(* add_share; the metadata may fail.                                       *)
Shares(p, scope, expires) ==
  /\ shared' = shared \cup {p}
  /\ \/ metaRows' = [metaRows EXCEPT ![p] = [scope |-> scope, expires |-> expires]] /\ UNCHANGED partial
     \/ partial' = TRUE /\ UNCHANGED metaRows
  /\ Audited("share.granted", p)
  /\ UNCHANGED <<openTo, ownEvents, profiled>>

(* delete_share                                                            *)
Unshares(p) ==
  /\ shared' = shared \ {p}
  /\ \/ metaRows' = [metaRows EXCEPT ![p] = NoMeta] /\ UNCHANGED partial
     \/ partial' = TRUE /\ UNCHANGED metaRows
  /\ Audited("share.revoked", p)
  /\ UNCHANGED <<openTo, ownEvents, profiled>>

(* set_visibility; the clock passes an expiry; an event is ingested,       *)
(* hidden or shown again.                                                  *)
Opens == openTo' = ~openTo /\ UNCHANGED <<shared, metaRows, acts, ownEvents, profiled, partial>>

Lapses(p) ==
  /\ metaRows[p].expires = "later"
  /\ metaRows' = [metaRows EXCEPT ![p].expires = "past"]
  /\ UNCHANGED <<shared, openTo, acts, ownEvents, profiled, partial>>

Plays(e) ==
  /\ ownEvents' = [ownEvents EXCEPT ![e] = IF @ = "shown" THEN "hidden" ELSE "shown"]
  /\ UNCHANGED <<shared, openTo, metaRows, acts, profiled, partial>>

(* refresh of RsiProfile has stored a snapshot.                            *)
Profiled == ~profiled /\ profiled' = TRUE /\ UNCHANGED <<shared, openTo, metaRows, acts, ownEvents, partial>>
-----------------------------------------------------------------------------
scope_from_value(scope) == scope

scope_allows_timeline(scope) == scope.kind \in {"null", "full", "timeline", "tabs"}
scope_allows_aggregates(scope) == scope.kind \in {"null", "full", "aggregates", "tabs"}
clamp_days(days, scope) == Min({days, scope.window})

Visible == {e \in EventRows : ownEvents[e] = "shown"}

apply_event_type_filter(rows, scope) ==
  {e \in rows : e.type \in scope.allow /\ e.type \notin scope.deny}

(* The summary: rows by type, and the total; window_days does not matter.  *)
render_summary_scoped(scope) ==
  LET rows == apply_event_type_filter(Visible, scope)
  IN [total |-> Cardinality(rows),
      by_type |-> [t \in {e.type : e \in rows} |-> Cardinality({e \in rows : e.type = t})]]

(* The timeline: a count for each day, filtered in the query.              *)
render_timeline_scoped(days, scope) ==
  [d \in 1..days |-> Cardinality({e \in apply_event_type_filter(Visible, scope) : e.age = d})]

(* An answer is a page or 404.                                             *)
ViewNotFound == <<>>
Answer(body) == <<body>>

(* check_public and render_or_404                                          *)
check_public == openTo
render_or_404(check, page) == IF check THEN Answer(page) ELSE ViewNotFound

public_summary == render_or_404(check_public, render_summary_scoped(NullScope))
public_timeline == render_or_404(check_public, render_timeline_scoped(RequestDays, NullScope))

(* The RSI snapshots: the owner's own page and anybody's.                  *)
own_profile == IF profiled THEN Answer("snapshot") ELSE ViewNotFound
public_profile == IF check_public THEN own_profile ELSE ViewNotFound
public_orgs == IF check_public THEN own_profile ELSE ViewNotFound

(* friend_summary and friend_timeline.  An expired share answers as none.  *)
MayView(p) == metaRows[p].expires # "past" /\ (p \in shared \/ openTo)

friend_summary(p) ==
  LET scope == metaRows[p].scope
  IN IF ~scope_allows_aggregates(scope) THEN ViewNotFound
     ELSE render_or_404(MayView(p), render_summary_scoped(scope))

friend_timeline(p) ==
  LET scope == metaRows[p].scope
  IN IF ~scope_allows_timeline(scope) THEN ViewNotFound
     ELSE render_or_404(MayView(p), render_timeline_scoped(clamp_days(RequestDays, scope), scope))

(* The owner's preview of a scope: an empty page instead of 404.           *)
preview_summary(scope) ==
  IF scope_allows_aggregates(scope) THEN render_summary_scoped(scope)
  ELSE [total |-> 0, by_type |-> [t \in {} |-> 0]]

preview_timeline(scope) ==
  IF scope_allows_timeline(scope)
    THEN render_timeline_scoped(clamp_days(RequestDays, scope), scope)
    ELSE [d \in {} |-> 0]

(* emit_share_viewed, after which the page is rendered.                    *)
Views(p) ==
  /\ p[1] = Sharer
  /\ friend_summary(p) # ViewNotFound \/ friend_timeline(p) # ViewNotFound
  /\ Audited("share.viewed", p)
  /\ UNCHANGED <<shared, openTo, metaRows, ownEvents, profiled, partial>>
-----------------------------------------------------------------------------
list_by_owner(o) == {p \in SharePairs : p[1] = o /\ metaRows[p] # NoMeta}
list_by_recipient(r) == {p \in SharePairs : p[2] = r /\ metaRows[p] # NoMeta}
share_views_for_owner(p) == acts[<<"share.viewed", p>>]

(* SpiceDB decides which shares there are, the rows are joined to them.    *)
list_share_with_user(o) == {p \in shared : p[1] = o}
list_share_with_me(r) == {p \in shared : p[2] = r}

Joined(rows, p) ==
  IF p \in rows THEN [scope |-> scope_from_value(metaRows[p].scope), expires |-> metaRows[p].expires]
  ELSE [scope |-> NullScope, expires |-> "never"]

list_shares(o) ==
  {[with |-> p[2], terms |-> Joined(list_by_owner(o), p), view_count |-> share_views_for_owner(p)]
     : p \in list_share_with_user(o)}

list_shared_with_me(r) ==
  {[from |-> p[1], terms |-> Joined(list_by_recipient(r), p)] : p \in list_share_with_me(r)}

get_visibility == check_public
-----------------------------------------------------------------------------
Active == {p \in SharePairs : metaRows[p].expires \in {"never", "later"}}

active_share_counts ==
  [total |-> Cardinality(Active),
   with_expiry |-> Cardinality({p \in Active : metaRows[p].expires = "later"})]

(* Those with fewer than TopLimit granters ahead of them.                  *)
top_active_granters ==
  LET counts == {[handle |-> o, n |-> Cardinality({p \in Active : p[1] = o})]
                   : o \in {p[1] : p \in Active}}
  IN {c \in counts : Cardinality({d \in counts : d.n > c.n}) < TopLimit}

(* A NULL scope counts as full.                                            *)
scope_histogram_active ==
  [k \in ScopeKinds |->
     Cardinality({p \in Active : metaRows[p].scope.kind \in {k} \cup (IF k = "full" THEN {"null"} ELSE {})})]

(* count_audit_action reads one page and counts it.                        *)
count_audit_action(action) == Min({AuditPage, AuditCount({action} \X SharePairs)})

get_overview ==
  [active |-> active_share_counts, top |-> top_active_granters,
   revocations |-> count_audit_action("share.revoked"), views |-> count_audit_action("share.viewed")]

get_scope_histogram == scope_histogram_active

(* get_user_sharing_context: the rows, expired ones too.                   *)
get_user_sharing_context(h) == [outbound |-> list_by_owner(h), inbound |-> list_by_recipient(h)]
-----------------------------------------------------------------------------
ViewsNext ==
  \/ Opens \/ Profiled \/ \E e \in EventRows : Plays(e)
  \/ \E p \in SharePairs :
       \/ \E scope \in ShareScopes, expires \in {"never", "later"} : Shares(p, scope, expires)
       \/ Unshares(p) \/ Lapses(p) \/ Views(p)

ViewsSpec == ViewsInit /\ [][ViewsNext]_viewVars
-----------------------------------------------------------------------------
(* Both ends of a share see it on their lists, with the same terms.        *)
ListsAgree ==
  \A p \in SharePairs :
    {e.terms : e \in {e \in list_shares(p[1]) : e.with = p[2]}}
      = {e.terms : e \in {e \in list_shared_with_me(p[2]) : e.from = p[1]}}

(* Anybody sees a snapshot exactly when the owner does and anybody sees    *)
(* the summary.                                                            *)
ProfileFollowsVisibility ==
  /\ public_profile # ViewNotFound <=> public_summary # ViewNotFound /\ own_profile # ViewNotFound
  /\ public_orgs # ViewNotFound <=> public_timeline # ViewNotFound /\ own_profile # ViewNotFound

(* What the owner's preview of a scope shows is what a viewer with it is   *)
(* shown, and neither holds a hidden or a filtered event; the two pages of *)
(* one viewer never disagree about a day.                                  *)
PreviewIsShown ==
  \A p \in SharePairs : p[1] = Sharer /\ MayView(p) =>
    LET scope == metaRows[p].scope
        summary == friend_summary(p)
        timeline == friend_timeline(p)
        May(e) == ownEvents[e] = "shown" /\ e.type \in scope.allow \ scope.deny
    IN /\ summary # ViewNotFound =>
            /\ summary = Answer(preview_summary(scope))
            /\ summary[1].total = Cardinality({e \in EventRows : May(e)})
            /\ summary[1].total = SumOver(DOMAIN summary[1].by_type, summary[1].by_type)
       /\ timeline # ViewNotFound =>
            /\ timeline = Answer(preview_timeline(scope))
            /\ \A d \in DOMAIN timeline[1] :
                 timeline[1][d] = Cardinality({e \in EventRows : May(e) /\ e.age = d})
       /\ openTo /\ scope = NullScope => public_summary = summary /\ public_timeline = timeline

(* The moderators' numbers agree with each other, and with the owners'     *)
(* lists as long as no metadata write has failed.                          *)
OverviewAgrees ==
  LET total == get_overview.active.total
      owners == {p[1] : p \in SharePairs}
      current(o) == {e \in list_shares(o) : e.terms.expires # "past"}
  IN /\ total = SumOver(ScopeKinds, get_scope_histogram)
     /\ get_overview.active.with_expiry <= total
     /\ Cardinality(owners) <= TopLimit =>
          SumOver(get_overview.top, [c \in get_overview.top |-> c.n]) = total
     /\ ~partial => total = SumOver(owners, [o \in owners |-> Cardinality(current(o))])
     /\ ~partial => \A o \in owners :
          Cardinality(get_user_sharing_context(o).outbound) = Cardinality(list_shares(o))

(* The sharing pages agree.                                                *)
SharingPagesAgree ==
  ListsAgree /\ ProfileFollowsVisibility /\ PreviewIsShown /\ OverviewAgrees
=============================================================================
