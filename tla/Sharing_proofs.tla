--------------------------- MODULE Sharing_proofs ---------------------------
(***************************************************************************)
(* Proofs about Sharing and ShareReports for any viewers, reporters,       *)
(* owners, limits and numbers of requests in progress: what is shared is   *)
(* what the owner asked for, nobody is shown more, and concurrent reports  *)
(* pass neither the rate limit by more than the race allows nor the pause. *)
(* Then about Donations: a payment is recorded once and for the user who   *)
(* paid.  Then about what is read: pages and lists lose nothing, a failed  *)
(* refresh is retried, and what is derived from a history of any length is *)
(* what is meant.                                                          *)
(***************************************************************************)
EXTENDS MCSharing, Donations, Lists_proofs

(* The requests, by what they carry.                                       *)
AddCall == [at : {"add", "add_meta"}, viewer : Viewers, terms : Terms]
DelCall == [at : {"del_meta"}, viewer : Viewers]
ViewCall == [at : ViewSteps, viewer : Viewers, kind : Kinds, due : BOOLEAN]
CallType == {NoCall} \cup AddCall \cup DelCall \cup ViewCall

SharingTyped ==
  /\ SharingTypeOK
  /\ shareCall \in [ShareCalls -> CallType]
  /\ auditRows \in [{"share.granted", "share.created"} -> Nat]

(* Between its two writes a request has changed the grant already, unless  *)
(* it is an unshare in another case.                                       *)
HalfWay == {"add_meta", "del_meta", "lapse_meta"}

GrantWritten(v) ==
  \A c \in Busy(v) :
    /\ shareCall[c].at = "add_meta" => v \in grants
    /\ shareCall[c].at = "lapse_meta" => v \notin grants

(* Otherwise SpiceDB and the row say what the owner asked for.             *)
Settled(v) ==
  /\ v \in grants <=> wanted[v] # NotShared \/ v \in lingering
  /\ meta[v] = IF wanted[v] = NotShared THEN NoTerms ELSE wanted[v]

SettledElse(v) == (\A c \in Busy(v) : shareCall[c].at \notin HalfWay) => Settled(v)

(* A view that is due nothing finds a row that refuses it.                 *)
RowRefuses(v) ==
  \A c \in Busy(v) :
    shareCall[c].at \in ViewSteps /\ ~shareCall[c].due =>
      /\ shareCall[c].at = "view_meta" =>
           meta[v].expiry = "past" \/ meta[v].scope \notin {"full", shareCall[c].kind}
      /\ shareCall[c].at = "scope" => meta[v].scope \notin {"full", shareCall[c].kind}

(* Requests about a viewer that overlap are views, unless it is muddled;   *)
(* and there is one view at a time, unless it is crowded.                  *)
ViewerInv(v) ==
  /\ v \notin muddled =>
       /\ \A c, d \in Busy(v) : c # d => shareCall[c].at \in ViewSteps
       /\ GrantWritten(v) /\ SettledElse(v)
  /\ v \notin muddled \cup crowded =>
       /\ \A c, d \in Busy(v) : c = d
       /\ RowRefuses(v)
       /\ v \notin overshown

(* The inductive invariant of Sharing.                                     *)
SharingInv == SharingTyped /\ \A v \in Viewers : ViewerInv(v)
-----------------------------------------------------------------------------
(* The same for ShareReports.                                              *)
Report == [reporter : Reporters, owner : Owners, status : {"open"} \cup Resolutions]
ReportCallType ==
  {[at |-> "free"]} \cup [at : {"create", "cluster"}, reporter : Reporters, owner : Owners]

ReportsTyped ==
  /\ reports \in Seq(Report) /\ Len(reports) <= MaxReports
  /\ oldest \in Nat
  /\ reportCall \in [ReportCalls -> ReportCallType]

(* Requests that have passed the rate limit and have yet to insert.        *)
Racing(r) == {c \in ReportCalls : reportCall[c].at = "create" /\ reportCall[c].reporter = r}
ByReporter(r) == {k \in Recent(Len(reports)) : reports[k].reporter = r}
About(o) == {k \in Recent(Len(reports)) : reports[k].owner = o}

(* They count towards what a reporter may reach.                           *)
RacersCounted ==
  \A r \in Reporters \ uncounted :
    Cardinality(ByReporter(r)) + Cardinality(Racing(r)) <= RateLimit + Cardinality(ReportCalls) - 1

(* A cluster has led to a pause, or a request is about to count it.        *)
ClusterCounted ==
  \A o \in Owners \ pauseFailed :
    Len(reports) <= ListCap /\ Cardinality(About(o)) >= ClusterThreshold =>
      \/ o \in pauseSet
      \/ \E c \in ReportCalls : reportCall[c].at = "cluster" /\ reportCall[c].owner = o

ReportsInv == ReportsTyped /\ RacersCounted /\ ClusterCounted
-----------------------------------------------------------------------------
(* Sharing.  A request that starts, goes on or ends, and the others.       *)
Others(c) == \A d \in ShareCalls \ {c} : shareCall'[d] = shareCall[d]

LEMMA CallShape ==
  ASSUME SharingTyped, NEW c \in ShareCalls, shareCall[c] # NoCall
  PROVE  /\ shareCall[c].viewer \in Viewers
         /\ \/ shareCall[c] \in AddCall /\ shareCall[c].at \in {"add", "add_meta"}
            \/ shareCall[c] \in DelCall /\ shareCall[c].at = "del_meta"
            \/ shareCall[c] \in ViewCall /\ shareCall[c].at \in ViewSteps
  BY DEF SharingTyped, CallType, AddCall, DelCall, ViewCall

LEMMA FreeShape ==
  ASSUME SharingTyped, NEW c \in ShareCalls
  PROVE  shareCall[c] = NoCall <=> shareCall[c].at = "free"
  BY CallShape DEF NoCall, ViewSteps

LEMMA CloseTyped ==
  ASSUME SharingTyped, NEW c \in ShareCalls, Close(c)
  PROVE  shareCall' \in [ShareCalls -> CallType] /\ shareCall'[c] = NoCall /\ Others(c)
  BY DEF SharingTyped, Close, CallType, Others

LEMMA StepTyped ==
  ASSUME SharingTyped, NEW c \in ShareCalls, NEW step, Step(c, step),
         \/ shareCall[c] \in AddCall /\ step \in {"add", "add_meta"}
         \/ shareCall[c] \in ViewCall /\ step \in ViewSteps
  PROVE  /\ shareCall' \in [ShareCalls -> CallType] /\ shareCall'[c] # NoCall /\ Others(c)
         /\ shareCall'[c].at = step /\ shareCall'[c].viewer = shareCall[c].viewer
         /\ shareCall[c] \in AddCall => shareCall'[c].terms = shareCall[c].terms
         /\ shareCall[c] \in ViewCall => /\ shareCall'[c].kind = shareCall[c].kind
                                         /\ shareCall'[c].due = shareCall[c].due
<1>1. shareCall'[c] = [shareCall[c] EXCEPT !.at = step] /\ Others(c)
  BY DEF SharingTyped, Step, Others
<1>2. CASE shareCall[c] \in AddCall /\ step \in {"add", "add_meta"}
  <2>1. shareCall'[c] \in AddCall
    BY <1>1, <1>2 DEF AddCall
  <2>. QED  BY <1>1, <1>2, <2>1 DEF AddCall, ViewCall, ViewSteps, SharingTyped, CallType, Step, NoCall
<1>3. CASE shareCall[c] \in ViewCall /\ step \in ViewSteps
  <2>1. shareCall'[c] \in ViewCall
    BY <1>1, <1>3 DEF ViewCall
  <2>. QED  BY <1>1, <1>3, <2>1 DEF AddCall, ViewCall, ViewSteps, SharingTyped, CallType, Step, NoCall
<1>. QED  BY <1>2, <1>3

LEMMA OpenTyped ==
  ASSUME SharingTyped, NEW c \in ShareCalls, NEW v \in Viewers, NEW step \in CallType \ {NoCall},
         step.viewer = v, Open(c, v, step)
  PROVE  /\ shareCall' \in [ShareCalls -> CallType] /\ shareCall'[c] = step /\ Others(c)
         /\ shareCall[c] = NoCall
         /\ muddled \subseteq muddled' /\ muddled' \subseteq muddled \cup {v}
         /\ crowded \subseteq crowded' /\ crowded' \subseteq crowded \cup {v}
         /\ v \notin muddled' => \/ Busy(v) = {}
                               \/ /\ v \in crowded' /\ step.at = "view_meta"
                                  /\ \A d \in Busy(v) : shareCall[d].at \in ViewSteps
  BY DEF SharingTyped, Open, Others
(* A viewer whom a step does not concern.                                  *)
LEMMA Untouched ==
  ASSUME SharingTyped, NEW v \in Viewers, ViewerInv(v),
         \A c \in ShareCalls :
           \/ shareCall'[c] = shareCall[c]
           \/ c \notin Busy(v) /\ (shareCall'[c] = NoCall \/ shareCall'[c].viewer # v),
         v \in grants' <=> v \in grants, meta'[v] = meta[v], wanted'[v] = wanted[v],
         v \in lingering' <=> v \in lingering,
         v \in muddled => v \in muddled', v \in crowded => v \in crowded',
         v \in overshown' => v \in overshown
  PROVE  ViewerInv(v)'
<1>1. /\ \A c \in ShareCalls : c \in Busy(v)' <=> c \in Busy(v)
      /\ \A c \in Busy(v) : shareCall'[c] = shareCall[c]
  BY DEF Busy
<1>2. GrantWritten(v) => GrantWritten(v)'
  BY <1>1 DEF GrantWritten, Busy
<1>3. SettledElse(v) => SettledElse(v)'
  BY <1>1 DEF SettledElse, Settled, Busy
<1>4. RowRefuses(v) => RowRefuses(v)'
  BY <1>1 DEF RowRefuses, Busy
<1>. QED  BY <1>1, <1>2, <1>3, <1>4 DEF ViewerInv, Busy

(* A step of one request about v: what it has to establish for v.          *)
LEMMA OneCall ==
  ASSUME SharingInv, NEW c \in ShareCalls, NEW v \in Viewers, Others(c),
         shareCall[c] = NoCall \/ shareCall[c].viewer = v,
         shareCall'[c] = NoCall \/ shareCall'[c].viewer = v,
         \A u \in Viewers \ {v} : /\ u \in grants' <=> u \in grants
                                  /\ meta'[u] = meta[u] /\ wanted'[u] = wanted[u]
                                  /\ u \in lingering' <=> u \in lingering
                                  /\ u \in overshown' => u \in overshown,
         muddled \subseteq muddled', crowded \subseteq crowded',
         v \notin muddled' => ViewerInv(v)'
  PROVE  \A u \in Viewers : ViewerInv(u)'
<1>. SUFFICES ASSUME NEW u \in Viewers  PROVE ViewerInv(u)'
  OBVIOUS
<1>1. CASE u = v
  BY <1>1 DEF ViewerInv
<1>2. CASE u # v
  BY <1>2, Untouched DEF SharingInv, Others, Busy
<1>. QED  BY <1>1, <1>2

(* With every call of v but c left alone, and c not a view or v uncrowded, *)
(* c was the only one.                                                     *)
LEMMA OnlyCall ==
  ASSUME SharingInv, NEW c \in ShareCalls, NEW v \in Viewers, c \in Busy(v), v \notin muddled,
         shareCall[c].at \notin ViewSteps \/ v \notin crowded
  PROVE  Busy(v) = {c}
  BY DEF SharingInv, ViewerInv, Busy

LEMMA AddStartStep ==
  ASSUME SharingInv, NEW c \in ShareCalls, NEW v \in Viewers, NEW terms \in Terms, AddStart(c, v, terms)
  PROVE  SharingInv'
<1>1. PICK step \in CallType \ {NoCall} :
        /\ step = [at |-> "add", viewer |-> v, terms |-> terms]
        /\ step.viewer = v /\ step.at = "add" /\ Open(c, v, step)
  BY DEF AddStart, CallType, AddCall, NoCall
<1>2. /\ shareCall' \in [ShareCalls -> CallType] /\ shareCall'[c] = step /\ Others(c)
      /\ shareCall[c] = NoCall
      /\ muddled \subseteq muddled' /\ muddled' \subseteq muddled \cup {v}
      /\ crowded \subseteq crowded' /\ crowded' \subseteq crowded \cup {v}
      /\ v \notin muddled' => Busy(v) = {}
  BY <1>1, OpenTyped DEF SharingInv
<1>3. UNCHANGED <<grants, public, orgShare, revision, meta, auditRows, wanted, lingering, overshown>>
  BY DEF AddStart
<1>4. SharingTyped'
  BY <1>2, <1>3 DEF SharingInv, SharingTyped, SharingTypeOK, CallType, AddCall, DelCall, ViewCall
<1>5. ASSUME v \notin muddled' PROVE ViewerInv(v)'
  <2>1. Busy(v)' = {c} /\ Settled(v)
    BY <1>1, <1>2, <1>5 DEF SharingInv, ViewerInv, SettledElse, Busy, Others
  <2>2. GrantWritten(v)' /\ SettledElse(v)' /\ RowRefuses(v)'
    BY <1>1, <1>2, <1>3, <2>1 DEF GrantWritten, SettledElse, Settled, RowRefuses, ViewSteps
  <2>. QED  BY <1>2, <1>3, <1>5, <2>1, <2>2 DEF SharingInv, ViewerInv
<1>. QED  BY <1>1, <1>2, <1>3, <1>4, <1>5, OneCall DEF SharingInv

LEMMA DelGrantStep ==
  ASSUME SharingInv, NEW c \in ShareCalls, NEW v \in Viewers, NEW exact \in BOOLEAN,
         DelGrant(c, v, exact)
  PROVE  SharingInv'
<1>1. PICK step \in CallType \ {NoCall} :
        /\ step = [at |-> "del_meta", viewer |-> v]
        /\ step.viewer = v /\ step.at = "del_meta" /\ Open(c, v, step)
  BY DEF DelGrant, CallType, DelCall, NoCall
<1>2. /\ shareCall' \in [ShareCalls -> CallType] /\ shareCall'[c] = step /\ Others(c)
      /\ shareCall[c] = NoCall
      /\ muddled \subseteq muddled' /\ muddled' \subseteq muddled \cup {v}
      /\ crowded \subseteq crowded' /\ crowded' \subseteq crowded \cup {v}
      /\ v \notin muddled' => Busy(v) = {}
  BY <1>1, OpenTyped DEF SharingInv
<1>3. /\ grants' = grants \ {v} \/ grants' = grants
      /\ UNCHANGED <<public, orgShare, revision, meta, auditRows, wanted, lingering, overshown>>
  BY DEF DelGrant, delete_share_with_user
<1>4. SharingTyped'
  BY <1>2, <1>3 DEF SharingInv, SharingTyped, SharingTypeOK, CallType, AddCall, DelCall, ViewCall
<1>5. ASSUME v \notin muddled' PROVE ViewerInv(v)'
  <2>1. Busy(v)' = {c}
    BY <1>1, <1>2, <1>5 DEF Busy, Others
  <2>2. GrantWritten(v)' /\ SettledElse(v)' /\ RowRefuses(v)'
    BY <1>1, <1>2, <1>3, <2>1 DEF GrantWritten, SettledElse, HalfWay, RowRefuses, ViewSteps
  <2>. QED  BY <1>2, <1>3, <1>5, <2>1, <2>2 DEF SharingInv, ViewerInv
<1>. QED  BY <1>1, <1>2, <1>3, <1>4, <1>5, OneCall DEF SharingInv

(* The first write of add_share, of a request that is alone.               *)
LEMMA AddGrantStep ==
  ASSUME SharingInv, NEW c \in ShareCalls, AddGrant(c)
  PROVE  SharingInv'
<1>1. shareCall[c].at = "add" /\ shareCall[c] # NoCall
  BY DEF AddGrant, Is, NoCall
<1>2. PICK v \in Viewers : v = shareCall[c].viewer /\ c \in Busy(v) /\ shareCall[c] \in AddCall
  BY <1>1, CallShape DEF SharingInv, Busy, ViewSteps
<1>3. /\ shareCall' \in [ShareCalls -> CallType] /\ shareCall'[c] # NoCall /\ Others(c)
      /\ shareCall'[c].at = "add_meta" /\ shareCall'[c].viewer = v
  BY <1>2, StepTyped DEF AddGrant, SharingInv
<1>4. /\ grants' = grants \cup {v}
      /\ UNCHANGED <<public, orgShare, revision, meta, auditRows, wanted, muddled, crowded, lingering,
                     overshown>>
  BY <1>2 DEF AddGrant, write_share_with_user
<1>5. SharingTyped'
  BY <1>3, <1>4 DEF SharingInv, SharingTyped, SharingTypeOK, CallType, AddCall, DelCall, ViewCall
<1>6. ASSUME v \notin muddled' PROVE ViewerInv(v)'
  <2>1. Busy(v) = {c}
    BY <1>1, <1>2, <1>4, <1>6, OnlyCall DEF ViewSteps
  <2>2. Busy(v)' = {c}
    BY <1>3, <2>1 DEF Busy, Others
  <2>3. GrantWritten(v)' /\ SettledElse(v)' /\ RowRefuses(v)'
    BY <1>3, <1>4, <2>2 DEF GrantWritten, SettledElse, HalfWay, RowRefuses, ViewSteps
  <2>. QED  BY <1>4, <1>6, <2>2, <2>3 DEF SharingInv, ViewerInv
<1>. QED  BY <1>2, <1>3, <1>4, <1>5, <1>6, OneCall DEF SharingInv

LEMMA TermsShared == NoTerms \in Terms /\ NotShared \notin Terms /\ \A t \in Terms : t # NotShared
  BY DEF Terms, NoTerms, NotShared, Scopes, Kinds

(* The second write of add_share and delete_share ends the request.        *)
LEMMA AddMetaStep ==
  ASSUME SharingInv, NEW c \in ShareCalls, AddMeta(c)
  PROVE  SharingInv'
<1>1. shareCall[c].at = "add_meta" /\ shareCall[c] # NoCall
  BY DEF AddMeta, Is, NoCall
<1>2. PICK v \in Viewers, terms \in Terms :
        v = shareCall[c].viewer /\ terms = shareCall[c].terms /\ c \in Busy(v)
  BY <1>1, CallShape DEF SharingInv, Busy, ViewSteps, AddCall
<1>3. shareCall' \in [ShareCalls -> CallType] /\ shareCall'[c] = NoCall /\ Others(c)
  BY CloseTyped DEF AddMeta, SharingInv
<1>4. /\ \/ meta' = [meta EXCEPT ![v] = terms] /\ muddled' = muddled
         \/ muddled' = muddled \cup {v} /\ meta' = meta
      /\ wanted' = [wanted EXCEPT ![v] = terms] /\ lingering' = lingering \ {v}
      /\ auditRows' = [auditRows EXCEPT !["share.granted"] = @ + 1]
      /\ UNCHANGED <<crowded, grants, public, orgShare, revision, overshown>>
  BY <1>2 DEF AddMeta, upsert
<1>5. SharingTyped'
  BY <1>3, <1>4 DEF SharingInv, SharingTyped, SharingTypeOK, CallType, AddCall, DelCall, ViewCall
<1>6. ASSUME v \notin muddled' PROVE ViewerInv(v)'
  <2>1. Busy(v) = {c} /\ v \notin muddled /\ v \in grants
    BY <1>1, <1>2, <1>4, <1>6, OnlyCall DEF ViewSteps, SharingInv, ViewerInv, GrantWritten
  <2>2. Busy(v)' = {}
    BY <1>3, <2>1 DEF Busy, Others
  <2>3. Settled(v)'
    BY <1>4, <1>6, <2>1, TermsShared DEF Settled, SharingInv, SharingTyped, SharingTypeOK
  <2>. QED  BY <1>4, <1>6, <2>1, <2>2, <2>3
            DEF SharingInv, ViewerInv, GrantWritten, SettledElse, RowRefuses
<1>. QED
  <2>1. \A u \in Viewers \ {v} : meta'[u] = meta[u] /\ wanted'[u] = wanted[u]
    BY <1>4 DEF SharingInv, SharingTyped, SharingTypeOK
  <2>. QED  BY <1>2, <1>3, <1>4, <1>5, <1>6, <2>1, OneCall DEF SharingInv

LEMMA DelMetaStep ==
  ASSUME SharingInv, NEW c \in ShareCalls, DelMeta(c)
  PROVE  SharingInv'
<1>1. shareCall[c].at = "del_meta" /\ shareCall[c] # NoCall
  BY DEF DelMeta, Is, NoCall
<1>2. PICK v \in Viewers : v = shareCall[c].viewer /\ c \in Busy(v)
  BY <1>1, CallShape DEF SharingInv, Busy
<1>3. shareCall' \in [ShareCalls -> CallType] /\ shareCall'[c] = NoCall /\ Others(c)
  BY CloseTyped DEF DelMeta, SharingInv
<1>4. /\ \/ meta' = [meta EXCEPT ![v] = NoTerms] /\ muddled' = muddled
         \/ muddled' = muddled \cup {v} /\ meta' = meta
      /\ wanted' = [wanted EXCEPT ![v] = NotShared]
      /\ lingering' = IF v \in grants THEN lingering \cup {v} ELSE lingering \ {v}
      /\ UNCHANGED <<crowded, grants, public, orgShare, revision, auditRows, overshown>>
  BY <1>2 DEF DelMeta, delete_meta
<1>5. SharingTyped'
  BY <1>3, <1>4, TermsShared
     DEF SharingInv, SharingTyped, SharingTypeOK, CallType, AddCall, DelCall, ViewCall
<1>6. ASSUME v \notin muddled' PROVE ViewerInv(v)'
  <2>1. Busy(v) = {c} /\ v \notin muddled
    BY <1>1, <1>2, <1>4, <1>6, OnlyCall DEF ViewSteps, SharingInv, ViewerInv, GrantWritten
  <2>2. Busy(v)' = {}
    BY <1>3, <2>1 DEF Busy, Others
  <2>3. Settled(v)'
    BY <1>4, <1>6, <2>1 DEF Settled, SharingInv, SharingTyped, SharingTypeOK
  <2>. QED  BY <1>4, <1>6, <2>1, <2>2, <2>3
            DEF SharingInv, ViewerInv, GrantWritten, SettledElse, RowRefuses
<1>. QED
  <2>1. \A u \in Viewers \ {v} : meta'[u] = meta[u] /\ wanted'[u] = wanted[u]
    BY <1>4 DEF SharingInv, SharingTyped, SharingTypeOK
  <2>. QED  BY <1>2, <1>3, <1>4, <1>5, <1>6, <2>1, OneCall DEF SharingInv

(* A view starts: alone, it knows what is due; beside others it is only    *)
(* known to be a view.                                                     *)
LEMMA ViewCheckStep ==
  ASSUME SharingInv, NEW c \in ShareCalls, NEW v \in Viewers, NEW kind \in Kinds, ViewCheck(c, v, kind)
  PROVE  SharingInv'
<1>1. PICK due \in BOOLEAN :
        /\ due <=> \/ ~MaySee(v, Relations) \/ v \in lingering
                   \/ public \/ (orgShare /\ v \in OrgMembers)
                   \/ (Current(wanted[v]) /\ wanted[v].scope \in {"full", kind})
        /\ Open(c, v, [at |-> "view_meta", viewer |-> v, kind |-> kind, due |-> due])
  BY Zenon DEF ViewCheck
<1>2. PICK step \in CallType \ {NoCall} :
        /\ step = [at |-> "view_meta", viewer |-> v, kind |-> kind, due |-> due]
        /\ step.viewer = v /\ step.at = "view_meta" /\ step.kind = kind /\ step.due = due
        /\ Open(c, v, step)
  BY <1>1 DEF CallType, ViewCall, NoCall, ViewSteps
<1>3. /\ shareCall' \in [ShareCalls -> CallType] /\ shareCall'[c] = step /\ Others(c)
      /\ shareCall[c] = NoCall
      /\ muddled \subseteq muddled' /\ muddled' \subseteq muddled \cup {v}
      /\ crowded \subseteq crowded' /\ crowded' \subseteq crowded \cup {v}
      /\ v \notin muddled' => \/ Busy(v) = {}
                            \/ /\ v \in crowded'
                               /\ \A d \in Busy(v) : shareCall[d].at \in ViewSteps
  BY <1>2, OpenTyped DEF SharingInv
<1>4. UNCHANGED <<grants, public, orgShare, revision, meta, auditRows, wanted, lingering, overshown>>
  BY DEF ViewCheck
<1>5. SharingTyped'
  BY <1>3, <1>4 DEF SharingInv, SharingTyped, SharingTypeOK, CallType, AddCall, DelCall, ViewCall
<1>6. ASSUME v \notin muddled' PROVE ViewerInv(v)'
  <2>1. /\ Busy(v)' = Busy(v) \cup {c} /\ c \notin Busy(v)
        /\ \A d \in Busy(v) : shareCall'[d] = shareCall[d] /\ shareCall[d].at \in ViewSteps
        /\ v \notin muddled
    BY <1>2, <1>3, <1>6 DEF Busy, Others
  <2>2. \A d, f \in Busy(v)' : d # f => shareCall'[d].at \in ViewSteps
    BY <1>2, <1>3, <2>1 DEF ViewSteps
  <2>3. GrantWritten(v)' /\ SettledElse(v)'
    BY <1>2, <1>3, <1>4, <2>1 DEF SharingInv, ViewerInv, GrantWritten, SettledElse, HalfWay, Settled
  <2>4. ASSUME v \notin crowded' PROVE Busy(v)' = {c} /\ RowRefuses(v)' /\ v \notin overshown'
    <3>1. Busy(v)' = {c} /\ v \notin overshown' /\ Settled(v)
      BY <1>3, <1>4, <1>6, <2>1, <2>4 DEF SharingInv, ViewerInv, SettledElse
    <3>2. ~due => meta[v].expiry = "past" \/ meta[v].scope \notin {"full", kind}
      BY <1>1, <1>4, <3>1 DEF MaySee, Relations, Settled, Current
    <3>. QED  BY <1>2, <1>3, <1>4, <3>1, <3>2 DEF RowRefuses
  <2>. QED  BY <2>2, <2>3, <2>4 DEF ViewerInv
<1>. QED  BY <1>2, <1>3, <1>4, <1>5, <1>6, OneCall DEF SharingInv

(* A view that goes on.                                                    *)
LEMMA ViewMetaStep ==
  ASSUME SharingInv, NEW c \in ShareCalls, ViewMeta(c)
  PROVE  SharingInv'
<1>1. shareCall[c].at = "view_meta" /\ shareCall[c] # NoCall
  BY DEF ViewMeta, Is, NoCall
<1>2. PICK v \in Viewers : v = shareCall[c].viewer /\ c \in Busy(v) /\ shareCall[c] \in ViewCall
  BY <1>1, CallShape DEF SharingInv, Busy, ViewSteps
<1>3. PICK step \in {"lapse", "scope"} :
        /\ Step(c, step)
        /\ \/ muddled' = muddled /\ step = (IF meta[v].expiry = "past" THEN "lapse" ELSE "scope")
           \/ muddled' = muddled \cup {v}
  BY <1>2 DEF ViewMeta, check_view_with_expiry
<1>4. UNCHANGED <<crowded, grants, public, orgShare, revision, meta, auditRows, wanted, lingering,
                  overshown>>
  BY DEF ViewMeta
<1>5. /\ shareCall' \in [ShareCalls -> CallType] /\ shareCall'[c] # NoCall /\ Others(c)
      /\ shareCall'[c].at = step /\ shareCall'[c].viewer = v
      /\ shareCall'[c].kind = shareCall[c].kind /\ shareCall'[c].due = shareCall[c].due
  BY <1>2, <1>3, StepTyped DEF SharingInv, ViewSteps
<1>6. SharingTyped'
  BY <1>3, <1>4, <1>5 DEF SharingInv, SharingTyped, SharingTypeOK, CallType, AddCall, DelCall, ViewCall
<1>7. ASSUME v \notin muddled' PROVE ViewerInv(v)'
  <2>1. Busy(v)' = Busy(v) /\ \A d \in Busy(v) \ {c} : shareCall'[d] = shareCall[d]
    BY <1>2, <1>5 DEF Busy, Others
  <2>2. \A d, f \in Busy(v)' : d # f => shareCall'[d].at \in ViewSteps
    BY <1>1, <1>3, <1>5, <1>7, <2>1 DEF ViewSteps, SharingInv, ViewerInv
  <2>3. GrantWritten(v)' /\ SettledElse(v)'
    BY <1>1, <1>2, <1>3, <1>4, <1>5, <1>7, <2>1
       DEF SharingInv, ViewerInv, GrantWritten, SettledElse, HalfWay, Settled
  <2>4. ASSUME v \notin crowded' PROVE (\A d, f \in Busy(v)' : d = f) /\ RowRefuses(v)' /\ v \notin overshown'
    <3>1. Busy(v)' = {c} /\ v \notin overshown' /\ RowRefuses(v)
      BY <1>2, <1>3, <1>4, <1>7, <2>1, <2>4, OnlyCall DEF SharingInv, ViewerInv
    <3>. QED  BY <1>1, <1>2, <1>3, <1>4, <1>5, <1>7, <3>1 DEF RowRefuses, ViewSteps
  <2>. QED  BY <2>2, <2>3, <2>4 DEF ViewerInv
<1>. QED  BY <1>2, <1>3, <1>4, <1>5, <1>6, <1>7, OneCall DEF SharingInv

(* The lazy revocation of a share that has expired.                        *)
LEMMA LapseGrantStep ==
  ASSUME SharingInv, NEW c \in ShareCalls, LapseGrant(c)
  PROVE  SharingInv'
<1>1. shareCall[c].at = "lapse" /\ shareCall[c] # NoCall
  BY DEF LapseGrant, Is, NoCall
<1>2. PICK v \in Viewers : v = shareCall[c].viewer /\ c \in Busy(v) /\ shareCall[c] \in ViewCall
  BY <1>1, CallShape DEF SharingInv, Busy, ViewSteps
<1>3. /\ \/ grants' = grants \ {v} /\ muddled' = muddled
         \/ muddled' = muddled \cup {v} /\ (grants' = grants \/ grants' = grants \ {v})
      /\ UNCHANGED <<crowded, public, orgShare, revision, meta, auditRows, wanted, lingering, overshown>>
  BY <1>2 DEF LapseGrant, delete_share_with_user
<1>4. /\ shareCall' \in [ShareCalls -> CallType] /\ shareCall'[c] # NoCall /\ Others(c)
      /\ shareCall'[c].at = "lapse_meta" /\ shareCall'[c].viewer = v
  BY <1>2, StepTyped DEF LapseGrant, SharingInv, ViewSteps
<1>5. SharingTyped'
  BY <1>3, <1>4 DEF SharingInv, SharingTyped, SharingTypeOK, CallType, AddCall, DelCall, ViewCall
<1>6. ASSUME v \notin muddled' PROVE ViewerInv(v)'
  <2>1. Busy(v)' = Busy(v) /\ \A d \in Busy(v) \ {c} : shareCall'[d] = shareCall[d]
    BY <1>2, <1>4 DEF Busy, Others
  <2>2. \A d \in Busy(v)' : shareCall'[d].at \in ViewSteps
    BY <1>2, <1>3, <1>4, <1>6, <2>1 DEF ViewSteps, SharingInv, ViewerInv
  <2>3. GrantWritten(v)' /\ SettledElse(v)'
    BY <1>2, <1>3, <1>4, <1>6, <2>1, <2>2 DEF GrantWritten, SettledElse, HalfWay, ViewSteps
  <2>4. ASSUME v \notin crowded' PROVE (\A d, f \in Busy(v)' : d = f) /\ RowRefuses(v)' /\ v \notin overshown'
    <3>1. Busy(v)' = {c} /\ v \notin overshown'
      BY <1>2, <1>3, <1>6, <2>1, <2>4, OnlyCall DEF SharingInv, ViewerInv
    <3>. QED  BY <1>4, <3>1 DEF RowRefuses
  <2>. QED  BY <2>2, <2>3, <2>4 DEF ViewerInv
<1>. QED  BY <1>2, <1>3, <1>4, <1>5, <1>6, OneCall DEF SharingInv

LEMMA LapseMetaStep ==
  ASSUME SharingInv, NEW c \in ShareCalls, LapseMeta(c)
  PROVE  SharingInv'
<1>1. shareCall[c].at = "lapse_meta" /\ shareCall[c] # NoCall
  BY DEF LapseMeta, Is, NoCall
<1>2. PICK v \in Viewers : v = shareCall[c].viewer /\ c \in Busy(v)
  BY <1>1, CallShape DEF SharingInv, Busy
<1>3. /\ \/ meta' = [meta EXCEPT ![v] = NoTerms] /\ muddled' = muddled
         \/ muddled' = muddled \cup {v} /\ meta' = meta
      /\ wanted' = [wanted EXCEPT ![v] = NotShared] /\ lingering' = lingering \ {v}
      /\ UNCHANGED <<crowded, grants, public, orgShare, revision, auditRows, overshown>>
  BY <1>2 DEF LapseMeta, delete_meta
<1>4. shareCall' \in [ShareCalls -> CallType] /\ shareCall'[c] = NoCall /\ Others(c)
  BY CloseTyped DEF LapseMeta, SharingInv
<1>5. SharingTyped'
  BY <1>3, <1>4, TermsShared
     DEF SharingInv, SharingTyped, SharingTypeOK, CallType, AddCall, DelCall, ViewCall
<1>6. ASSUME v \notin muddled' PROVE ViewerInv(v)'
  <2>1. Busy(v)' = Busy(v) \ {c} /\ \A d \in Busy(v)' : shareCall'[d] = shareCall[d]
    BY <1>2, <1>4 DEF Busy, Others
  <2>2. v \notin grants /\ Settled(v)'
    BY <1>1, <1>2, <1>3, <1>6 DEF SharingInv, SharingTyped, SharingTypeOK, ViewerInv, GrantWritten, Settled
  <2>3. \A d \in Busy(v)' : shareCall'[d].at \in ViewSteps
    BY <1>2, <1>3, <1>6, <2>1 DEF SharingInv, ViewerInv
  <2>4. GrantWritten(v)' /\ SettledElse(v)'
    BY <1>3, <2>2, <2>3 DEF GrantWritten, SettledElse, ViewSteps
  <2>5. ASSUME v \notin crowded' PROVE Busy(v)' = {} /\ RowRefuses(v)' /\ v \notin overshown'
    BY <1>2, <1>3, <1>6, <2>1, <2>5, OnlyCall DEF SharingInv, ViewerInv, RowRefuses
  <2>. QED  BY <2>3, <2>4, <2>5 DEF ViewerInv
<1>. QED
  <2>1. \A u \in Viewers \ {v} : meta'[u] = meta[u] /\ wanted'[u] = wanted[u]
    BY <1>3 DEF SharingInv, SharingTyped, SharingTypeOK
  <2>. QED  BY <1>2, <1>3, <1>4, <1>5, <1>6, <2>1, OneCall DEF SharingInv

(* A request that ends without having written, and the page it shows.      *)
LEMMA EndStep ==
  ASSUME SharingInv, NEW c \in ShareCalls, NEW v \in Viewers, c \in Busy(v), Close(c),
         UNCHANGED <<crowded, grants, public, orgShare, revision, meta, auditRows, wanted, lingering>>,
         muddled' = muddled \/ muddled' = muddled \cup {v},
         v \notin muddled' => shareCall[c].at \notin HalfWay,
         overshown' = overshown \/ overshown' = overshown \cup {v},
         v \notin muddled' \cup crowded' => overshown' = overshown
  PROVE  SharingInv'
<1>1. shareCall' \in [ShareCalls -> CallType] /\ shareCall'[c] = NoCall /\ Others(c)
  BY CloseTyped DEF SharingInv
<1>2. SharingTyped'
  BY <1>1 DEF SharingInv, SharingTyped, SharingTypeOK, CallType, AddCall, DelCall, ViewCall
<1>3. ASSUME v \notin muddled' PROVE ViewerInv(v)'
  <2>1. Busy(v)' = Busy(v) \ {c} /\ \A d \in Busy(v)' : shareCall'[d] = shareCall[d]
    BY <1>1 DEF Busy, Others
  <2>2. \A d, f \in Busy(v)' : d # f => shareCall'[d].at \in ViewSteps
    BY <1>3, <2>1 DEF SharingInv, ViewerInv
  <2>3. GrantWritten(v)' /\ SettledElse(v)'
    BY <1>3, <2>1 DEF SharingInv, ViewerInv, GrantWritten, SettledElse, Settled
  <2>4. ASSUME v \notin crowded' PROVE Busy(v)' = {} /\ RowRefuses(v)' /\ v \notin overshown'
    BY <1>3, <2>1, <2>4, OnlyCall DEF SharingInv, ViewerInv, RowRefuses
  <2>. QED  BY <2>2, <2>3, <2>4 DEF ViewerInv
<1>. QED  BY <1>1, <1>2, <1>3, OneCall DEF SharingInv, Busy

LEMMA ViewScopeStep ==
  ASSUME SharingInv, NEW c \in ShareCalls, ViewScope(c)
  PROVE  SharingInv'
<1>1. shareCall[c].at = "scope" /\ shareCall[c] # NoCall
  BY DEF ViewScope, Is, NoCall
<1>2. PICK v \in Viewers : v = shareCall[c].viewer /\ c \in Busy(v)
  BY <1>1, CallShape DEF SharingInv, Busy
<1>3. /\ \/ /\ overshown' = IF scope_allows(meta[v].scope, shareCall[c].kind) /\ ~shareCall[c].due
                          THEN overshown \cup {v} ELSE overshown
            /\ muddled' = muddled
         \/ /\ overshown' = IF shareCall[c].due THEN overshown ELSE overshown \cup {v}
            /\ muddled' = muddled \cup {v}
      /\ UNCHANGED <<crowded, grants, public, orgShare, revision, meta, auditRows, wanted, lingering>>
  BY <1>2 DEF ViewScope
<1>4. ASSUME v \notin muddled' \cup crowded'  PROVE overshown' = overshown
  BY <1>1, <1>2, <1>3, <1>4 DEF SharingInv, ViewerInv, RowRefuses, scope_allows, ViewSteps
<1>. QED  BY <1>1, <1>2, <1>3, <1>4, EndStep DEF ViewScope, HalfWay

LEMMA ShareCallDiesStep ==
  ASSUME SharingInv, NEW c \in ShareCalls, ShareCallDies(c)
  PROVE  SharingInv'
<1>1. PICK v \in Viewers : v = shareCall[c].viewer /\ c \in Busy(v)
  BY CallShape DEF ShareCallDies, SharingInv, Busy
<1>. QED  BY <1>1, EndStep DEF ShareCallDies, HalfWay

(* The clock runs for the row and for the owner alike.                     *)
LEMMA ShareExpiresStep ==
  ASSUME SharingInv, NEW v \in Viewers, ShareExpires(v)
  PROVE  SharingInv'
<1>1. PICK t \in Terms : t = [meta[v] EXCEPT !.expiry = "past"] /\ t.scope = meta[v].scope /\ t.expiry = "past"
  <2>1. meta[v] \in Terms
    BY DEF SharingInv, SharingTyped, SharingTypeOK
  <2>2. /\ [meta[v] EXCEPT !.expiry = "past"] \in Terms
        /\ [meta[v] EXCEPT !.expiry = "past"].scope = meta[v].scope
        /\ [meta[v] EXCEPT !.expiry = "past"].expiry = "past"
    BY <2>1 DEF Terms
  <2>. QED  BY <2>2
<1>2. /\ meta[v].expiry = "later" /\ meta' = [meta EXCEPT ![v] = t]
      /\ wanted' = IF wanted[v] = meta[v] THEN [wanted EXCEPT ![v] = t] ELSE wanted
      /\ UNCHANGED <<grants, public, orgShare, revision, auditRows, shareCall, muddled, crowded, lingering,
                     overshown>>
  BY <1>1 DEF ShareExpires, SharingInv, SharingTyped, SharingTypeOK
<1>3. SharingTyped'
  BY <1>2 DEF SharingInv, SharingTyped, SharingTypeOK
<1>4. ViewerInv(v)'
  <2>1. Busy(v)' = Busy(v)
    BY <1>2 DEF Busy
  <2>2. Settled(v) => Settled(v)'
    BY <1>2, TermsShared DEF Settled, NoTerms, SharingInv, SharingTyped, SharingTypeOK
  <2>3. (GrantWritten(v) => GrantWritten(v)') /\ (SettledElse(v) => SettledElse(v)')
    BY <1>2, <2>1, <2>2 DEF GrantWritten, SettledElse
  <2>4. RowRefuses(v) => RowRefuses(v)'
    BY <1>1, <1>2, <2>1 DEF RowRefuses, SharingInv, SharingTyped, SharingTypeOK
  <2>. QED  BY <1>2, <2>1, <2>3, <2>4 DEF SharingInv, ViewerInv
<1>5. ASSUME NEW u \in Viewers \ {v}  PROVE ViewerInv(u)'
  BY <1>2, Untouched DEF SharingInv, SharingTyped, SharingTypeOK
<1>. QED  BY <1>3, <1>4, <1>5 DEF SharingInv

LEMMA SharingStep ==
  ASSUME SharingInv, SharingNext \/ UNCHANGED shareVars
  PROVE  SharingInv'
<1>1. ASSUME UNCHANGED <<grants, meta, auditRows, shareCall, wanted, muddled, crowded, lingering,
                         overshown>>,
             public' \in BOOLEAN, orgShare' \in BOOLEAN,
             revision' \in {revision, Relations}
      PROVE  SharingInv'
  <2>1. SharingTyped'
    BY <1>1 DEF SharingInv, SharingTyped, SharingTypeOK, Relations
  <2>2. ASSUME NEW v \in Viewers  PROVE ViewerInv(v)'
    BY <1>1, Untouched DEF SharingInv
  <2>. QED  BY <2>1, <2>2 DEF SharingInv
<1>2. public \in BOOLEAN /\ orgShare \in BOOLEAN
  BY DEF SharingInv, SharingTyped, SharingTypeOK
<1>3. CASE \/ \E b \in BOOLEAN : set_visibility(b)
           \/ share_with_org \/ unshare_with_org \/ RevisionAdvances \/ UNCHANGED shareVars
  BY <1>1, <1>2, <1>3 DEF set_visibility, share_with_org, unshare_with_org, write_public_view,
       write_share_with_org, RevisionAdvances, shareVars
<1>. QED  BY <1>3, AddStartStep, DelGrantStep, ViewCheckStep, AddGrantStep, AddMetaStep, DelMetaStep,
             ViewMetaStep, LapseGrantStep, LapseMetaStep, ViewScopeStep, ShareCallDiesStep,
             ShareExpiresStep DEF SharingNext

(* Whatever the owner does and whoever looks, at the same time or after a  *)
(* failure: what is shared is what the owner asked for last, but for a     *)
(* grant unshared in another case, and nobody is shown more, but by an     *)
(* answer from before a revocation (sharing_routes.rs, share_metadata.rs). *)
THEOREM SharesAlwaysSafe == SharingPartsSpec => []SharingSafe
<1>1. SharingPartsInit => SharingInv
  <2>. SUFFICES ASSUME SharingInit PROVE SharingInv
    BY DEF SharingPartsInit
  <2>1. SharingTyped /\ \A c \in ShareCalls : shareCall[c] = NoCall
    BY TermsShared DEF SharingInit, SharingTyped, SharingTypeOK, CallType, Relations
  <2>2. \A v \in Viewers : Busy(v) = {} /\ Settled(v) /\ v \notin overshown
    BY <2>1 DEF SharingInit, Busy, Settled
  <2>. QED  BY <2>1, <2>2 DEF SharingInv, ViewerInv, GrantWritten, SettledElse, RowRefuses
<1>2. SharingInv /\ [SharingPartsNext]_sharingVars => SharingInv'
  BY SharingStep DEF SharingPartsNext, SharesNext, ReadsNext, shares, sharingVars, shareVars
<1>3. SharingInv => SharingSafe
  <2>. SUFFICES ASSUME SharingInv PROVE SharingSafe
    OBVIOUS
  <2>1. SharedAsAsked
    BY DEF SharingInv, ViewerInv, SharedAsAsked, SettledElse, Settled
  <2>2. ShownAsGranted
    BY DEF SharingInv, SharingTyped, SharingTypeOK, ViewerInv, ShownAsGranted
  <2>. QED  BY <2>1, <2>2 DEF SharingInv, SharingTyped, SharingSafe
<1>. QED  BY <1>1, <1>2, <1>3, PTL DEF SharingPartsSpec
-----------------------------------------------------------------------------
(* ShareReports.  A count of reports is one of finitely many.              *)
LEMMA CountsFinite ==
  ASSUME ReportsTyped, NEW S, S \subseteq 1..Len(reports)
  PROVE  IsFiniteSet(S) /\ Cardinality(S) \in Nat /\ Cardinality(S) <= Len(reports)
<1>1. Len(reports) \in Nat
  BY DEF ReportsTyped
<1>2. IsFiniteSet(1..Len(reports)) /\ Cardinality(1..Len(reports)) = Len(reports)
  BY <1>1, FS_Interval
<1>3. IsFiniteSet(S) /\ Cardinality(S) <= Cardinality(1..Len(reports))
  BY <1>2, FS_Subset
<1>. QED  BY <1>2, <1>3, FS_CardinalityType

LEMMA RacersFinite ==
  ASSUME NEW S, S \subseteq ReportCalls
  PROVE  IsFiniteSet(S) /\ Cardinality(S) \in Nat /\ Cardinality(S) <= Cardinality(ReportCalls)
  BY ReportLimits, FS_Subset, FS_CardinalityType

LEMMA RecentRows ==
  ASSUME ReportsTyped, NEW r, NEW o
  PROVE  ByReporter(r) \subseteq 1..Len(reports) /\ About(o) \subseteq 1..Len(reports)
  BY DEF ReportsTyped, ByReporter, About, Recent

LEMMA CountIsByReporter ==
  ASSUME NEW r
  PROVE  count_recent_by_reporter(r) = Cardinality(ByReporter(r))
  BY DEF count_recent_by_reporter, ByReporter

LEMMA Halved ==
  ASSUME NEW m \in Nat
  PROVE  \E n \in Nat : m = 2 * n \/ m = 2 * n + 1
<1>1. m \div 2 \in Nat /\ (m = 2 * (m \div 2) \/ m = 2 * (m \div 2) + 1)
  OBVIOUS
<1>. QED  BY <1>1

(* Every open report is on one page of the moderator's list.               *)
LEMMA OpenPages ==
  ASSUME ReportsTyped, NEW limit \in 1..2
  PROVE  LET pages == {get_reports({"open"}, limit, n * limit) : n \in 0..MaxReports}
         IN /\ UNION pages = {k \in 1..Len(reports) : reports[k].status = "open"}
            /\ \A p, q \in pages : p # q => p \cap q = {}
<1>. DEFINE rows == {k \in 1..Len(reports) : reports[k].status \in {"open"}}
            newer(k) == Cardinality({j \in rows : j > k})
            page(n) == {k \in rows : newer(k) \in (n * limit)..(n * limit + limit - 1)}
            pages == {get_reports({"open"}, limit, n * limit) : n \in 0..MaxReports}
<1>1. \A k \in rows : newer(k) \in Nat /\ newer(k) <= MaxReports
  <2>. SUFFICES ASSUME NEW k \in rows PROVE newer(k) \in Nat /\ newer(k) <= MaxReports
    OBVIOUS
  <2>1. Len(reports) \in Nat /\ Len(reports) <= MaxReports
    BY DEF ReportsTyped
  <2>. QED  BY <2>1, CountsFinite, ReportLimits
<1>2. \A n \in 0..MaxReports : get_reports({"open"}, limit, n * limit) = page(n)
  BY DEF get_reports
<1>. HIDE DEF newer
<1>3. \A k \in rows : \E n \in 0..MaxReports : k \in page(n)
  <2>. SUFFICES ASSUME NEW k \in rows PROVE \E n \in 0..MaxReports : k \in page(n)
    OBVIOUS
  <2>1. CASE limit = 1
    BY <1>1, <2>1, ReportLimits
  <2>2. CASE limit = 2
    <3>1. PICK n \in Nat : newer(k) = 2 * n \/ newer(k) = 2 * n + 1
      BY <1>1, Halved
    <3>. QED  BY <1>1, <2>2, <3>1, ReportLimits
  <2>. QED  BY <2>1, <2>2
<1>4. \A m, n \in 0..MaxReports : m # n => page(m) \cap page(n) = {}
  <2>. SUFFICES ASSUME NEW m \in 0..MaxReports, NEW n \in 0..MaxReports, m # n,
                       NEW k \in rows, newer(k) \in (m * limit)..(m * limit + limit - 1),
                       newer(k) \in (n * limit)..(n * limit + limit - 1)
                PROVE  FALSE
    OBVIOUS
  <2>1. CASE limit = 1
    BY <1>1, <2>1, ReportLimits
  <2>2. CASE limit = 2
    BY <1>1, <2>2, ReportLimits
  <2>. QED  BY <2>1, <2>2
<1>5. UNION pages = rows
  BY <1>2, <1>3
<1>6. \A p, q \in pages : p # q => p \cap q = {}
  BY <1>2, <1>4
<1>. QED  BY <1>5, <1>6

LEMMA ReportCallShape ==
  ASSUME ReportsTyped, NEW c \in ReportCalls, reportCall[c].at # "free"
  PROVE  /\ reportCall[c] \in [at : {"create", "cluster"}, reporter : Reporters, owner : Owners]
         /\ reportCall[c].at \in {"create", "cluster"}
         /\ reportCall[c].reporter \in Reporters /\ reportCall[c].owner \in Owners
  BY DEF ReportsTyped, ReportCallType

(* A step that inserts nothing: the counts do not grow.                    *)
LEMMA NoInsert ==
  ASSUME ReportsTyped, Len(reports') = Len(reports), oldest' \in Nat, oldest' >= oldest,
         \A k \in 1..Len(reports) : /\ reports'[k].reporter = reports[k].reporter
                                   /\ reports'[k].owner = reports[k].owner
  PROVE  /\ \A r : /\ Cardinality(ByReporter(r)') \in Nat /\ Cardinality(ByReporter(r)) \in Nat
                   /\ Cardinality(ByReporter(r)') <= Cardinality(ByReporter(r))
         /\ \A o : /\ Cardinality(About(o)') \in Nat /\ Cardinality(About(o)) \in Nat
                   /\ Cardinality(About(o)') <= Cardinality(About(o))
<1>1. Len(reports) \in Nat /\ oldest \in Nat
  BY DEF ReportsTyped
<1>2. ASSUME NEW r  PROVE /\ Cardinality(ByReporter(r)') \in Nat /\ Cardinality(ByReporter(r)) \in Nat
                          /\ Cardinality(ByReporter(r)') <= Cardinality(ByReporter(r))
  <2>1. ByReporter(r)' \subseteq ByReporter(r)
    BY <1>1 DEF ByReporter, Recent
  <2>2. IsFiniteSet(ByReporter(r))
    BY RecentRows, CountsFinite
  <2>3. IsFiniteSet(ByReporter(r)') /\ Cardinality(ByReporter(r)') <= Cardinality(ByReporter(r))
    BY <2>1, <2>2, FS_Subset
  <2>. QED  BY <2>2, <2>3, FS_CardinalityType
<1>3. ASSUME NEW o  PROVE /\ Cardinality(About(o)') \in Nat /\ Cardinality(About(o)) \in Nat
                          /\ Cardinality(About(o)') <= Cardinality(About(o))
  <2>1. About(o)' \subseteq About(o)
    BY <1>1 DEF About, Recent
  <2>2. IsFiniteSet(About(o))
    BY RecentRows, CountsFinite
  <2>3. IsFiniteSet(About(o)') /\ Cardinality(About(o)') <= Cardinality(About(o))
    BY <2>1, <2>2, FS_Subset
  <2>. QED  BY <2>2, <2>3, FS_CardinalityType
<1>. QED  BY <1>2, <1>3

(* Fewer requests race.                                                    *)
LEMMA RacersFewer ==
  ASSUME NEW r, Racing(r)' \subseteq Racing(r)
  PROVE  /\ Cardinality(Racing(r)') \in Nat /\ Cardinality(Racing(r)) \in Nat
         /\ Cardinality(Racing(r)') <= Cardinality(Racing(r))
<1>1. Racing(r) \subseteq ReportCalls /\ Racing(r)' \subseteq ReportCalls
  BY DEF Racing
<1>2. IsFiniteSet(Racing(r)) /\ Cardinality(Racing(r)) \in Nat /\ Cardinality(Racing(r)') \in Nat
  BY <1>1, RacersFinite
<1>. QED  BY <1>2, FS_Subset

LEMMA LimitNats == RateLimit \in Nat \ {0} /\ ClusterThreshold \in Nat \ {0} /\ ListCap \in Nat \ {0}
                   /\ MaxReports \in Nat /\ Cardinality(ReportCalls) \in Nat
  BY ReportLimits, FS_CardinalityType

(* Steps that neither insert nor start a request: rows age, are resolved   *)
(* or not, requests go on.                                                 *)
LEMMA QuietStep ==
  ASSUME ReportsInv, ReportsTyped', Len(reports') = Len(reports), oldest' >= oldest,
         \A k \in 1..Len(reports) : /\ reports'[k].reporter = reports[k].reporter
                                   /\ reports'[k].owner = reports[k].owner,
         \A r \in Reporters : Racing(r)' \subseteq Racing(r),
         uncounted \subseteq uncounted', pauseFailed \subseteq pauseFailed',
         \A o \in Owners : Cardinality(About(o)) >= ClusterThreshold /\ Len(reports) <= ListCap
             /\ o \in pauseSet => o \in pauseSet' \cup pauseFailed',
         \A c \in ReportCalls :
           Len(reports) <= ListCap /\ reportCall[c].at = "cluster"
             /\ Cardinality(About(reportCall[c].owner)) >= ClusterThreshold =>
               \/ reportCall'[c] = reportCall[c]
               \/ reportCall[c].owner \in pauseSet' \cup pauseFailed'
  PROVE  ReportsInv'
<1>1. oldest' \in Nat /\ ReportsTyped
  BY DEF ReportsTyped, ReportsInv
<1>2. RacersCounted'
  <2>. SUFFICES ASSUME NEW r \in Reporters, r \notin uncounted'
                PROVE  Cardinality(ByReporter(r)') + Cardinality(Racing(r)')
                         <= RateLimit + Cardinality(ReportCalls) - 1
    BY DEF RacersCounted
  <2>1. Cardinality(ByReporter(r)) + Cardinality(Racing(r)) <= RateLimit + Cardinality(ReportCalls) - 1
    BY DEF ReportsInv, RacersCounted
  <2>. QED  BY <1>1, <2>1, NoInsert, RacersFewer, LimitNats
<1>3. ClusterCounted'
  <2>. SUFFICES ASSUME NEW o \in Owners, o \notin pauseFailed', Len(reports') <= ListCap,
                       Cardinality(About(o)') >= ClusterThreshold
                PROVE  \/ o \in pauseSet'
                       \/ \E c \in ReportCalls : reportCall'[c].at = "cluster" /\ reportCall'[c].owner = o
    BY DEF ClusterCounted
  <2>1. Cardinality(About(o)) >= ClusterThreshold
    BY <1>1, NoInsert, LimitNats
  <2>2. \/ o \in pauseSet
        \/ \E c \in ReportCalls : reportCall[c].at = "cluster" /\ reportCall[c].owner = o
    BY <2>1 DEF ReportsInv, ClusterCounted
  <2>. QED  BY <2>1, <2>2
<1>. QED  BY <1>2, <1>3 DEF ReportsInv

(* A request passes the limit while the count is below it: with all the    *)
(* others racing beside it the reporter gets no further than this.         *)
LEMMA ReportStartStep ==
  ASSUME ReportsInv, NEW c \in ReportCalls, NEW r \in Reporters, NEW o \in Owners, ReportStart(c, r, o)
  PROVE  ReportsInv'
<1>1. /\ reportCall[c].at = "free"
      /\ reportCall' = [reportCall EXCEPT ![c] = [at |-> "create", reporter |-> r, owner |-> o]]
      /\ \/ Cardinality(ByReporter(r)) < RateLimit /\ UNCHANGED uncounted
         \/ uncounted' = uncounted \cup {r}
      /\ UNCHANGED <<reports, oldest, sharesPaused, pauseSet, pauseFailed>>
  BY CountIsByReporter DEF ReportStart
<1>2. ReportsTyped'
  BY <1>1 DEF ReportsInv, ReportsTyped, ReportCallType
<1>3. /\ \A d \in ReportCalls \ {c} : reportCall'[d] = reportCall[d]
      /\ reportCall'[c].at = "create" /\ reportCall'[c].reporter = r
  BY <1>1 DEF ReportsInv, ReportsTyped
<1>4. RacersCounted'
  <2>. SUFFICES ASSUME NEW q \in Reporters, q \notin uncounted'
                PROVE  Cardinality(ByReporter(q)') + Cardinality(Racing(q)')
                         <= RateLimit + Cardinality(ReportCalls) - 1
    BY DEF RacersCounted
  <2>1. ByReporter(q)' = ByReporter(q) /\ Cardinality(ByReporter(q)) \in Nat
    BY <1>1, RecentRows, CountsFinite DEF ByReporter, Recent, ReportsInv
  <2>2. CASE q = r
    <3>1. Cardinality(ByReporter(q)) < RateLimit
      BY <1>1, <2>2
    <3>2. Racing(q)' \subseteq ReportCalls
      BY DEF Racing
    <3>3. Cardinality(Racing(q)') \in Nat /\ Cardinality(Racing(q)') <= Cardinality(ReportCalls)
      BY <3>2, RacersFinite
    <3>. QED  BY <2>1, <3>1, <3>3, LimitNats
  <2>3. CASE q # r
    <3>1. Racing(q)' = Racing(q)
      BY <1>1, <1>3, <2>3 DEF Racing
    <3>. QED  BY <1>1, <2>1, <3>1 DEF ReportsInv, RacersCounted
  <2>. QED  BY <2>2, <2>3
<1>5. ClusterCounted'
  BY <1>1, <1>3 DEF ReportsInv, ClusterCounted, About, Recent
<1>. QED  BY <1>2, <1>4, <1>5 DEF ReportsInv

(* The insert turns a racer into a row, and the request that made it       *)
(* counts next.                                                            *)
LEMMA ReportCreateStep ==
  ASSUME ReportsInv, NEW c \in ReportCalls, ReportCreate(c)
  PROVE  ReportsInv'
<1>1. PICK r \in Reporters, o \in Owners :
        /\ r = reportCall[c].reporter /\ o = reportCall[c].owner /\ reportCall[c].at = "create"
        /\ reportCall[c] \in [at : {"create", "cluster"}, reporter : Reporters, owner : Owners]
  BY ReportCallShape DEF ReportCreate, ReportsInv
<1>2. PICK row \in Report :
        /\ row = [reporter |-> r, owner |-> o, status |-> "open"]
        /\ row.reporter = r /\ row.owner = o
        /\ reports' = Append(reports, row)
  BY <1>1 DEF ReportCreate, Report
<1>3. /\ Len(reports) < MaxReports /\ pauseSet' = pauseSet \ {o}
      /\ reportCall' = [reportCall EXCEPT ![c].at = "cluster"]
      /\ UNCHANGED <<oldest, sharesPaused, uncounted, pauseFailed>>
  BY <1>1 DEF ReportCreate
<1>4. /\ Len(reports) \in Nat /\ oldest \in Nat /\ Len(reports') = Len(reports) + 1
      /\ reports' \in Seq(Report) /\ reports'[Len(reports) + 1] = row
      /\ \A k \in 1..Len(reports) : reports'[k] = reports[k]
  BY <1>2 DEF ReportsInv, ReportsTyped
<1>5. /\ \A d \in ReportCalls \ {c} : reportCall'[d] = reportCall[d]
      /\ reportCall'[c] = [reportCall[c] EXCEPT !.at = "cluster"]
      /\ reportCall'[c].at = "cluster" /\ reportCall'[c].owner = o
      /\ reportCall'[c] \in ReportCallType
  BY <1>1, <1>3 DEF ReportsInv, ReportsTyped, ReportCallType
<1>6. ReportsTyped'
  BY <1>3, <1>4, <1>5, LimitNats DEF ReportsInv, ReportsTyped
<1>7. RacersCounted'
  <2>. SUFFICES ASSUME NEW q \in Reporters, q \notin uncounted'
                PROVE  Cardinality(ByReporter(q)') + Cardinality(Racing(q)')
                         <= RateLimit + Cardinality(ReportCalls) - 1
    BY DEF RacersCounted
  <2>1. Cardinality(ByReporter(q)) + Cardinality(Racing(q)) <= RateLimit + Cardinality(ReportCalls) - 1
    BY <1>3 DEF ReportsInv, RacersCounted
  <2>2. /\ IsFiniteSet(ByReporter(q)) /\ Cardinality(ByReporter(q)) \in Nat
        /\ IsFiniteSet(Racing(q)) /\ Cardinality(Racing(q)) \in Nat
    <3>1. Racing(q) \subseteq ReportCalls
      BY DEF Racing
    <3>. QED  BY <3>1, RecentRows, CountsFinite, RacersFinite DEF ReportsInv
  <2>3. CASE q = r
    <3>1. ByReporter(q)' \subseteq ByReporter(q) \cup {Len(reports) + 1}
      BY <1>3, <1>4 DEF ByReporter, Recent
    <3>2. /\ IsFiniteSet(ByReporter(q) \cup {Len(reports) + 1})
          /\ Cardinality(ByReporter(q) \cup {Len(reports) + 1}) <= Cardinality(ByReporter(q)) + 1
      <4>1. PICK S, x : S = ByReporter(q) /\ x = Len(reports) + 1
        OBVIOUS
      <4>2. /\ IsFiniteSet(S \cup {x})
            /\ Cardinality(S \cup {x}) = IF x \in S THEN Cardinality(S) ELSE Cardinality(S) + 1
        BY <2>2, <4>1, FS_AddElement
      <4>. QED  BY <2>2, <4>1, <4>2
    <3>3. IsFiniteSet(ByReporter(q)') /\ Cardinality(ByReporter(q)') <= Cardinality(ByReporter(q)) + 1
      <4>1. /\ IsFiniteSet(ByReporter(q)')
            /\ Cardinality(ByReporter(q)') <= Cardinality(ByReporter(q) \cup {Len(reports) + 1})
        BY <3>1, <3>2, FS_Subset
      <4>2. /\ Cardinality(ByReporter(q)') \in Nat
            /\ Cardinality(ByReporter(q) \cup {Len(reports) + 1}) \in Nat
        BY <3>2, <4>1, FS_CardinalityType
      <4>. QED  BY <2>2, <3>2, <4>1, <4>2
    <3>4. Racing(q)' = Racing(q) \ {c} /\ c \in Racing(q)
      BY <1>1, <1>5, <2>3 DEF Racing
    <3>5. Cardinality(Racing(q)') = Cardinality(Racing(q)) - 1
      BY <2>2, <3>4, FS_RemoveElement
    <3>6. Cardinality(ByReporter(q)') \in Nat
      BY <3>3, FS_CardinalityType
    <3>. QED  BY <2>1, <2>2, <3>3, <3>5, <3>6, LimitNats
  <2>4. CASE q # r
    <3>1. ByReporter(q)' = ByReporter(q)
      BY <1>2, <1>3, <1>4, <2>4 DEF ByReporter, Recent
    <3>2. Racing(q)' = Racing(q)
      BY <1>1, <1>5, <2>4 DEF Racing
    <3>. QED  BY <2>1, <3>1, <3>2
  <2>. QED  BY <2>3, <2>4
<1>8. ClusterCounted'
  <2>. SUFFICES ASSUME NEW p \in Owners, p \notin pauseFailed', Len(reports') <= ListCap,
                       Cardinality(About(p)') >= ClusterThreshold
                PROVE  \/ p \in pauseSet'
                       \/ \E d \in ReportCalls : reportCall'[d].at = "cluster" /\ reportCall'[d].owner = p
    BY DEF ClusterCounted
  <2>1. CASE p = o
    BY <1>5, <2>1
  <2>2. CASE p # o
    <3>1. About(p)' = About(p) /\ Len(reports) <= ListCap
      BY <1>2, <1>3, <1>4, <2>2, LimitNats DEF About, Recent
    <3>2. \/ p \in pauseSet
          \/ \E d \in ReportCalls : reportCall[d].at = "cluster" /\ reportCall[d].owner = p
      BY <1>3, <3>1 DEF ReportsInv, ClusterCounted
    <3>. QED  BY <1>1, <1>3, <1>5, <2>2, <3>2
  <2>. QED  BY <2>1, <2>2
<1>. QED  BY <1>6, <1>7, <1>8 DEF ReportsInv

LEMMA ReportClusterStep ==
  ASSUME ReportsInv, NEW c \in ReportCalls, ReportCluster(c)
  PROVE  ReportsInv'
<1>1. PICK o \in Owners : o = reportCall[c].owner /\ reportCall[c].at = "cluster"
  BY ReportCallShape DEF ReportCluster, ReportsInv
<1>2. PICK n : n = Cardinality({k \in Listed \cap Recent(Len(reports)) : reports[k].owner = o})
  OBVIOUS
<1>3. /\ reportCall' = [reportCall EXCEPT ![c] = [at |-> "free"]]
      /\ \/ n >= ClusterThreshold /\ pauseSet' = pauseSet \cup {o} /\ UNCHANGED pauseFailed
         \/ n < ClusterThreshold /\ UNCHANGED <<pauseSet, pauseFailed>>
         \/ pauseFailed' = pauseFailed \cup {o} /\ UNCHANGED pauseSet
      /\ UNCHANGED <<reports, oldest, uncounted>>
  BY <1>1, <1>2 DEF ReportCluster
<1>4. ReportsTyped' /\ Len(reports) \in Nat /\ oldest \in Nat
  BY <1>3 DEF ReportsInv, ReportsTyped, ReportCallType
<1>5. reportCall'[c].at = "free" /\ \A d \in ReportCalls \ {c} : reportCall'[d] = reportCall[d]
  BY <1>3 DEF ReportsInv, ReportsTyped
<1>6. Len(reports) <= ListCap => n = Cardinality(About(o))
  <2>. SUFFICES ASSUME Len(reports) <= ListCap PROVE n = Cardinality(About(o))
    OBVIOUS
  <2>1. {k \in Listed \cap Recent(Len(reports)) : reports[k].owner = o} = About(o)
    BY <1>4, LimitNats DEF Listed, Recent, About
  <2>. QED  BY <1>2, <2>1
<1>7. Cardinality(About(o)) \in Nat
  BY RecentRows, CountsFinite DEF ReportsInv
<1>8. \A r \in Reporters : Racing(r)' \subseteq Racing(r)
  BY <1>5 DEF Racing
<1>9. \A d \in ReportCalls :
        Len(reports) <= ListCap /\ reportCall[d].at = "cluster"
          /\ Cardinality(About(reportCall[d].owner)) >= ClusterThreshold =>
            \/ reportCall'[d] = reportCall[d]
            \/ reportCall[d].owner \in pauseSet' \cup pauseFailed'
  BY <1>1, <1>3, <1>5, <1>6, <1>7, LimitNats
<1>. QED  BY <1>3, <1>4, <1>8, <1>9, QuietStep

LEMMA ReportDiesStep ==
  ASSUME ReportsInv, NEW c \in ReportCalls, ReportDies(c)
  PROVE  ReportsInv'
<1>1. reportCall' = [reportCall EXCEPT ![c] = [at |-> "free"]]
  BY DEF ReportDies
<1>2. /\ ReportsTyped' /\ Len(reports) \in Nat /\ oldest \in Nat
      /\ reportCall'[c].at = "free" /\ \A d \in ReportCalls \ {c} : reportCall'[d] = reportCall[d]
  BY <1>1 DEF ReportDies, ReportsInv, ReportsTyped, ReportCallType
<1>3. \A r \in Reporters : Racing(r)' \subseteq Racing(r)
  BY <1>2 DEF Racing
<1>. QED  BY <1>2, <1>3, QuietStep DEF ReportDies

LEMMA ReportsStep ==
  ASSUME ReportsInv, ReportsNext \/ UNCHANGED reportVars
  PROVE  ReportsInv'
<1>1. Len(reports) \in Nat /\ oldest \in Nat
  BY DEF ReportsInv, ReportsTyped
<1>2. ASSUME UNCHANGED <<reportCall, uncounted, pauseSet, pauseFailed>>, ReportsTyped',
             Len(reports') = Len(reports), oldest' >= oldest,
             \A k \in 1..Len(reports) : /\ reports'[k].reporter = reports[k].reporter
                                       /\ reports'[k].owner = reports[k].owner
      PROVE  ReportsInv'
  <2>1. \A r \in Reporters : Racing(r)' \subseteq Racing(r)
    BY <1>2 DEF Racing
  <2>. QED  BY <1>2, <2>1, QuietStep
<1>3. CASE ReportAges \/ (\E o \in Owners : PauseEnds(o)) \/ UNCHANGED reportVars
  <2>1. /\ UNCHANGED <<reports, reportCall, uncounted, pauseSet, pauseFailed>>
        /\ oldest' \in Nat /\ oldest' >= oldest
    BY <1>1, <1>3 DEF ReportAges, PauseEnds, reportVars
  <2>2. ReportsTyped'
    BY <2>1 DEF ReportsInv, ReportsTyped
  <2>. QED  BY <1>2, <2>1, <2>2
<1>4. ASSUME NEW k \in 1..Len(reports), NEW outcome \in Resolutions, resolve_report(k, outcome)
      PROVE  ReportsInv'
  <2>1. /\ UNCHANGED <<oldest, reportCall, uncounted, pauseSet, pauseFailed>>
        /\ reports' = [reports EXCEPT ![k] = [reports[k] EXCEPT !.status = outcome]]
    BY <1>4 DEF resolve_report, resolve, ReportsInv, ReportsTyped
  <2>2. PICK row \in Report : /\ row = [reports[k] EXCEPT !.status = outcome]
                              /\ row.reporter = reports[k].reporter /\ row.owner = reports[k].owner
    <3>1. reports[k] \in Report
      BY DEF ReportsInv, ReportsTyped
    <3>2. /\ [reports[k] EXCEPT !.status = outcome] \in Report
          /\ [reports[k] EXCEPT !.status = outcome].reporter = reports[k].reporter
          /\ [reports[k] EXCEPT !.status = outcome].owner = reports[k].owner
      BY <3>1 DEF Report
    <3>. QED  BY <3>2
  <2>3. /\ reports' \in Seq(Report) /\ Len(reports') = Len(reports)
        /\ \A j \in 1..Len(reports) : reports'[j] = IF j = k THEN row ELSE reports[j]
    BY <2>1, <2>2 DEF ReportsInv, ReportsTyped
  <2>4. ReportsTyped'
    BY <2>1, <2>3 DEF ReportsInv, ReportsTyped
  <2>. QED  BY <1>1, <1>2, <2>1, <2>2, <2>3, <2>4
<1>. QED  BY <1>3, <1>4, ReportStartStep, ReportCreateStep, ReportClusterStep, ReportDiesStep DEF ReportsNext

LEMMA ReportsInvariant == SharingPartsSpec => []ReportsInv
<1>1. SharingPartsInit => ReportsInv
  <2>. SUFFICES ASSUME ReportsInit PROVE ReportsInv
    BY DEF SharingPartsInit
  <2>1. ReportsTyped
    BY LimitNats DEF ReportsInit, ReportsTyped, ReportCallType
  <2>2. \A x : ByReporter(x) = {} /\ Racing(x) = {} /\ About(x) = {}
    BY DEF ReportsInit, ByReporter, Racing, About, Recent
  <2>3. Cardinality({}) = 0
    BY FS_EmptySet
  <2>4. \A x : Cardinality(ByReporter(x)) = 0 /\ Cardinality(Racing(x)) = 0 /\ Cardinality(About(x)) = 0
    BY <2>2, <2>3, Zenon
  <2>5. RacersCounted
    BY <2>4, LimitNats DEF RacersCounted
  <2>6. ClusterCounted
    BY <2>4, LimitNats DEF ClusterCounted
  <2>. QED  BY <2>1, <2>5, <2>6 DEF ReportsInv
<1>2. ReportsInv /\ [SharingPartsNext]_sharingVars => ReportsInv'
  BY ReportsStep DEF SharingPartsNext, SharesNext, ReadsNext, shares, sharingVars, reportVars
<1>. QED  BY <1>1, <1>2, PTL DEF SharingPartsSpec

(* However many people report at once and whatever fails: a reporter gets  *)
(* past the limit by no more than the requests that raced for it, a cluster*)
(* pauses its owner, and the moderator's pages miss no open report         *)
(* (report_share, check_cross_report_cluster, share_reports.rs).           *)
THEOREM ReportsAlwaysSafe == SharingPartsSpec => []ReportsSafe
<1>1. ReportsInv => ReportsSafe
  <2>. SUFFICES ASSUME ReportsInv PROVE RateLimitHolds /\ ClusterPauses /\ ReportsListed
    BY DEF ReportsSafe
  <2>1. RateLimitHolds
    <3>. SUFFICES ASSUME NEW r \in Reporters, r \notin uncounted
                  PROVE  Cardinality(ByReporter(r)) <= RateLimit + Cardinality(ReportCalls) - 1
      BY CountIsByReporter DEF RateLimitHolds
    <3>1. Cardinality(ByReporter(r)) \in Nat
      BY RecentRows, CountsFinite DEF ReportsInv
    <3>2. Racing(r) \subseteq ReportCalls
      BY DEF Racing
    <3>3. Cardinality(Racing(r)) \in Nat
      BY <3>2, RacersFinite
    <3>4. Cardinality(ByReporter(r)) + Cardinality(Racing(r)) <= RateLimit + Cardinality(ReportCalls) - 1
      BY DEF ReportsInv, RacersCounted
    <3>. QED  BY <3>1, <3>3, <3>4, LimitNats
  <2>2. ClusterPauses
    BY DEF ReportsInv, ClusterCounted, ClusterPauses, About
  <2>3. ReportsListed
    <3>1. Len(reports) \in Nat
      BY DEF ReportsInv, ReportsTyped
    <3>2. Len(reports) <= ListCap =>
            \A k \in 1..Len(reports) :
              k \in reports_filed(reports[k].reporter) /\ k \in reports_against(reports[k].owner)
      BY <3>1, LimitNats DEF reports_filed, reports_against, Listed
    <3>. QED  BY <3>2, OpenPages DEF ReportsListed, ReportsInv
  <2>. QED  BY <2>1, <2>2, <2>3
<1>. QED  BY <1>1, ReportsInvariant, PTL
-----------------------------------------------------------------------------
(* Donations: where a handler is past the deduplication.                   *)
Past == {"lookup", "mark", "credit"}

(* Revolut has no order before it was asked for one, and the URL is        *)
(* answered only once the row has Revolut's id.                            *)
CheckoutOrdered ==
  \A o \in Orders :
    /\ checkout[o] \in {"none", "created"} => remote[o] = "none"
    /\ checkout[o] = "answered" => o \in known
    /\ o \in known => checkout[o] = "answered"

(* An event in a handler is one Revolut has emitted.                       *)
EventsGenuine ==
  \A h \in Handlers :
    pc[h] # "idle" =>
      event[h] \in Events /\ event[h].type \in Emits(remote[event[h].order])

(* Past the fence a handler has its row there, and has it alone.           *)
FencedAlone ==
  /\ \A h \in Handlers : pc[h] \in Past => event[h] \in seen
  /\ \A g, h \in Handlers :
       pc[g] \in Past /\ pc[h] \in Past /\ event[g] = event[h] => g = h

(* Steps taken only for some events; at "credit" the order is completed.   *)
StepsMeant ==
  \A h \in Handlers :
    /\ pc[h] = "mark" => Actionable(event[h])
    /\ pc[h] = "credit" =>
         event[h].type = "ORDER_COMPLETED" /\ state[event[h].order] = "completed"

(* A credited order was paid and completed, and no handler past the fence  *)
(* has its ORDER_COMPLETED any more.                                       *)
CreditSpent ==
  \A o \in Orders :
    credits[o] > 0 =>
      /\ remote[o] = "paid" /\ state[o] = "completed"
      /\ Completed(o) \in seen
      /\ \A h \in Handlers : pc[h] \in Past => event[h] # Completed(o)

(* The inductive invariant.                                                *)
DonationInv ==
  /\ TypeOK
  /\ CheckoutOrdered
  /\ PaidOrderKnown
  /\ EventsGenuine
  /\ FencedAlone
  /\ StepsMeant
  /\ CreditSpent
  /\ CreditedOnce
  /\ SupporterHasPaid
-----------------------------------------------------------------------------
(* What an emitted event says of Revolut's order.                          *)
LEMMA EmitsFacts ==
  ASSUME NEW r, NEW t \in Emits(r)
  PROVE  /\ r \notin {"none", "open"}
         /\ t = "ORDER_COMPLETED" => r = "paid"
         /\ r = "paid" /\ t # "ORDER_AUTHORISED" => t = "ORDER_COMPLETED"
         /\ t \in EventTypes
BY DEF Emits, EventTypes

(* An ORDER_COMPLETED event is its order's.                                *)
LEMMA CompletedEvent ==
  ASSUME NEW e \in Events, e.type = "ORDER_COMPLETED"
  PROVE  e = Completed(e.order)
BY DEF Events, Completed
-----------------------------------------------------------------------------
(* checkout and Revolut's side: handlers and tables of the webhook stay.   *)
LEMMA CheckoutStep ==
  ASSUME DonationInv,
         NEW o \in Orders,
         \/ \E u \in Users : CreatePending(u, o)
         \/ CreateOrder(o) \/ CreateOrderFails(o) \/ Attach(o) \/ AttachFails(o)
         \/ \E outcome \in {"paid", "failed", "cancelled"} : Settle(o, outcome)
  PROVE  DonationInv'
<1> USE DEF request
<1>1. CASE \E u \in Users : CreatePending(u, o)
  <2>1. PICK u \in Users : CreatePending(u, o)
    BY <1>1
  <2>2. o \notin known
    BY <2>1 DEF DonationInv, CheckoutOrdered, CreatePending
  <2>3. \A p \in Orders : owner'[p] = IF p = o THEN u ELSE owner[p]
    BY <2>1 DEF CreatePending, DonationInv, TypeOK
  <2>4. TypeOK'
    BY <2>1 DEF CreatePending, DonationInv, TypeOK
  <2>5. CheckoutOrdered' /\ PaidOrderKnown' /\ EventsGenuine' /\ FencedAlone' /\ StepsMeant'
         /\ CreditSpent' /\ CreditedOnce'
    BY <2>1 DEF CreatePending, DonationInv, TypeOK, CheckoutOrdered, PaidOrderKnown,
         EventsGenuine, FencedAlone, StepsMeant, CreditSpent, CreditedOnce
  <2>6. SupporterHasPaid'
    BY <2>1, <2>2, <2>3 DEF CreatePending, DonationInv, SupporterHasPaid, PaidOrderKnown
  <2> QED BY <2>4, <2>5, <2>6 DEF DonationInv
<1>2. CASE CreateOrder(o) \/ CreateOrderFails(o)
  <2>1. remote[o] = "none" /\ \E r \in {"none", "open"} : remote' = [remote EXCEPT ![o] = r]
    BY <1>2 DEF CreateOrder, CreateOrderFails, DonationInv, CheckoutOrdered
  <2>2. \A p \in Orders : remote[p] \notin {"none", "open"} => remote'[p] = remote[p]
    BY <2>1 DEF DonationInv, TypeOK
  <2>3. TypeOK' /\ CheckoutOrdered' /\ PaidOrderKnown'
    BY <1>2, <2>1 DEF CreateOrder, CreateOrderFails, Fault, DonationInv, TypeOK, CheckoutOrdered,
         PaidOrderKnown
  <2>4. EventsGenuine'
    BY <1>2, <2>2, EmitsFacts DEF CreateOrder, CreateOrderFails, DonationInv, EventsGenuine, Events
  <2>5. FencedAlone' /\ StepsMeant' /\ CreditedOnce'
    BY <1>2 DEF CreateOrder, CreateOrderFails, DonationInv, FencedAlone, StepsMeant, CreditedOnce
  <2>6. CreditSpent' /\ SupporterHasPaid'
    BY <1>2, <2>2 DEF CreateOrder, CreateOrderFails, DonationInv, CreditSpent, SupporterHasPaid
  <2> QED BY <2>3, <2>4, <2>5, <2>6 DEF DonationInv
<1>3. CASE Attach(o) \/ AttachFails(o)
  BY <1>3 DEF Attach, AttachFails, Fault, DonationInv, TypeOK, CheckoutOrdered, PaidOrderKnown,
       EventsGenuine, FencedAlone, StepsMeant, CreditSpent, CreditedOnce, SupporterHasPaid
<1>4. CASE \E outcome \in {"paid", "failed", "cancelled"} : Settle(o, outcome)
  <2>1. PICK outcome \in {"paid", "failed", "cancelled"} : Settle(o, outcome)
    BY <1>4
  <2>2. \A p \in Orders : remote[p] \notin {"none", "open"} => remote'[p] = remote[p]
    BY <2>1 DEF Settle, DonationInv, TypeOK
  <2>3. TypeOK' /\ CheckoutOrdered' /\ PaidOrderKnown'
    BY <2>1 DEF Settle, DonationInv, TypeOK, CheckoutOrdered, PaidOrderKnown
  <2>4. EventsGenuine'
    BY <2>1, <2>2, EmitsFacts DEF Settle, DonationInv, EventsGenuine, Events
  <2>5. FencedAlone' /\ StepsMeant' /\ CreditedOnce'
    BY <2>1 DEF Settle, DonationInv, FencedAlone, StepsMeant, CreditedOnce
  <2>6. CreditSpent' /\ SupporterHasPaid'
    BY <2>1, <2>2 DEF Settle, DonationInv, CreditSpent, SupporterHasPaid
  <2> QED BY <2>3, <2>4, <2>5, <2>6 DEF DonationInv
<1> QED BY <1>1, <1>2, <1>3, <1>4
-----------------------------------------------------------------------------
(* The webhook handler.                                                    *)
LEMMA WebhookStep ==
  ASSUME DonationInv,
         NEW h \in Handlers,
         (\E e \in Events : Deliver(h, e)) \/ Handler(h) \/ HandlerFails(h)
  PROVE  DonationInv'
<1> USE DEF request, Past
<1>1. CASE \E e \in Events : Deliver(h, e)
  BY <1>1 DEF Deliver, DonationInv, TypeOK, CheckoutOrdered, PaidOrderKnown,
       EventsGenuine, FencedAlone, StepsMeant, CreditSpent, CreditedOnce, SupporterHasPaid
<1>2. CASE Record(h)
  BY <1>2 DEF Record, Seen, Goto, DonationInv, TypeOK, CheckoutOrdered, PaidOrderKnown,
       EventsGenuine, FencedAlone, StepsMeant, CreditSpent, CreditedOnce, SupporterHasPaid
<1>3. CASE Duplicate(h) \/ Ignore(h) \/ HandlerFails(h)
  <2>1. TypeOK' /\ CheckoutOrdered' /\ PaidOrderKnown'
    BY <1>3 DEF Duplicate, Ignore, HandlerFails, Fault, Ack, Return, DonationInv, TypeOK,
         CheckoutOrdered, PaidOrderKnown, EventsGenuine
  <2>2. \A g \in Handlers : g # h => pc'[g] = pc[g] /\ event'[g] = event[g]
    BY <1>3 DEF Duplicate, Ignore, HandlerFails, Ack, Return, DonationInv, TypeOK
  <2>3. pc'[h] = "idle"
    BY <1>3 DEF Duplicate, Ignore, HandlerFails, Ack, Return, DonationInv, TypeOK
  <2>4. UNCHANGED <<state, remote, seen, credits, active, owner>>
    BY <1>3 DEF Duplicate, Ignore, HandlerFails
  <2>5. EventsGenuine' /\ FencedAlone' /\ StepsMeant' /\ CreditSpent'
    BY <2>2, <2>3, <2>4 DEF DonationInv, EventsGenuine, FencedAlone, StepsMeant, CreditSpent
  <2>6. CreditedOnce' /\ SupporterHasPaid'
    BY <2>4 DEF DonationInv, CreditedOnce, SupporterHasPaid
  <2> QED BY <2>1, <2>5, <2>6 DEF DonationInv
<1>4. CASE Lookup(h)
  BY <1>4 DEF Lookup, Goto, DonationInv, TypeOK, CheckoutOrdered, PaidOrderKnown,
       EventsGenuine, FencedAlone, StepsMeant, CreditSpent, CreditedOnce, SupporterHasPaid
<1>5. CASE Mark(h)
  <2> DEFINE e == event[h]
  <2>1. /\ pc[h] = "mark" /\ e \in Events /\ e.order \in Orders
        /\ e.type \in Emits(remote[e.order]) /\ e.type # "ORDER_AUTHORISED"
    BY <1>5 DEF Mark, DonationInv, EventsGenuine, StepsMeant, Actionable, Events
  <2>2. /\ e.type = "ORDER_COMPLETED" => remote[e.order] = "paid"
        /\ remote[e.order] = "paid" => e.type = "ORDER_COMPLETED"
        /\ e.type \in EventTypes
    BY <2>1, EmitsFacts
  <2>3. /\ state' = [state EXCEPT ![e.order] = Outcome(e.type)]
        /\ Outcome(e.type) \in {"completed", "failed", "cancelled"}
        /\ e.type = "ORDER_COMPLETED" => Outcome(e.type) = "completed"
    BY <1>5, <2>1, <2>2 DEF Mark, Outcome, EventTypes
  <2>4. \A p \in Orders : remote[p] = "paid" /\ state[p] = "completed" => state'[p] = "completed"
    BY <2>1, <2>2, <2>3 DEF DonationInv, TypeOK
  <2>5. UNCHANGED <<checkout, owner, known, remote, seen, active, credits, faults>>
    BY <1>5 DEF Mark
  <2>6. /\ \A g \in Handlers : g # h => pc'[g] = pc[g] /\ event'[g] = event[g]
        /\ \/ pc'[h] = "credit" /\ event'[h] = e /\ e.type = "ORDER_COMPLETED"
           \/ pc'[h] = "idle"
    BY <1>5 DEF Mark, Goto, Ack, Return, DonationInv, TypeOK
  <2>7. TypeOK'
    BY <1>5, <2>1, <2>3, <2>5 DEF Mark, Goto, Ack, Return, DonationInv, TypeOK
  <2>8. CheckoutOrdered' /\ PaidOrderKnown' /\ CreditedOnce'
    BY <2>5 DEF DonationInv, CheckoutOrdered, PaidOrderKnown, CreditedOnce
  <2>9. EventsGenuine' /\ FencedAlone'
    BY <2>1, <2>5, <2>6 DEF DonationInv, EventsGenuine, FencedAlone
  <2>10. StepsMeant'
    <3>1. \A g \in Handlers : pc[g] = "credit" => state'[event[g].order] = "completed"
      BY <2>4, EmitsFacts DEF DonationInv, StepsMeant, EventsGenuine, Events
    <3>2. e.type = "ORDER_COMPLETED" => state'[e.order] = "completed"
      BY <2>1, <2>3 DEF DonationInv, TypeOK
    <3> QED BY <3>1, <3>2, <2>6 DEF DonationInv, StepsMeant, Actionable
  <2>11. CreditSpent'
    BY <2>1, <2>4, <2>5, <2>6 DEF DonationInv, CreditSpent
  <2>12. SupporterHasPaid'
    BY <2>4, <2>5 DEF DonationInv, SupporterHasPaid
  <2> QED BY <2>7, <2>8, <2>9, <2>10, <2>11, <2>12 DEF DonationInv
<1>6. CASE MarkPaymentReceived(h)
  <2> DEFINE o == event[h].order
  <2>1. /\ pc[h] = "credit" /\ event[h] \in Events /\ o \in Orders
        /\ event[h].type = "ORDER_COMPLETED" /\ state[o] = "completed"
        /\ event[h].type \in Emits(remote[o])
    BY <1>6 DEF MarkPaymentReceived, DonationInv, EventsGenuine, StepsMeant, Events
  <2>2. event[h] = Completed(o) /\ remote[o] = "paid" /\ event[h] \in seen
    BY <2>1, CompletedEvent, EmitsFacts DEF DonationInv, FencedAlone
  <2>3. credits[o] = 0
    BY <2>1, <2>2 DEF DonationInv, CreditSpent, TypeOK
  <2>4. owner[o] \in Users
    BY <2>1, <2>2 DEF DonationInv, PaidOrderKnown, CheckoutOrdered, TypeOK
  <2>5. /\ credits' = [credits EXCEPT ![o] = 1]
        /\ active' = active \cup {owner[o]}
        /\ UNCHANGED <<checkout, owner, state, known, remote, seen, faults>>
    BY <1>6, <2>1, <2>3 DEF MarkPaymentReceived, DonationInv, TypeOK
  <2>6. /\ \A g \in Handlers : g # h => pc'[g] = pc[g] /\ event'[g] = event[g]
        /\ pc'[h] = "idle"
    BY <1>6 DEF MarkPaymentReceived, Ack, Return, DonationInv, TypeOK
  <2>7. TypeOK'
    BY <1>6, <2>1, <2>4, <2>5 DEF MarkPaymentReceived, Ack, Return, DonationInv, TypeOK
  <2>8. CheckoutOrdered' /\ PaidOrderKnown'
    BY <2>5 DEF DonationInv, CheckoutOrdered, PaidOrderKnown
  <2>9. EventsGenuine' /\ FencedAlone' /\ StepsMeant'
    BY <2>5, <2>6 DEF DonationInv, EventsGenuine, FencedAlone, StepsMeant
  <2>10. \A p \in Orders : credits'[p] = IF p = o THEN 1 ELSE credits[p]
    BY <2>1, <2>5 DEF DonationInv, TypeOK
  <2>11. CreditedOnce'
    BY <2>10 DEF DonationInv, CreditedOnce
  <2>12. CreditSpent'
    <3>1. \A g \in Handlers : g # h /\ pc[g] \in Past => event[g] # Completed(o)
      BY <2>1, <2>2 DEF DonationInv, FencedAlone
    <3>2. SUFFICES ASSUME NEW p \in Orders, credits'[p] > 0
                   PROVE  /\ remote[p] = "paid" /\ state[p] = "completed"
                          /\ Completed(p) \in seen
                          /\ \A g \in Handlers : pc'[g] \in Past => event'[g] # Completed(p)
      BY <2>5 DEF CreditSpent, Completed
    <3>3. CASE p = o
      BY <3>1, <3>3, <2>1, <2>2, <2>6 DEF Past
    <3>4. CASE p # o
      BY <3>2, <3>4, <2>6, <2>10 DEF DonationInv, CreditSpent, Past
    <3> QED BY <3>3, <3>4
  <2>13. SupporterHasPaid'
    BY <2>1, <2>2, <2>5, <2>10 DEF DonationInv, SupporterHasPaid
  <2> QED BY <2>7, <2>8, <2>9, <2>11, <2>12, <2>13 DEF DonationInv
<1> QED BY <1>1, <1>2, <1>3, <1>4, <1>5, <1>6 DEF Handler

(* The initial states satisfy it, and every step and stutter keeps it.     *)
LEMMA DonationInvariant == Spec => []DonationInv
<1>1. Init => DonationInv
  BY NoneAssumption DEF Init, DonationInv, TypeOK, CheckoutOrdered, PaidOrderKnown, EventsGenuine,
       FencedAlone, StepsMeant, CreditSpent, CreditedOnce, SupporterHasPaid, Past
<1>2. DonationInv /\ [Next]_vars => DonationInv'
  <2>1. CASE Next
    BY <2>1, CheckoutStep, WebhookStep DEF Next
  <2>2. CASE UNCHANGED vars
    BY <2>2 DEF vars, request, DonationInv, TypeOK, CheckoutOrdered, PaidOrderKnown, EventsGenuine,
         FencedAlone, StepsMeant, CreditSpent, CreditedOnce, SupporterHasPaid
  <2> QED BY <2>1, <2>2
<1> QED BY <1>1, <1>2, PTL DEF Spec

(* For any number of orders, concurrent deliveries and failures, a payment *)
(* is recorded at most once.                                               *)
THEOREM PaymentRecordedOnce == Spec => []CreditedOnce
<1>1. DonationInv => CreditedOnce
  BY DEF DonationInv
<1> QED BY <1>1, DonationInvariant, PTL

(* Whoever is an active supporter has an order that was paid.              *)
THEOREM SupportersHavePaid == Spec => []SupporterHasPaid
<1>1. DonationInv => SupporterHasPaid
  BY DEF DonationInv
<1> QED BY <1>1, DonationInvariant, PTL

(* Every paid order has a row the webhook finds.                           *)
THEOREM PaidOrdersKnown == Spec => []PaidOrderKnown
<1>1. DonationInv => PaidOrderKnown
  BY DEF DonationInv
<1> QED BY <1>1, DonationInvariant, PTL

(* The order rows, the webhook's deduplication table and the handlers keep *)
(* their types; an order that was begun has its user.                      *)
THEOREM DonationsTyped == Spec => []TypeOK
<1>1. DonationInv => TypeOK
  BY DEF DonationInv
<1>. QED  BY <1>1, DonationInvariant, PTL
-----------------------------------------------------------------------------
(* EventQueries.  The least and the greatest of finitely many numbers.     *)
LEMMA MinMaxIs ==
  ASSUME NEW n \in Nat, NEW S, S \subseteq 0..n, S # {}
  PROVE  /\ Min(S) \in S /\ \A x \in S : Min(S) <= x
         /\ Max(S) \in S /\ \A x \in S : x <= Max(S)
<1>. DEFINE P == {k \in 0..n : S \cap (0..k) # {} => \E x \in S : \A y \in S : x <= y}
            Q == {k \in 0..n : S \cap (0..k) # {} => \E x \in S \cap (0..k) : \A y \in S \cap (0..k) : x >= y}
<1>1. 0 \in P /\ \A k \in 1..n : k - 1 \in P => k \in P
  <2>1. 0 \in P
    OBVIOUS
  <2>2. ASSUME NEW k \in 1..n, k - 1 \in P PROVE k \in P
    <3>1. CASE S \cap (0..(k - 1)) # {}
      BY <2>2, <3>1
    <3>2. CASE S \cap (0..(k - 1)) = {}
      <4>1. \A y \in S : k <= y
        BY <3>2
      <4>. QED  BY <4>1
    <3>. QED  BY <3>1, <3>2
  <2>. QED  BY <2>1, <2>2
<1>2. 0 \in Q /\ \A k \in 1..n : k - 1 \in Q => k \in Q
  <2>1. 0 \in Q
    OBVIOUS
  <2>2. ASSUME NEW k \in 1..n, k - 1 \in Q PROVE k \in Q
    <3>1. CASE k \in S
      <4>1. \A y \in S \cap (0..k) : k >= y
        OBVIOUS
      <4>. QED  BY <3>1, <4>1
    <3>2. CASE k \notin S
      <4>1. S \cap (0..k) = S \cap (0..(k - 1))
        BY <3>2
      <4>. QED  BY <2>2, <4>1
    <3>. QED  BY <3>1, <3>2
  <2>. QED  BY <2>1, <2>2
<1>3. n \in P /\ n \in Q
  <2>. HIDE DEF P, Q
  <2>. QED  BY <1>1, <1>2, UpTo
<1>4. S \cap (0..n) = S
  OBVIOUS
<1>5. (\E x \in S : \A y \in S : x <= y) /\ (\E x \in S : \A y \in S : x >= y)
  BY <1>3, <1>4
<1>6. Min(S) \in S /\ \A y \in S : Min(S) <= y
  BY <1>5, Zenon DEF Min
<1>7. Max(S) \in S /\ \A y \in S : Max(S) >= y
  BY <1>5, Zenon DEF Max
<1>. QED  BY <1>6, <1>7

(* A page by cursor has the rows next to the cursor, and is short only if  *)
(* there are no more.                                                      *)
LEMMA HighestIs ==
  ASSUME NEW n \in Nat, NEW S, S \subseteq 0..n
  PROVE  /\ Highest(S) \subseteq S
         /\ \A s, r \in S : s \in Highest(S) /\ s < r => r \in Highest(S)
         /\ Cardinality(Highest(S)) < PageLimit => Highest(S) = S
<1>. DEFINE above(s) == {r \in S : r > s}
<1>0. \A x \in S : x \in Int
  OBVIOUS
<1>1. IsFiniteSet(S)
  <2>1. IsFiniteSet(0..n)
    BY FS_Interval
  <2>2. S \in SUBSET (0..n)
    OBVIOUS
  <2>. QED  BY <2>1, <2>2, FS_Subset
<1>2. \A s : IsFiniteSet(above(s)) /\ Cardinality(above(s)) \in Nat
  <2>1. TAKE s
  <2>2. above(s) \in SUBSET S
    OBVIOUS
  <2>. QED  BY <1>1, <2>2, FS_Subset, FS_CardinalityType
<1>3. PageLimit \in Nat
  BY EventQueriesAssumption
<1>4. Highest(S) = {s \in S : Cardinality(above(s)) < PageLimit}
  BY DEF Highest
<1>5. ASSUME NEW s \in S, NEW r \in S, s \in Highest(S), s < r PROVE r \in Highest(S)
  <2>1. above(r) \in SUBSET above(s)
    <3>1. \A x \in S : x > r => x > s
      BY <1>0, <1>5
    <3>. QED  BY <3>1, Zenon
  <2>2. Cardinality(above(r)) <= Cardinality(above(s))
    BY <1>2, <2>1, FS_Subset
  <2>. HIDE DEF above
  <2>. QED  BY <1>2, <1>3, <1>4, <1>5, <2>2
<1>6. ASSUME Cardinality(Highest(S)) < PageLimit, S \ Highest(S) # {} PROVE FALSE
  <2>. DEFINE top == Max(S \ Highest(S))
  <2>1. top \in S \ Highest(S) /\ \A x \in S \ Highest(S) : x <= top
    BY <1>6, MinMaxIs
  <2>. HIDE DEF top
  <2>2. above(top) \in SUBSET Highest(S)
    <3>1. \A x \in S : x > top => x \in Highest(S)
      BY <1>0, <2>1
    <3>. QED  BY <3>1, Zenon
  <2>3. IsFiniteSet(Highest(S))
    BY <1>1, <1>4, FS_Subset
  <2>4. Cardinality(above(top)) <= Cardinality(Highest(S)) /\ Cardinality(Highest(S)) \in Nat
    BY <2>2, <2>3, FS_Subset, FS_CardinalityType
  <2>5. ~(Cardinality(above(top)) < PageLimit)
    BY <1>4, <2>1
  <2>. HIDE DEF above
  <2>. QED  BY <1>2, <1>3, <1>6, <2>4, <2>5
<1>. QED  BY <1>4, <1>5, <1>6

(* A client that pages back has every row down to where it is that there   *)
(* was at the start, and asks for no row again.                            *)
PagedTo ==
  /\ pager.had \cup pager.due \subseteq listed
  /\ pager.at # "off" => \A s \in pager.had : pager.low <= s /\ s <= pager.high
  /\ pager.at = "older" => \A s \in pager.due : s \in pager.had \/ s < pager.low
  /\ pager.at = "newer" => pager.due \subseteq pager.had
  /\ ~pager.again

(* What was counted was shown, and so is what will be.                     *)
ViewerKnows ==
  /\ viewer.total \cup viewer.by_type \subseteq viewer.shown
  /\ viewer.at = "total" => shared_rows \subseteq viewer.shown
  /\ viewer.at = "off" => viewer.total = {} /\ viewer.by_type = {}

PagerType ==
  [at : {"off", "older", "newer"}, low : Nat, high : Nat, had : SUBSET Nat, due : SUBSET Nat, again : BOOLEAN]
ViewerType ==
  [at : {"off", "total", "done"}, total : SUBSET Nat, by_type : SUBSET Nat, shown : SUBSET Nat]

QueryInv ==
  /\ pager \in PagerType /\ viewer \in ViewerType
  /\ lastSeq \in 0..MaxSeq /\ inserting \cup listed \subseteq 1..lastSeq
  /\ inserting \cap listed = {} /\ hidden \subseteq listed
  /\ PagedTo /\ ViewerKnows

LEMMA QueryInitially == QueryInit => QueryInv
<1>. SUFFICES ASSUME QueryInit PROVE QueryInv
  OBVIOUS
<1>1. /\ pager = NoPager /\ viewer = NoViewer /\ lastSeq = 0 /\ inserting = {} /\ listed = {} /\ hidden = {}
      /\ MaxSeq \in Nat
  BY EventQueriesAssumption DEF QueryInit
<1>2. pager \in PagerType /\ viewer \in ViewerType
  BY <1>1 DEF PagerType, ViewerType, NoPager, NoViewer
<1>3. PagedTo /\ ViewerKnows
  BY <1>1 DEF PagedTo, ViewerKnows, NoPager, NoViewer
<1>. QED  BY <1>1, <1>2, <1>3 DEF QueryInv

(* Rows that come, are hidden and shown again.                             *)
LEMMA RowsStep ==
  ASSUME QueryInv, InsertRow \/ (\E s \in inserting : CommitRow(s)) \/ (\E s \in listed : HideRow(s) \/ UnhideRow(s))
  PROVE  QueryInv'
<1>0. /\ pager \in PagerType /\ viewer \in ViewerType /\ lastSeq \in Nat /\ lastSeq <= MaxSeq /\ MaxSeq \in Nat
      /\ inserting \cup listed \subseteq 1..lastSeq /\ inserting \cap listed = {} /\ hidden \subseteq listed
      /\ PagedTo /\ ViewerKnows
  BY EventQueriesAssumption DEF QueryInv
<1>1. CASE InsertRow
  <2>1. /\ lastSeq' \in 0..MaxSeq /\ (inserting \cup listed)' \subseteq 1..lastSeq'
        /\ (inserting \cap listed)' = {} /\ hidden' \subseteq listed'
    BY <1>0, <1>1 DEF InsertRow
  <2>2. PagedTo' /\ ViewerKnows'
    BY <1>0, <1>1 DEF InsertRow, PagedTo, ViewerKnows, shared_rows
  <2>. QED  BY <1>0, <1>1, <2>1, <2>2 DEF InsertRow, QueryInv
<1>2. ASSUME NEW s \in inserting, CommitRow(s) PROVE QueryInv'
  <2>1. /\ lastSeq' \in 0..MaxSeq /\ (inserting \cup listed)' \subseteq 1..lastSeq'
        /\ (inserting \cap listed)' = {} /\ hidden' \subseteq listed' /\ listed \subseteq listed'
    BY <1>0, <1>2 DEF CommitRow
  <2>2. PagedTo' /\ pager' = pager
    BY <1>0, <1>2, <2>1 DEF CommitRow, PagedTo
  <2>3. viewer' \in ViewerType /\ ViewerKnows'
    <3>1. CASE viewer' = viewer /\ listed' = listed
      BY <1>0, <1>2, <3>1 DEF CommitRow, ViewerKnows, shared_rows
    <3>2. CASE Shown({s}) /\ listed' = listed \cup {s}
      <4>1. CASE viewer.at = "off"
        BY <1>0, <1>2, <3>2, <4>1 DEF CommitRow, Shown, ViewerKnows, shared_rows, ViewerType
      <4>2. CASE viewer.at # "off"
        BY <1>0, <1>2, <3>2, <4>2 DEF CommitRow, Shown, ViewerKnows, shared_rows, ViewerType
      <4>. QED  BY <4>1, <4>2
    <3>. QED  BY <1>2, <3>1, <3>2 DEF CommitRow
  <2>. QED  BY <1>0, <2>1, <2>2, <2>3 DEF QueryInv
<1>3. ASSUME NEW s \in listed, HideRow(s) PROVE QueryInv'
  BY <1>0, <1>3 DEF HideRow, set_event_hidden, QueryInv, PagedTo, ViewerKnows, shared_rows
<1>4. ASSUME NEW s \in listed, UnhideRow(s) PROVE QueryInv'
  <2>1. hidden' \subseteq listed' /\ UNCHANGED <<lastSeq, inserting, listed, pager>>
    BY <1>0, <1>4 DEF UnhideRow, set_event_hidden
  <2>2. PagedTo'
    BY <1>0, <2>1 DEF PagedTo
  <2>3. viewer' \in ViewerType /\ ViewerKnows'
    <3>1. CASE viewer.at = "off"
      BY <1>0, <1>4, <3>1 DEF UnhideRow, set_event_hidden, Shown, ViewerKnows, shared_rows, ViewerType
    <3>2. CASE viewer.at # "off"
      BY <1>0, <1>4, <3>2 DEF UnhideRow, set_event_hidden, Shown, ViewerKnows, shared_rows, ViewerType
    <3>. QED  BY <3>1, <3>2
  <2>. QED  BY <1>0, <2>1, <2>2, <2>3 DEF QueryInv
<1>. QED  BY <1>1, <1>2, <1>3, <1>4

(* A page that a client turns to.                                          *)
LEMMA PagerStep ==
  ASSUME QueryInv, FirstPage \/ OlderPage \/ NewerPage \/ ClosePager
  PROVE  QueryInv'
<1>0. /\ pager \in PagerType /\ viewer \in ViewerType /\ lastSeq \in Nat /\ lastSeq \in 0..MaxSeq
      /\ inserting \cup listed \subseteq 1..lastSeq /\ inserting \cap listed = {} /\ hidden \subseteq listed
      /\ PagedTo /\ ViewerKnows
  BY EventQueriesAssumption DEF QueryInv
<1>1. UNCHANGED <<lastSeq, inserting, listed, hidden, viewer>>
  BY DEF FirstPage, OlderPage, NewerPage, ClosePager
<1>2. ViewerKnows'
  BY <1>0, <1>1 DEF ViewerKnows, shared_rows
<1>3. SUFFICES pager' \in PagerType /\ PagedTo'
  BY <1>0, <1>1, <1>2 DEF QueryInv
<1>4. listed \subseteq 0..lastSeq /\ listed \subseteq Nat
  BY <1>0
<1>5. CASE FirstPage
  <2>. DEFINE page == Highest(listed)
  <2>1. page \subseteq listed /\ \A s, r \in listed : s \in page /\ s < r => r \in page
    BY <1>0, <1>4, HighestIs
  <2>2. page # {} /\ pager' = [NoPager EXCEPT !.at = "older", !.low = Min(page), !.high = Max(page),
                                             !.had = page, !.due = listed]
    BY <1>5 DEF FirstPage, list_filtered
  <2>. HIDE DEF page
  <2>3. /\ Min(page) \in page /\ \A x \in page : Min(page) <= x
        /\ Max(page) \in page /\ \A x \in page : x <= Max(page)
    BY <1>0, <1>4, <2>1, <2>2, MinMaxIs
  <2>4. \A s \in listed : s \in page \/ s < Min(page)
    <3>1. Min(page) \in listed
      BY <2>1, <2>3
    <3>2. \A s \in listed : Min(page) < s => s \in page
      BY <2>1, <2>3, <3>1
    <3>3. \A s \in listed : s \in Int
      BY <1>4
    <3>4. Min(page) \in Int
      BY <3>1, <3>3, Zenon
    <3>. DEFINE low == Min(page)
    <3>. HIDE DEF low
    <3>5. \A s \in listed : s \in page \/ s < low
      <4>1. low \in Int /\ (\A s \in listed : low < s => s \in page) /\ low \in page
        BY <2>3, <3>2, <3>4, Zenon DEF low
      <4>. QED  BY <3>3, <4>1
    <3>. QED  BY <3>5, Zenon DEF low
  <2>5. /\ pager'.at = "older" /\ pager'.low = Min(page) /\ pager'.high = Max(page)
        /\ pager'.had = page /\ pager'.due = listed /\ pager'.again = FALSE
    BY <2>2 DEF NoPager
  <2>6. pager' \in PagerType
    BY <1>4, <2>1, <2>2, <2>3 DEF PagerType, NoPager
  <2>. QED  BY <1>1, <2>1, <2>3, <2>4, <2>5, <2>6 DEF PagedTo
<1>6. CASE OlderPage
  <2>. DEFINE rest == {s \in listed : s < pager.low}
              page == Highest(rest)
  <2>1. rest \subseteq 0..lastSeq
    BY <1>4
  <2>2. /\ page \subseteq rest /\ \A s, r \in rest : s \in page /\ s < r => r \in page
        /\ Cardinality(page) < PageLimit => page = rest
    BY <1>0, <2>1, HighestIs
  <2>3. /\ pager.at = "older"
        /\ Turn(page, IF Cardinality(page) < PageLimit THEN "newer" ELSE "older")
    BY <1>6 DEF OlderPage, list_before
  <2>4. /\ \A s \in rest : s \in listed /\ s < pager.low /\ s \in Nat
        /\ pager.low \in Nat /\ pager.high \in Nat /\ \A s \in pager.had : s \in Nat
    BY <1>0, <1>4 DEF PagerType
  <2>5. \A s \in pager.due : s \in pager.had \/ s \in rest
    BY <1>0, <2>3 DEF PagedTo
  <2>. HIDE DEF rest, page
  <2>6. page \cap pager.had = {}
    BY <1>0, <2>2, <2>3, <2>4 DEF PagedTo
  <2>7. CASE page = {}
    <3>1. Cardinality(page) < PageLimit
      BY <2>7, EventQueriesAssumption, FS_EmptySet
    <3>2. pager' = [pager EXCEPT !.at = "newer", !.low = @, !.high = @, !.had = @ \cup page, !.again = @ \/ page \cap pager.had # {}]
      BY <2>3, <2>7, <3>1 DEF Turn
    <3>3. /\ pager'.at = "newer" /\ pager'.low = pager.low /\ pager'.high = pager.high
          /\ pager'.had = pager.had /\ pager'.due = pager.due /\ pager'.again = pager.again
          /\ pager' \in PagerType
      BY <1>0, <2>6, <2>7, <3>2 DEF PagerType
    <3>4. rest = {}
      BY <2>2, <2>7, <3>1
    <3>. QED  BY <1>0, <1>1, <2>3, <2>5, <3>3, <3>4 DEF PagedTo
  <2>8. CASE page # {}
    <3>. DEFINE low == Min(page \cup {pager.low})
                high == Max(page \cup {pager.high})
                at == IF Cardinality(page) < PageLimit THEN "newer" ELSE "older"
    <3>1. pager' = [pager EXCEPT !.at = at, !.low = low, !.high = high, !.had = @ \cup page, !.again = @ \/ page \cap pager.had # {}]
      BY <2>3, <2>8 DEF Turn
    <3>2. /\ low \in page \cup {pager.low} /\ \A x \in page \cup {pager.low} : low <= x
          /\ high \in page \cup {pager.high} /\ \A x \in page \cup {pager.high} : x <= high
      <4>. DEFINE n == lastSeq + pager.low + pager.high
      <4>1. n \in Nat /\ page \cup {pager.low} \subseteq 0..n /\ page \cup {pager.high} \subseteq 0..n
        <5>1. \A x \in page : x \in 0..lastSeq
          BY <2>1, <2>2
        <5>2. lastSeq \in Nat /\ pager.low \in Nat /\ pager.high \in Nat
          BY <1>0, <2>4
        <5>. QED  BY <5>1, <5>2
      <4>. HIDE DEF n
      <4>. QED  BY <4>1, MinMaxIs
    <3>. HIDE DEF low, high, at
    <3>3. /\ pager'.at = at /\ pager'.low = low /\ pager'.high = high
          /\ pager'.had = pager.had \cup page /\ pager'.due = pager.due /\ pager'.again = pager.again
          /\ pager' \in PagerType
      <4>1. at \in {"newer", "older"}
        BY DEF at
      <4>2. low \in Nat /\ high \in Nat /\ page \subseteq Nat
        BY <2>2, <2>4, <3>2
      <4>. QED  BY <1>0, <2>6, <3>1, <4>1, <4>2 DEF PagerType
    <3>4. low \in page
      BY <2>2, <2>4, <2>8, <3>2
    <3>5. \A s \in pager.due : s \in pager'.had \/ s < low
      BY <2>2, <2>4, <2>5, <3>2, <3>3, <3>4
    <3>6. at = "newer" => pager.due \subseteq pager'.had
      BY <2>2, <2>5, <3>3 DEF at
    <3>7. \A s \in pager'.had : low <= s /\ s <= high
      BY <1>0, <2>2, <2>3, <2>4, <3>2, <3>3 DEF PagedTo
    <3>8. pager'.had \cup pager'.due \subseteq listed
      BY <1>0, <2>2, <2>4, <3>3 DEF PagedTo
    <3>. QED  BY <1>0, <1>1, <3>3, <3>5, <3>6, <3>7, <3>8 DEF PagedTo
  <2>. QED  BY <2>7, <2>8
<1>7. CASE NewerPage
  <2>. DEFINE page == list_after(pager.high)
              low == Min(page \cup {pager.low})
              high == Max(page \cup {pager.high})
  <2>1. page # {} /\ pager.at = "newer" /\ Turn(page, "newer")
    BY <1>7 DEF NewerPage
  <2>2. /\ pager.low \in Nat /\ pager.high \in Nat /\ \A s \in pager.had : s \in Nat
    BY <1>0 DEF PagerType
  <2>3. \A s \in page : s \in listed /\ s > pager.high /\ s \in Nat
    BY <1>4 DEF list_after, Lowest
  <2>. HIDE DEF page
  <2>4. page \cap pager.had = {}
    BY <1>0, <2>1, <2>2, <2>3 DEF PagedTo
  <2>5. /\ low \in page \cup {pager.low} /\ \A x \in page \cup {pager.low} : low <= x
        /\ high \in page \cup {pager.high} /\ \A x \in page \cup {pager.high} : x <= high
    <3>. DEFINE n == lastSeq + pager.low + pager.high
    <3>1. n \in Nat /\ page \cup {pager.low} \subseteq 0..n /\ page \cup {pager.high} \subseteq 0..n
      BY <1>0, <1>4, <2>2, <2>3
    <3>. HIDE DEF n
    <3>. QED  BY <3>1, MinMaxIs
  <2>6. pager' = [pager EXCEPT !.at = "newer", !.low = low, !.high = high, !.had = @ \cup page, !.again = @ \/ page \cap pager.had # {}]
    BY <2>1 DEF Turn
  <2>. HIDE DEF low, high
  <2>7. low \in Nat /\ high \in Nat /\ page \subseteq Nat
    BY <2>2, <2>3, <2>5
  <2>8. /\ pager'.at = "newer" /\ pager'.low = low /\ pager'.high = high
        /\ pager'.had = pager.had \cup page /\ pager'.due = pager.due /\ pager'.again = pager.again
        /\ pager' \in PagerType
    BY <1>0, <2>4, <2>6, <2>7 DEF PagerType
  <2>9. \A s \in pager'.had : low <= s /\ s <= high
    <3>1. \A s \in pager.had : pager.low <= s /\ s <= pager.high
      BY <1>0, <2>1 DEF PagedTo
    <3>2. low <= pager.low /\ pager.high <= high /\ \A s \in page : low <= s /\ s <= high
      BY <2>5
    <3>3. \A s \in pager.had : low <= s /\ s <= high
      BY <2>2, <2>7, <3>1, <3>2
    <3>. QED  BY <2>8, <3>2, <3>3
  <2>10. pager'.had \cup pager'.due \subseteq listed
    BY <1>0, <2>3, <2>8 DEF PagedTo
  <2>. QED  BY <1>0, <1>1, <2>1, <2>8, <2>9, <2>10 DEF PagedTo
<1>8. CASE ClosePager
  BY <1>0, <1>1, <1>8 DEF ClosePager, PagedTo, NoPager, PagerType
<1>. QED  BY <1>5, <1>6, <1>7, <1>8

(* The two statements of a summary.                                        *)
LEMMA SummaryStep ==
  ASSUME QueryInv, SummaryTotal \/ SummaryByType \/ SummaryAnswered
  PROVE  QueryInv'
<1>0. /\ viewer \in ViewerType /\ hidden \subseteq listed /\ listed \subseteq Nat /\ ViewerKnows
  BY EventQueriesAssumption DEF QueryInv
<1>1. UNCHANGED <<lastSeq, inserting, listed, hidden, pager>>
  BY DEF SummaryTotal, SummaryByType, SummaryAnswered
<1>2. shared_rows \subseteq Nat /\ shared_rows' = shared_rows
  BY <1>0, <1>1 DEF shared_rows
<1>3. viewer' \in ViewerType /\ ViewerKnows'
  <2>1. CASE SummaryTotal
    <3>1. viewer' = [at |-> "total", total |-> shared_rows, by_type |-> {}, shown |-> shared_rows]
      BY <2>1 DEF SummaryTotal, shared_rows
    <3>. QED  BY <1>2, <3>1 DEF ViewerType, ViewerKnows
  <2>2. CASE SummaryByType
    <3>1. viewer.at = "total" /\ viewer' = [viewer EXCEPT !.at = "done", !.by_type = shared_rows]
      BY <2>2 DEF SummaryByType
    <3>. QED  BY <1>0, <1>2, <3>1 DEF ViewerType, ViewerKnows
  <2>3. CASE SummaryAnswered
    BY <2>3 DEF SummaryAnswered, NoViewer, ViewerType, ViewerKnows
  <2>. QED  BY <2>1, <2>2, <2>3
<1>4. PagedTo'
  BY <1>1 DEF QueryInv, PagedTo
<1>. QED  BY <1>1, <1>3, <1>4 DEF QueryInv

LEMMA QueryInductive == QueryInv /\ [QueryNext]_queryVars => QueryInv'
<1>. SUFFICES ASSUME QueryInv, [QueryNext]_queryVars PROVE QueryInv'
  OBVIOUS
<1>1. CASE QueryNext
  BY <1>1, RowsStep, PagerStep, SummaryStep, Zenon DEF QueryNext
<1>2. CASE UNCHANGED queryVars
  BY <1>2 DEF queryVars, QueryInv, PagedTo, ViewerKnows, shared_rows
<1>. QED  BY <1>1, <1>2

LEMMA PagesAsMeant == QueryInv => QueryTypeOK /\ PagesComplete /\ OnlyShownCounted
BY DEF QueryInv, PagedTo, ViewerKnows, PagerType, ViewerType, QueryTypeOK, PagesComplete, OnlyShownCounted
-----------------------------------------------------------------------------
(* AdminLists.  The rows of a list, newest first, and those asked for.     *)
ListRow == [id : Nat \ {0}, matches : BOOLEAN]
NewestFirst == {xy \in ListRow \X ListRow : xy[1].id > xy[2].id}

Wanted(q) == {r \in ToSet(table) : q => r.matches}
NewerRows(q, id) == {r \in Wanted(q) : r.id > id}

ReaderType ==
  [at : {"off", "reading", "done"}, list : Lists, q : BOOLEAN, limit : Nat, offset : Nat,
   had : Seq(ListRow), due : SUBSET Nat, deleted : BOOLEAN, added : BOOLEAN]

ListsTyped ==
  /\ table \in Seq(ListRow) /\ OrderedBy(table, NewestFirst) /\ numbered \in Nat
  /\ \A r \in ToSet(table) : r.id <= numbered
  /\ reader \in ReaderType

HadIds == {r.id : r \in ToSet(reader.had)}

(* A row that is due has been had or is behind the offset, unless rows     *)
(* were deleted.                                                           *)
DueAhead ==
  ~reader.deleted =>
    /\ reader.at = "reading" =>
         /\ reader.offset <= Cardinality(Wanted(reader.q))
         /\ \A id \in reader.due : \/ id \in HadIds
                                   \/ \E r \in Wanted(reader.q) :
                                        r.id = id /\ Cardinality(NewerRows(reader.q, id)) >= reader.offset
    /\ reader.at = "done" => reader.due \subseteq HadIds

(* Rows behind the offset have not been had, unless rows were added.       *)
HadBehind ==
  ~reader.added =>
    /\ reader.at = "reading" =>
         \A r \in Wanted(reader.q) : Cardinality(NewerRows(reader.q, r.id)) >= reader.offset
                                     => \A x \in ToSet(reader.had) : r.id < x.id
    /\ \A i, j \in DOMAIN reader.had : i # j => reader.had[i].id # reader.had[j].id

ListsInv == ListsTyped /\ DueAhead /\ HadBehind

LEMMA NumberedItems ==
  ASSUME NEW k \in Nat, NEW T, NEW f \in [1..k -> T],
         \A i, j \in 1..k : f[i] = f[j] => i = j, \A t \in T : \E i \in 1..k : f[i] = t
  PROVE  IsFiniteSet(T) /\ Cardinality(T) = k
<1>1. f \in Bijection(1..k, T)
  BY Zenon DEF Bijection, Injection, Surjection, IsInjective
<1>2. ExistsBijection(1..k, T)
  BY <1>1, Zenon DEF ExistsBijection
<1>. QED  BY <1>2, FS_CountingElements, FS_NatBijection, Zenon

(* The list that is asked for, by the number of newer rows.                *)
LEMMA MatchingIs ==
  ASSUME ListsTyped, NEW q
  PROVE  /\ Matching(table, q) \in Seq(ListRow) /\ ToSet(Matching(table, q)) = Wanted(q)
         /\ IsFiniteSet(Wanted(q)) /\ Cardinality(Wanted(q)) = Len(Matching(table, q))
         /\ \A j, k \in 1..Len(Matching(table, q)) :
              j < k => Matching(table, q)[j].id > Matching(table, q)[k].id
         /\ \A k \in 1..Len(Matching(table, q)) : Cardinality(NewerRows(q, Matching(table, q)[k].id)) = k - 1
<1>. DEFINE m == Matching(table, q)
            n == Len(m)
<1>1. table \in Seq(ListRow) /\ OrderedBy(table, NewestFirst)
  BY DEF ListsTyped
<1>2. m \in Seq(ListRow) /\ ToSet(m) = ToSet(table) \cap Wanted(q) /\ OrderedBy(m, NewestFirst)
  BY <1>1, FilteredItems, FilteredOrder, Zenon DEF Matching, Wanted
<1>. HIDE DEF m
<1>3. ToSet(m) = Wanted(q) /\ n \in Nat /\ DOMAIN m = 1..n /\ \A k \in 1..n : m[k] \in ListRow
  BY <1>2 DEF Wanted
<1>4. \A j, k \in 1..n : j < k => m[j].id > m[k].id
  BY <1>2, <1>3 DEF OrderedBy, NewestFirst
<1>5. \A k \in 1..n : m[k].id \in Nat
  BY <1>3 DEF ListRow
<1>6. \A k \in 1..n : \A j \in 1..n : m[j].id > m[k].id <=> j < k
  BY <1>3, <1>4, <1>5
<1>7. ASSUME NEW k \in 0..n PROVE Cardinality({m[j] : j \in 1..k}) = k /\ IsFiniteSet({m[j] : j \in 1..k})
  <2>. DEFINE T == {m[j] : j \in 1..k}
              f == [j \in 1..k |-> m[j]]
  <2>1. \A i, j \in 1..k : m[i] = m[j] => i = j
    <3>1. \A i \in 1..k : i \in 1..n
      BY <1>3
    <3>. QED  BY <1>3, <1>4, <1>5, <3>1
  <2>2. f \in [1..k -> T] /\ (\A i, j \in 1..k : f[i] = f[j] => i = j) /\ (\A t \in T : \E i \in 1..k : f[i] = t)
    BY <2>1
  <2>3. k \in Nat
    BY <1>3
  <2>. HIDE DEF f, T
  <2>4. IsFiniteSet(T) /\ Cardinality(T) = k
    BY <2>2, <2>3, NumberedItems
  <2>. QED  BY <2>4 DEF T
<1>8. Wanted(q) = {m[j] : j \in 1..n}
  BY <1>3 DEF ToSet
<1>9. IsFiniteSet(Wanted(q)) /\ Cardinality(Wanted(q)) = n
  <2>1. n \in 0..n
    BY <1>3
  <2>. QED  BY <1>7, <1>8, <2>1
<1>10. ASSUME NEW k \in 1..n PROVE Cardinality(NewerRows(q, m[k].id)) = k - 1
  <2>1. \A j \in 1..n : j \in 1..(k - 1) <=> m[j].id > m[k].id
    BY <1>3, <1>6
  <2>2. NewerRows(q, m[k].id) = {m[j] : j \in 1..(k - 1)}
    <3>1. \A j \in 1..(k - 1) : j \in 1..n
      BY <1>3
    <3>. QED  BY <1>8, <2>1, <3>1, Zenon DEF NewerRows
  <2>3. k - 1 \in 0..n
    BY <1>3
  <2>. QED  BY <1>7, <2>2, <2>3
<1>. QED  BY <1>2, <1>3, <1>4, <1>9, <1>10 DEF m

(* A page goes from the offset to m; an answer without more goes to the    *)
(* end.                                                                    *)
IsPageTo(page, list, offset, m) ==
  /\ m \in Nat /\ offset <= m /\ (m <= Len(list) \/ m = offset)
  /\ page.rows \in Seq(ListRow) /\ Len(page.rows) = m - offset
  /\ \A k \in 1..(m - offset) : page.rows[k] = list[offset + k]
  /\ ~page.has_more => m >= Len(list)

LEMMA WindowIs ==
  ASSUME NEW list \in Seq(ListRow), NEW offset \in Nat, NEW limit \in Nat \ {0}, NEW page,
         page.rows = Window(list, limit, offset),
         ~page.has_more => Len(page.rows) < limit
  PROVE  \E m \in Nat : IsPageTo(page, list, offset, m)
<1>. DEFINE n == Len(list)
            w == Window(list, limit, offset)
<1>1. n \in Nat
  OBVIOUS
<1>2. CASE offset <= n
  <2>. DEFINE m == IF offset + limit < n THEN offset + limit ELSE n
  <2>1. m \in Nat /\ offset <= m /\ m <= n /\ (m < n => m = offset + limit)
        /\ offset + 1 \in 1..(n + 1) /\ m \in ((offset + 1) - 1)..n
    BY <1>1, <1>2
  <2>2. w = SubSeq(list, offset + 1, m)
    BY DEF Window
  <2>. HIDE DEF m
  <2>3. IsPart(SubSeq(list, offset + 1, m), ListRow, list, offset + 1, m)
    BY <2>1, PartItems, Zenon
  <2>4. /\ w \in Seq(ListRow) /\ Len(w) = m - offset
        /\ \A k \in 1..(m - offset) : w[k] = list[offset + k]
    BY <2>1, <2>2, <2>3 DEF IsPart
  <2>5. IsPageTo(page, list, offset, m)
    BY <1>1, <2>1, <2>4 DEF IsPageTo
  <2>. QED  BY <2>1, <2>5
<1>3. CASE ~(offset <= n)
  <2>1. w = <<>>
    BY <1>1, <1>3 DEF Window
  <2>2. IsPageTo(page, list, offset, offset)
    BY <1>1, <1>3, <2>1 DEF IsPageTo
  <2>. QED  BY <2>2
<1>. QED  BY <1>2, <1>3

LEMMA AnswersPages ==
  ASSUME ListsTyped, NEW list \in Lists, NEW q, NEW limit \in Nat, NEW offset \in Nat
  PROVE  \E m \in Nat : IsPageTo(Answers(list, q, limit, offset), Matching(table, q), offset, m)
<1>. DEFINE max == clamp(limit, 1, PageMax)
            page == Answers(list, q, limit, offset)
<1>1. PageMax \in Nat \ {0}
  BY AdminListsAssumption
<1>2. max \in Nat \ {0} /\ clamp(max, 1, PageMax) = max
  BY <1>1 DEF clamp
<1>3. Matching(table, q) \in Seq(ListRow)
  BY MatchingIs
<1>4. /\ page.rows = Window(Matching(table, q), max, offset)
      /\ page.has_more = (IF list = "batches" THEN page.rows # <<>> ELSE Len(page.rows) >= max)
  BY <1>2 DEF Lists, Answers, list_users_admin, list_orgs_admin, list_audit, ingest_history, list_users,
              list_all, list_entries, ingest_history_for_handle, more
<1>. HIDE DEF page, max
<1>5. ~page.has_more => Len(page.rows) < max
  <2>1. page.rows \in Seq(ListRow)
    <3>1. CASE offset <= Len(Matching(table, q))
      BY <1>2, <1>3, <1>4, <3>1 DEF Window
    <3>2. CASE ~(offset <= Len(Matching(table, q)))
      BY <1>2, <1>3, <1>4, <3>2 DEF Window
    <3>. QED  BY <3>1, <3>2
  <2>2. Len(page.rows) \in Nat /\ (page.rows = <<>> => Len(page.rows) = 0)
    BY <2>1
  <2>3. CASE list = "batches"
    <3>1. ~page.has_more => page.rows = <<>>
      BY <1>4, <2>3, Zenon
    <3>. QED  BY <1>2, <2>2, <3>1
  <2>4. CASE list # "batches"
    <3>1. ~page.has_more => ~(Len(page.rows) >= max)
      BY <1>4, <2>4, Zenon
    <3>. QED  BY <1>2, <2>2, <3>1
  <2>. QED  BY <2>3, <2>4
<1>6. \E m \in Nat : IsPageTo(page, Matching(table, q), offset, m)
  BY <1>2, <1>3, <1>4, <1>5, WindowIs
<1>. QED  BY <1>6 DEF page

LEMMA ListsInitially == ListsInit => ListsInv
<1>. SUFFICES ASSUME ListsInit PROVE ListsInv
  OBVIOUS
<1>1. ListsTyped
  <2>1. table = <<>> /\ numbered = 0 /\ reader \in ReaderType
    BY DEF ListsInit, ReaderType, Lists
  <2>2. table \in Seq(ListRow) /\ ToSet(table) = {} /\ OrderedBy(table, NewestFirst)
    BY <2>1 DEF ToSet, OrderedBy
  <2>. QED  BY <2>1, <2>2 DEF ListsTyped
<1>. QED  BY <1>1 DEF ListsInit, ListsInv, DueAhead, HadBehind

(* Reading begins.                                                         *)
LEMMA ReadingStep ==
  ASSUME ListsInv, NEW list \in Lists, NEW q \in BOOLEAN, NEW limit \in AskedLimits,
         StartReading(list, q, limit)
  PROVE  ListsInv'
<1>. DEFINE due == {r.id : r \in ToSet(Matching(table, q))}
<1>0. ListsTyped
  BY DEF ListsInv
<1>1. /\ UNCHANGED <<table, numbered>>
      /\ reader' = [at |-> "reading", list |-> list, q |-> q, limit |-> limit, offset |-> 0,
                    had |-> <<>>, due |-> due, deleted |-> FALSE, added |-> FALSE]
  BY DEF StartReading
<1>2. /\ ToSet(Matching(table, q)) = Wanted(q) /\ IsFiniteSet(Wanted(q)) /\ Cardinality(Wanted(q)) \in Nat
  BY <1>0, MatchingIs, FS_CardinalityType
<1>3. due \subseteq Nat
  <2>1. \A r \in Wanted(q) : r \in ListRow
    BY <1>0 DEF Wanted, ListsTyped, ToSet
  <2>. QED  BY <1>2, <2>1 DEF ListRow
<1>4. \A id : IsFiniteSet(NewerRows(q, id)) /\ Cardinality(NewerRows(q, id)) \in Nat
  <2>1. TAKE id
  <2>2. NewerRows(q, id) \in SUBSET Wanted(q)
    BY DEF NewerRows
  <2>. QED  BY <1>2, <2>2, FS_Subset, FS_CardinalityType
<1>. HIDE DEF due
<1>5. limit \in Nat
  BY AdminListsAssumption
<1>6. ListsTyped'
  <2>1. reader' \in ReaderType
    BY <1>1, <1>3, <1>5 DEF ReaderType
  <2>. QED  BY <1>0, <1>1, <2>1 DEF ListsTyped
<1>7. DueAhead'
  <2>1. Wanted(q)' = Wanted(q) /\ \A id : NewerRows(q, id)' = NewerRows(q, id)
    BY <1>1 DEF Wanted, NewerRows
  <2>2. \A id \in due : \E r \in Wanted(q) : r.id = id /\ Cardinality(NewerRows(q, id)) >= 0
    BY <1>2, <1>4 DEF due
  <2>. QED  BY <1>1, <1>2, <2>1, <2>2 DEF DueAhead
<1>8. HadBehind'
  <2>1. ToSet(<<>>) = {}
    BY DEF ToSet
  <2>. QED  BY <1>1, <2>1 DEF HadBehind
<1>. QED  BY <1>6, <1>7, <1>8 DEF ListsInv

(* A row comes, before the others.                                         *)
LEMMA AddedStep ==
  ASSUME ListsInv, NEW matches \in BOOLEAN, RowAdded(matches)
  PROVE  ListsInv'
<1>. DEFINE row == [id |-> numbered + 1, matches |-> matches]
<1>00. PICK q : q = reader.q
  OBVIOUS
<1>0. /\ table \in Seq(ListRow) /\ OrderedBy(table, NewestFirst) /\ numbered \in Nat
      /\ \A r \in ToSet(table) : r.id <= numbered /\ r \in ListRow
      /\ reader \in ReaderType /\ ListsTyped
  BY DEF ListsInv, ListsTyped, ToSet
<1>1. /\ numbered' = numbered + 1 /\ table' = <<row>> \o table
      /\ reader' = [reader EXCEPT !.added = TRUE]
  BY DEF RowAdded
<1>2. row \in ListRow
  BY <1>0 DEF ListRow
<1>3. table' \in Seq(ListRow) /\ ToSet(table') = {row} \cup ToSet(table)
  BY <1>0, <1>1, <1>2, PrependItems
<1>4. \A r \in ToSet(table') : r.id <= numbered'
  <2>1. \A r \in ToSet(table) : r.id \in Nat /\ r.id <= numbered + 1
    BY <1>0 DEF ListRow
  <2>. QED  BY <1>0, <1>1, <1>3, <2>1
<1>5. OrderedBy(table', NewestFirst)
  <2>. DEFINE n == Len(table)
  <2>1. /\ n \in Nat /\ DOMAIN table = 1..n /\ DOMAIN table' = 1..(n + 1) /\ table'[1] = row
        /\ \A k \in 2..(n + 1) : table'[k] = table[k - 1] /\ k - 1 \in 1..n
    BY <1>0, <1>1, <1>2
  <2>2. SUFFICES ASSUME NEW j \in 1..(n + 1), NEW k \in 1..(n + 1), j < k
                 PROVE  <<table'[j], table'[k]>> \in NewestFirst
    BY <2>1 DEF OrderedBy
  <2>. HIDE DEF n
  <2>3. k \in 2..(n + 1) /\ table'[k] = table[k - 1] /\ k - 1 \in 1..n
    BY <2>1, <2>2
  <2>4. CASE j = 1
    <3>1. table[k - 1] \in ToSet(table)
      BY <2>1, <2>3 DEF ToSet
    <3>2. table[k - 1] \in ListRow /\ row.id > table[k - 1].id
      BY <1>0, <3>1 DEF ListRow
    <3>. QED  BY <1>2, <2>1, <2>3, <2>4, <3>2 DEF NewestFirst
  <2>5. CASE j # 1
    <3>1. table'[j] = table[j - 1] /\ j - 1 \in 1..n /\ j - 1 < k - 1
      BY <2>1, <2>2, <2>5
    <3>. QED  BY <1>0, <2>1, <2>3, <3>1 DEF OrderedBy
  <2>. QED  BY <2>4, <2>5
<1>6. ListsTyped'
  <2>1. numbered' \in Nat
    BY <1>0, <1>1
  <2>2. reader' \in ReaderType
    <3>1. reader' = [reader EXCEPT !.added = TRUE] /\ reader \in ReaderType
      BY <1>0, <1>1
    <3>. QED  BY <3>1 DEF ReaderType
  <2>. QED  BY <1>3, <1>4, <1>5, <2>1, <2>2 DEF ListsTyped
<1>. HIDE DEF row
<1>7. /\ reader'.at = reader.at /\ reader'.q = q /\ reader'.offset = reader.offset /\ reader'.had = reader.had
      /\ reader'.due = reader.due /\ reader'.deleted = reader.deleted /\ reader'.added = TRUE
  BY <1>00, <1>0, <1>1 DEF ReaderType
<1>8. DueAhead'
  <2>1. Wanted(q) \subseteq Wanted(q)' /\ \A id : NewerRows(q, id) \subseteq NewerRows(q, id)'
    BY <1>3 DEF Wanted, NewerRows
  <2>2. IsFiniteSet(Wanted(q)) /\ IsFiniteSet(Wanted(q)')
    <3>1. IsFiniteSet(Wanted(q))
      BY <1>0, MatchingIs
    <3>2. IsFiniteSet(Wanted(q) \cup {row})
      BY <3>1, FS_AddElement
    <3>3. Wanted(q)' \in SUBSET (Wanted(q) \cup {row})
      BY <1>3 DEF Wanted
    <3>. QED  BY <3>1, <3>2, <3>3, FS_Subset
  <2>3. /\ Cardinality(Wanted(q)) \in Nat /\ Cardinality(Wanted(q)') \in Nat
        /\ Cardinality(Wanted(q)) <= Cardinality(Wanted(q)')
    BY <2>1, <2>2, FS_Subset, FS_CardinalityType
  <2>4. ASSUME NEW id
        PROVE  /\ Cardinality(NewerRows(q, id)) \in Nat /\ Cardinality(NewerRows(q, id)') \in Nat
               /\ Cardinality(NewerRows(q, id)) <= Cardinality(NewerRows(q, id)')
    <3>1. NewerRows(q, id) \in SUBSET Wanted(q) /\ NewerRows(q, id)' \in SUBSET Wanted(q)'
      BY DEF NewerRows
    <3>2. IsFiniteSet(NewerRows(q, id)) /\ IsFiniteSet(NewerRows(q, id)')
      BY <2>2, <3>1, FS_Subset
    <3>. QED  BY <2>1, <3>2, FS_Subset, FS_CardinalityType
  <2>5. HadIds' = HadIds /\ reader.offset \in Nat
    BY <1>0, <1>7 DEF HadIds, ReaderType
  <2>6. DueAhead
    BY DEF ListsInv
  <2>7. SUFFICES ASSUME ~reader.deleted, reader.at = "reading"
                 PROVE  /\ reader.offset <= Cardinality(Wanted(q)')
                        /\ \A id \in reader.due : \/ id \in HadIds
                             \/ \E r \in Wanted(q)' : r.id = id /\ Cardinality(NewerRows(q, id)') >= reader.offset
    BY <1>00, <1>7, <2>5, <2>6 DEF DueAhead
  <2>8. /\ reader.offset <= Cardinality(Wanted(q))
        /\ \A id \in reader.due : \/ id \in HadIds
             \/ \E r \in Wanted(q) : r.id = id /\ Cardinality(NewerRows(q, id)) >= reader.offset
    BY <1>00, <2>6, <2>7 DEF DueAhead
  <2>9. reader.offset <= Cardinality(Wanted(q)')
    BY <2>3, <2>5, <2>8
  <2>10. ASSUME NEW id \in reader.due, id \notin HadIds
         PROVE  \E r \in Wanted(q)' : r.id = id /\ Cardinality(NewerRows(q, id)') >= reader.offset
    <3>1. PICK r \in Wanted(q) : r.id = id /\ Cardinality(NewerRows(q, id)) >= reader.offset
      BY <2>8, <2>10
    <3>2. Cardinality(NewerRows(q, id)') >= reader.offset
      BY <2>4, <2>5, <3>1
    <3>. QED  BY <2>1, <3>1, <3>2
  <2>. QED  BY <2>9, <2>10
<1>9. HadBehind'
  BY <1>7 DEF HadBehind
<1>. QED  BY <1>6, <1>8, <1>9 DEF ListsInv

(* A row is deleted: there are fewer newer ones.                           *)
LEMMA DeletedStep ==
  ASSUME ListsInv, NEW gone, RowDeleted(gone)
  PROVE  ListsInv'
<1>. DEFINE S == {r \in ToSet(table) : r.id # gone}
<1>1. PICK q : q = reader.q
  OBVIOUS
<1>2. /\ table \in Seq(ListRow) /\ OrderedBy(table, NewestFirst) /\ numbered \in Nat
      /\ \A r \in ToSet(table) : r.id <= numbered
      /\ reader \in ReaderType /\ ListsTyped
  BY DEF ListsInv, ListsTyped
<1>3. table' = Filtered(table, S) /\ reader' = [reader EXCEPT !.deleted = TRUE] /\ numbered' = numbered
  BY DEF RowDeleted
<1>4. table' \in Seq(ListRow) /\ ToSet(table') = ToSet(table) \cap S /\ OrderedBy(table', NewestFirst)
  <2>. HIDE DEF S
  <2>. QED  BY <1>2, <1>3, FilteredItems, FilteredOrder, Zenon
<1>5. ToSet(table') \subseteq ToSet(table)
  BY <1>4
<1>. HIDE DEF S
<1>6. ListsTyped'
  <2>1. reader' \in ReaderType
    <3>1. reader' = [reader EXCEPT !.deleted = TRUE] /\ reader \in ReaderType
      BY <1>2, <1>3
    <3>. QED  BY <3>1 DEF ReaderType
  <2>. QED  BY <1>2, <1>3, <1>4, <1>5, <2>1 DEF ListsTyped
<1>7. /\ reader'.at = reader.at /\ reader'.q = q /\ reader'.offset = reader.offset /\ reader'.had = reader.had
      /\ reader'.deleted = TRUE /\ reader'.added = reader.added /\ reader.offset \in Nat
  BY <1>1, <1>2, <1>3 DEF ReaderType
<1>8. DueAhead'
  BY <1>7 DEF DueAhead
<1>9. HadBehind'
  <2>1. Wanted(q)' \subseteq Wanted(q) /\ \A id : NewerRows(q, id)' \subseteq NewerRows(q, id)
    BY <1>5 DEF Wanted, NewerRows
  <2>2. IsFiniteSet(Wanted(q))
    BY <1>2, MatchingIs
  <2>3. ASSUME NEW id
        PROVE  /\ Cardinality(NewerRows(q, id)) \in Nat /\ Cardinality(NewerRows(q, id)') \in Nat
               /\ Cardinality(NewerRows(q, id)') <= Cardinality(NewerRows(q, id))
    <3>1. NewerRows(q, id) \in SUBSET Wanted(q)
      BY DEF NewerRows
    <3>2. IsFiniteSet(NewerRows(q, id))
      BY <2>2, <3>1, FS_Subset
    <3>. QED  BY <2>1, <3>2, FS_Subset, FS_CardinalityType
  <2>4. HadBehind
    BY DEF ListsInv
  <2>5. ASSUME ~reader.added, reader.at = "reading", NEW r \in Wanted(q)',
               Cardinality(NewerRows(q, r.id)') >= reader.offset
        PROVE  \A x \in ToSet(reader.had) : r.id < x.id
    <3>1. Cardinality(NewerRows(q, r.id)) >= reader.offset
      BY <1>7, <2>3, <2>5
    <3>. QED  BY <1>1, <2>1, <2>4, <2>5, <3>1 DEF HadBehind
  <2>6. /\ HadBehind' <=> (~reader.added =>
              /\ reader.at = "reading" =>
                   \A r \in Wanted(q)' : Cardinality(NewerRows(q, r.id)') >= reader.offset
                                          => \A x \in ToSet(reader.had) : r.id < x.id
              /\ \A i, j \in DOMAIN reader.had : i # j => reader.had[i].id # reader.had[j].id)
    BY <1>7 DEF HadBehind
  <2>. QED  BY <2>4, <2>5, <2>6 DEF HadBehind
<1>. QED  BY <1>6, <1>8, <1>9 DEF ListsInv

(* A page behind what was had: the items of both.                          *)
LEMMA ConcatItems ==
  ASSUME NEW A, NEW s \in Seq(A), NEW t \in Seq(A)
  PROVE  ToSet(s \o t) = ToSet(s) \cup ToSet(t)
<1>. DEFINE st == s \o t
            a == Len(s)
            b == Len(t)
<1>1. /\ st \in Seq(A) /\ a \in Nat /\ b \in Nat /\ DOMAIN s = 1..a /\ DOMAIN t = 1..b
      /\ DOMAIN st = 1..(a + b)
  OBVIOUS
<1>2. \A k \in 1..a : st[k] = s[k]
  OBVIOUS
<1>3. \A k \in (a + 1)..(a + b) : k - a \in 1..b /\ st[k] = t[k - a]
  OBVIOUS
<1>4. \A k \in 1..b : a + k \in (a + 1)..(a + b) /\ (a + k) - a = k
  BY <1>1
<1>5. \A k \in 1..(a + b) : k \in 1..a \/ k \in (a + 1)..(a + b)
  BY <1>1
<1>6. \A k \in 1..a : k \in 1..(a + b)
  BY <1>1
<1>61. \A k \in (a + 1)..(a + b) : k \in 1..(a + b)
  BY <1>1
<1>. HIDE DEF st, a, b
<1>7. ToSet(st) = ToSet(s) \cup ToSet(t)
  <2>1. ASSUME NEW x \in ToSet(st) PROVE x \in ToSet(s) \cup ToSet(t)
    <3>1. PICK k \in 1..(a + b) : x = st[k]
      BY <1>1, <2>1 DEF ToSet
    <3>. QED  BY <1>1, <1>2, <1>3, <1>5, <3>1 DEF ToSet
  <2>2. \A x \in ToSet(s) : x \in ToSet(st)
    BY <1>1, <1>2, <1>6 DEF ToSet
  <2>3. ASSUME NEW x \in ToSet(t) PROVE x \in ToSet(st)
    <3>1. PICK k \in 1..b : x = t[k]
      BY <1>1, <2>3 DEF ToSet
    <3>2. st[a + k] = x /\ a + k \in 1..(a + b)
      BY <1>3, <1>4, <1>61, <3>1
    <3>. QED  BY <1>1, <3>2 DEF ToSet
  <2>. QED  BY <2>1, <2>2, <2>3
<1>. QED  BY <1>7 DEF st

(* A page is turned: what is had now is not behind the new offset.         *)
LEMMA TurnStep ==
  ASSUME ListsInv, TurnPage
  PROVE  ListsInv'
<1>. DEFINE page == Answers(reader.list, reader.q, reader.limit, reader.offset)
            w == page.rows
            had == reader.had
            offset == reader.offset
<1>1. PICK q : q = reader.q
  OBVIOUS
<1>2. reader \in ReaderType /\ ListsTyped /\ reader.at = "reading" /\ UNCHANGED <<table, numbered>>
  BY DEF ListsInv, ListsTyped, TurnPage
<1>3. had \in Seq(ListRow) /\ offset \in Nat /\ reader.due \subseteq Nat
  BY <1>2 DEF ReaderType
<1>4. PICK list : list = Matching(table, q)
  OBVIOUS
<1>5. PICK m \in Nat : IsPageTo(page, list, offset, m)
  BY <1>1, <1>2, <1>4, AnswersPages DEF ReaderType
<1>6. PICK n \in Nat :
        /\ n = Len(list) /\ IsFiniteSet(Wanted(q)) /\ Cardinality(Wanted(q)) = n
        /\ ToSet(list) = Wanted(q) /\ DOMAIN list = 1..n /\ list \in Seq(ListRow)
        /\ \A j, k \in 1..n : j < k => list[j].id > list[k].id
        /\ \A k \in 1..n : Cardinality(NewerRows(q, list[k].id)) = k - 1
  BY <1>2, <1>4, MatchingIs
<1>61. \A k \in 1..n : list[k] \in ListRow
  BY <1>6
<1>62. \A k \in 1..n : list[k].id \in Nat
  BY <1>61 DEF ListRow
<1>63. \A k \in 1..n : list[k] \in Wanted(q)
  BY <1>6 DEF ToSet
<1>7. /\ offset <= m /\ w \in Seq(ListRow) /\ Len(w) = m - offset /\ (m <= n \/ m = offset)
      /\ \A k \in 1..(m - offset) : w[k] = list[offset + k]
      /\ ~page.has_more => m >= n
  BY <1>5, <1>6 DEF IsPageTo
<1>8. \A k \in 1..(m - offset) : offset + k \in 1..n
  BY <1>3, <1>7
<1>9. \A k \in 1..n : k - offset \in 1..(m - offset) \/ k <= offset \/ k > m
  BY <1>3
<1>10. reader' = [reader EXCEPT !.at = IF page.has_more THEN "reading" ELSE "done",
                                !.offset = @ + Len(w), !.had = @ \o w]
  BY DEF TurnPage
<1>. HIDE DEF page
<1>11. /\ reader'.at = IF page.has_more THEN "reading" ELSE "done"
       /\ reader'.q = q /\ reader'.offset = m /\ reader'.had = had \o w
       /\ reader'.due = reader.due /\ reader'.deleted = reader.deleted /\ reader'.added = reader.added
       /\ reader' \in ReaderType
  <2>1. offset + Len(w) = m /\ had \o w \in Seq(ListRow)
    BY <1>3, <1>7
  <2>2. (IF page.has_more THEN "reading" ELSE "done") \in {"reading", "done"}
    OBVIOUS
  <2>. HIDE DEF w, had, offset
  <2>3. reader' = [reader EXCEPT !.at = IF page.has_more THEN "reading" ELSE "done", !.offset = m, !.had = had \o w]
    BY <1>10, <2>1 DEF had, offset
  <2>. QED  BY <1>1, <1>2, <2>1, <2>2, <2>3 DEF ReaderType
<1>12. ListsTyped'
  BY <1>2, <1>11 DEF ListsTyped
<1>13. Wanted(q)' = Wanted(q) /\ \A id : NewerRows(q, id)' = NewerRows(q, id)
  BY <1>2 DEF Wanted, NewerRows
<1>14. ToSet(reader'.had) = ToSet(had) \cup ToSet(w)
  <2>. HIDE DEF w, had
  <2>1. ToSet(had \o w) = ToSet(had) \cup ToSet(w)
    BY <1>3, <1>7, ConcatItems
  <2>. QED  BY <1>11, <2>1
<1>15. ToSet(w) = {list[k] : k \in (offset + 1)..m}
  <2>1. \A k \in 1..(m - offset) : offset + k \in (offset + 1)..m
    BY <1>3
  <2>2. \A k \in (offset + 1)..m : k - offset \in 1..(m - offset) /\ offset + (k - offset) = k
    BY <1>3
  <2>3. DOMAIN w = 1..(m - offset)
    BY <1>7
  <2>. HIDE DEF w, offset
  <2>4. ToSet(w) = {w[k] : k \in 1..(m - offset)}
    BY <2>3 DEF ToSet
  <2>. QED  BY <1>7, <2>1, <2>2, <2>4
<1>. HIDE DEF w, had, offset
<1>151. \A k \in DOMAIN had : had[k] \in ToSet(had) /\ had[k] \in ListRow
  BY <1>3 DEF ToSet
<1>152. \A k \in DOMAIN had : had[k].id \in Nat
  BY <1>151 DEF ListRow
<1>16. \A r \in Wanted(q) : \E k \in 1..n : r = list[k] /\ Cardinality(NewerRows(q, r.id)) = k - 1
  BY <1>6 DEF ToSet
<1>17. DueAhead'
  <2>1. DueAhead /\ HadIds' = HadIds \cup {r.id : r \in ToSet(w)}
    BY <1>14 DEF ListsInv, HadIds, had
  <2>2. SUFFICES ASSUME ~reader.deleted
                 PROVE  /\ reader'.at = "reading" =>
                             /\ m <= n
                             /\ \A id \in reader.due : \/ id \in HadIds'
                                  \/ \E r \in Wanted(q) : r.id = id /\ Cardinality(NewerRows(q, id)) >= m
                        /\ reader'.at = "done" => reader.due \subseteq HadIds'
    BY <1>6, <1>11, <1>13 DEF DueAhead
  <2>3. /\ offset <= n
        /\ \A id \in reader.due : \/ id \in HadIds
             \/ \E r \in Wanted(q) : r.id = id /\ Cardinality(NewerRows(q, id)) >= offset
    BY <1>1, <1>2, <1>6, <2>1, <2>2 DEF DueAhead, offset
  <2>4. ASSUME NEW id \in reader.due, id \notin HadIds'
        PROVE  m < n /\ \E r \in Wanted(q) : r.id = id /\ Cardinality(NewerRows(q, id)) >= m
    <3>1. PICK r \in Wanted(q) : r.id = id /\ Cardinality(NewerRows(q, id)) >= offset
      BY <2>1, <2>3, <2>4
    <3>2. PICK k \in 1..n : r = list[k] /\ Cardinality(NewerRows(q, r.id)) = k - 1
      BY <1>16
    <3>3. k \notin (offset + 1)..m
      BY <1>15, <2>1, <2>4, <3>1, <3>2
    <3>4. k > m /\ k - 1 >= m
      BY <1>3, <3>1, <3>2, <3>3
    <3>. QED  BY <1>6, <3>1, <3>2, <3>4
  <2>5. m <= n
    BY <1>7, <2>3
  <2>6. reader'.at = "done" => m >= n
    BY <1>7, <1>11
  <2>. QED  BY <2>4, <2>5, <2>6
<1>18. HadBehind'
  <2>1. HadBehind
    BY DEF ListsInv
  <2>2. SUFFICES ASSUME ~reader.added
                 PROVE  /\ \A r \in Wanted(q) : Cardinality(NewerRows(q, r.id)) >= m
                             => \A x \in ToSet(had) \cup ToSet(w) : r.id < x.id
                        /\ \A i, j \in DOMAIN (had \o w) : i # j => (had \o w)[i].id # (had \o w)[j].id
    BY <1>11, <1>13, <1>14 DEF HadBehind
  <2>3. /\ \A r \in Wanted(q) : Cardinality(NewerRows(q, r.id)) >= offset => \A x \in ToSet(had) : r.id < x.id
        /\ \A i, j \in DOMAIN had : i # j => had[i].id # had[j].id
    BY <1>1, <1>2, <2>1, <2>2 DEF HadBehind, had, offset
  <2>4. ASSUME NEW r \in Wanted(q), Cardinality(NewerRows(q, r.id)) >= m, NEW x \in ToSet(had) \cup ToSet(w)
        PROVE  r.id < x.id
    <3>1. PICK k \in 1..n : r = list[k] /\ Cardinality(NewerRows(q, r.id)) = k - 1
      BY <1>16
    <3>2. k > m /\ Cardinality(NewerRows(q, r.id)) >= offset
      BY <1>3, <1>7, <2>4, <3>1
    <3>3. CASE x \in ToSet(had)
      BY <2>3, <3>2, <3>3
    <3>4. CASE x \in ToSet(w)
      <4>1. PICK j \in (offset + 1)..m : x = list[j]
        BY <1>15, <3>4
      <4>2. j \in 1..n /\ j < k
        BY <1>3, <3>1, <3>2, <4>1
      <4>3. list[j].id > list[k].id /\ list[j].id \in Nat /\ list[k].id \in Nat
        BY <1>6, <1>62, <3>1, <4>2
      <4>. QED  BY <3>1, <4>1, <4>3
    <3>. QED  BY <3>3, <3>4
  <2>5. ASSUME NEW i \in 1..(m - offset), NEW j \in 1..(m - offset), i # j PROVE w[i].id # w[j].id
    <3>1. /\ offset + i \in 1..n /\ offset + j \in 1..n /\ offset + i # offset + j
          /\ w[i] = list[offset + i] /\ w[j] = list[offset + j]
      BY <1>3, <1>7, <1>8, <2>5
    <3>2. list[offset + i].id \in Nat /\ list[offset + j].id \in Nat
      BY <1>62, <3>1
    <3>3. offset + i < offset + j \/ offset + j < offset + i
      BY <3>1
    <3>. QED  BY <1>6, <3>1, <3>2, <3>3
  <2>7. DOMAIN had = 1..Len(had) /\ Len(had) \in Nat
    BY <1>3
  <2>6. ASSUME NEW i \in 1..Len(had), NEW j \in 1..(m - offset) PROVE had[i].id # w[j].id
    <3>1. offset + j \in 1..n /\ w[j] = list[offset + j]
      BY <1>7, <1>8
    <3>2. w[j] \in Wanted(q) /\ Cardinality(NewerRows(q, w[j].id)) = offset + j - 1
      <4>1. PICK k \in 1..n : k = offset + j
        BY <3>1
      <4>2. list[k] \in Wanted(q) /\ Cardinality(NewerRows(q, list[k].id)) = k - 1
        BY <1>6, <1>63
      <4>3. w[j] = list[k] /\ k - 1 = offset + j - 1
        BY <1>3, <3>1, <4>1
      <4>. QED  BY <4>2, <4>3, Zenon
    <3>3. Cardinality(NewerRows(q, w[j].id)) >= offset
      BY <1>3, <3>2
    <3>4. had[i] \in ToSet(had) /\ had[i].id \in Nat /\ w[j].id \in Nat
      BY <1>62, <1>151, <1>152, <2>7, <3>1
    <3>. QED  BY <2>3, <3>2, <3>3, <3>4
  <2>71. Len(w) = m - offset
    BY <1>7
  <2>8. /\ DOMAIN (had \o w) = 1..(Len(had) + Len(w))
        /\ \A k \in 1..Len(had) : (had \o w)[k] = had[k]
        /\ \A k \in (Len(had) + 1)..(Len(had) + Len(w)) :
             k - Len(had) \in 1..Len(w) /\ (had \o w)[k] = w[k - Len(had)]
    <3>1. had \in Seq(ListRow) /\ w \in Seq(ListRow)
      BY <1>3, <1>7
    <3>2. DOMAIN (had \o w) = 1..(Len(had) + Len(w))
      BY <3>1
    <3>3. \A k \in 1..Len(had) : (had \o w)[k] = had[k]
      BY <3>1
    <3>4. \A k \in (Len(had) + 1)..(Len(had) + Len(w)) :
            k - Len(had) \in 1..Len(w) /\ (had \o w)[k] = w[k - Len(had)]
      BY <3>1
    <3>. QED  BY <3>2, <3>3, <3>4
  <2>9. ASSUME NEW i \in DOMAIN (had \o w), NEW j \in DOMAIN (had \o w), i < j
        PROVE  (had \o w)[i].id # (had \o w)[j].id
    <3>. DEFINE old == Len(had)
                both == had \o w
                end == old + Len(w)
    <3>1. /\ old \in Nat /\ end \in Int /\ i \in 1..end /\ j \in 1..end
          /\ \A k \in 1..old : both[k] = had[k]
          /\ \A k \in (old + 1)..end : k - old \in 1..(m - offset) /\ both[k] = w[k - old]
      BY <1>3, <1>7, <2>7, <2>71, <2>8, <2>9
    <3>. HIDE DEF old, both, end
    <3>2. CASE j \in 1..old
      <4>1. i \in 1..old /\ i # j /\ both[i] = had[i] /\ both[j] = had[j] /\ DOMAIN had = 1..old
        BY <2>7, <2>9, <3>1, <3>2 DEF old
      <4>2. had[i].id # had[j].id
        <5>1. i \in DOMAIN had /\ j \in DOMAIN had
          BY <3>2, <4>1
        <5>. QED  BY <2>3, <4>1, <5>1, Zenon
      <4>. QED  BY <4>1, <4>2 DEF both
    <3>3. CASE i \in 1..old /\ j \in (old + 1)..end
      <4>1. both[i] = had[i] /\ both[j] = w[j - old] /\ had[i].id # w[j - old].id
        BY <2>6, <3>1, <3>3 DEF old
      <4>. QED  BY <4>1 DEF both
    <3>4. CASE i \in (old + 1)..end /\ j \in (old + 1)..end
      <4>1. i - old # j - old
        BY <2>9, <3>1, <3>4
      <4>2. both[i] = w[i - old] /\ both[j] = w[j - old] /\ w[i - old].id # w[j - old].id
        BY <2>5, <3>1, <3>4, <4>1
      <4>. QED  BY <4>2 DEF both
    <3>5. j \in 1..old \/ (i \in 1..old /\ j \in (old + 1)..end) \/ (i \in (old + 1)..end /\ j \in (old + 1)..end)
      BY <2>9, <3>1
    <3>. QED  BY <3>2, <3>3, <3>4, <3>5 DEF both
  <2>10. \A i, j \in DOMAIN (had \o w) : i # j => i < j \/ j < i
    <3>1. Len(had) + Len(w) \in Int
      BY <1>3, <1>7, <2>7, <2>71
    <3>. QED  BY <2>8, <3>1
  <2>. QED  BY <2>4, <2>9, <2>10
<1>. QED  BY <1>12, <1>17, <1>18 DEF ListsInv

LEMMA ListsInductive == ListsInv /\ [ListsNext]_listVars => ListsInv'
<1>. SUFFICES ASSUME ListsInv, [ListsNext]_listVars PROVE ListsInv'
  OBVIOUS
<1>1. CASE ListsNext
  BY <1>1, AddedStep, DeletedStep, ReadingStep, TurnStep, Zenon DEF ListsNext
<1>2. CASE UNCHANGED listVars
  BY <1>2 DEF listVars, ListsInv, ListsTyped, DueAhead, HadBehind, HadIds, Wanted, NewerRows
<1>. QED  BY <1>1, <1>2

LEMMA ListsAsMeant == ListsInv => ListReadComplete
BY DEF ListsInv, DueAhead, HadBehind, HadIds, ListReadComplete
-----------------------------------------------------------------------------
(* ReferenceData.  The task knows whether a category of this round failed. *)
RoundKnown ==
  /\ DOMAIN refresh = {"at", "cat", "page", "fetched", "failed"}
  /\ refresh.failed \in BOOLEAN
  /\ refresh.failed <=> missed # {}
  /\ refresh.at = "sleep" => wait = IF refresh.failed THEN "hour" ELSE "day"

LEMMA CategoryFollows ==
  ASSUME RoundKnown, NEW failed \in BOOLEAN, NextCategory(failed), failed <=> missed' # {}
  PROVE  RoundKnown'
<1>1. CASE refresh.cat < Len(CategoryOrder)
  <2>1. refresh' = [Fetching(refresh.cat + 1) EXCEPT !.failed = failed]
    BY <1>1 DEF NextCategory
  <2>2. DOMAIN refresh' = {"at", "cat", "page", "fetched", "failed"} /\ refresh'.failed = failed
        /\ refresh'.at = "fetch"
    BY <2>1 DEF Fetching
  <2>. QED  BY <2>2 DEF RoundKnown
<1>2. CASE ~(refresh.cat < Len(CategoryOrder))
  <2>1. /\ refresh' = [refresh EXCEPT !.at = "sleep", !.fetched = <<>>, !.failed = failed]
        /\ wait' = IF failed THEN "hour" ELSE "day"
    BY <1>2 DEF NextCategory
  <2>2. DOMAIN refresh' = {"at", "cat", "page", "fetched", "failed"} /\ refresh'.failed = failed
    BY <2>1 DEF RoundKnown
  <2>. QED  BY <2>1, <2>2 DEF RoundKnown
<1>. QED  BY <1>1, <1>2

LEMMA RoundStep == RoundKnown /\ [ReferenceNext]_refVars => RoundKnown'
<1>. SUFFICES ASSUME RoundKnown, [ReferenceNext]_refVars PROVE RoundKnown'
  OBVIOUS
<1>1. CASE fetch_category
  <2>. DEFINE all == refresh.fetched \o PageOf(wiki[ThisCategory], refresh.page)
  <2>1. /\ \/ refresh' = [refresh EXCEPT !.at = "store", !.fetched = all]
           \/ refresh' = [refresh EXCEPT !.page = @ + 1, !.fetched = all]
        /\ refresh.at = "fetch" /\ UNCHANGED missed
    BY <1>1 DEF fetch_category
  <2>. HIDE DEF all
  <2>2. /\ DOMAIN refresh' = DOMAIN refresh /\ refresh'.failed = refresh.failed
        /\ refresh'.at \in {"store", "fetch"}
    BY <2>1 DEF RoundKnown
  <2>. QED  BY <2>1, <2>2 DEF RoundKnown
<1>2. CASE FetchFails
  <2>1. NextCategory(TRUE) /\ missed' = missed \cup {ThisCategory}
    BY <1>2 DEF FetchFails
  <2>2. missed' # {}
    BY <2>1
  <2>. QED  BY <2>1, <2>2, CategoryFollows
<1>3. CASE Store
  <2>1. PICK ok \in BOOLEAN :
          /\ missed' = IF ok THEN missed ELSE missed \cup {ThisCategory}
          /\ NextCategory(refresh.failed \/ ~ok)
    BY <1>3 DEF Store
  <2>2. (refresh.failed \/ ~ok) <=> missed' # {}
    BY <2>1 DEF RoundKnown
  <2>3. (refresh.failed \/ ~ok) \in BOOLEAN
    OBVIOUS
  <2>. QED  BY <2>1, <2>2, <2>3, CategoryFollows
<1>4. CASE RefreshBegins
  <2>1. refresh' = Fetching(1) /\ missed' = {}
    BY <1>4 DEF RefreshBegins
  <2>2. DOMAIN refresh' = {"at", "cat", "page", "fetched", "failed"} /\ refresh'.failed = FALSE
        /\ refresh'.at = "fetch"
    BY <2>1 DEF Fetching
  <2>. QED  BY <2>1, <2>2 DEF RoundKnown
<1>5. CASE UNCHANGED <<refresh, wait, missed>>
  BY <1>5 DEF RoundKnown
<1>. QED  BY <1>1, <1>2, <1>3, <1>4, <1>5 DEF ReferenceNext, WikiEdited, refVars

LEMMA RoundBegins == ReferenceInit => RoundKnown
<1>. SUFFICES ASSUME ReferenceInit PROVE RoundKnown
  OBVIOUS
<1>1. refresh = Fetching(1) /\ missed = {}
  BY DEF ReferenceInit
<1>2. DOMAIN refresh = {"at", "cat", "page", "fetched", "failed"} /\ refresh.failed = FALSE
      /\ refresh.at = "fetch"
  BY <1>1 DEF Fetching
<1>. QED  BY <1>1, <1>2 DEF RoundKnown

LEMMA RoundAsMeant == RoundKnown => RetriedSoon
BY DEF RoundKnown, RetriedSoon
-----------------------------------------------------------------------------
(* EventStats.  The events of a handle, in the order of their times.       *)
HistoryRow == [t : Nat, kind : HistoryKinds]

HistoryOK ==
  /\ history \in Seq(HistoryRow)
  /\ \A i, j \in 1..Len(history) : i <= j => history[i].t <= history[j].t

LEMMA HistoryRows ==
  ASSUME HistoryOK
  PROVE  /\ Len(history) \in Nat /\ DOMAIN history = 1..Len(history)
         /\ \A k \in 1..Len(history) : history[k] \in HistoryRow
         /\ \A k \in 1..Len(history) : At(k) \in Nat
         /\ \A i, j \in 1..Len(history) : i <= j => At(i) <= At(j)
<1>1. Len(history) \in Nat /\ DOMAIN history = 1..Len(history)
  BY DEF HistoryOK
<1>2. \A k \in 1..Len(history) : history[k] \in HistoryRow
  BY DEF HistoryOK
<1>3. \A k \in 1..Len(history) : At(k) \in Nat
  BY <1>2 DEF At, HistoryRow
<1>. QED  BY <1>1, <1>2, <1>3 DEF HistoryOK, At

LEMMA HistoryBegins == HistoryInit => HistoryOK
BY DEF HistoryInit, HistoryOK

LEMMA HistoryStep == HistoryOK /\ [HistoryNext]_history => HistoryOK'
<1>. SUFFICES ASSUME HistoryOK, [HistoryNext]_history PROVE HistoryOK'
  OBVIOUS
<1>1. CASE UNCHANGED history
  BY <1>1 DEF HistoryOK
<1>2. ASSUME NEW kind \in HistoryKinds, NEW gap \in HistoryGaps, Recorded(kind, gap)
      PROVE  HistoryOK'
  <2>. DEFINE n == Len(history)
              x == gap + (IF history = <<>> THEN 0 ELSE Last(history).t)
              e == [t |-> x, kind |-> kind]
  <2>1. history' = Append(history, e)
    BY <1>2 DEF Recorded
  <2>2. history \in Seq(HistoryRow) /\ n \in Nat /\ gap \in Nat
    BY EventStatsAssumption DEF HistoryOK
  <2>3. \A i \in 1..n : history[i].t \in Nat
    BY HistoryRows DEF At
  <2>4. x \in Nat /\ \A i \in 1..n : history[i].t <= x
    <3>1. CASE history = <<>>
      BY <2>2, <3>1
    <3>2. CASE history # <<>>
      <4>1. n \in 1..n /\ Last(history) = history[n]
        BY <2>2, <3>2 DEF Last
      <4>2. x = gap + history[n].t
        BY <3>2, <4>1
      <4>. HIDE DEF x
      <4>3. \A i \in 1..n : history[i].t <= history[n].t
        BY <2>2, <4>1 DEF HistoryOK
      <4>. QED  BY <2>2, <2>3, <4>1, <4>2, <4>3
    <3>. QED  BY <3>1, <3>2
  <2>. HIDE DEF x
  <2>5. e \in HistoryRow /\ e.t = x
    BY <2>4 DEF HistoryRow
  <2>. HIDE DEF e
  <2>6. /\ history' \in Seq(HistoryRow) /\ Len(history') = n + 1 /\ history'[n + 1] = e
        /\ \A i \in 1..n : history'[i] = history[i]
    BY <2>1, <2>2, <2>5
  <2>. HIDE DEF n
  <2>7. /\ \A i \in 1..n : history'[i].t = history[i].t
        /\ history'[n + 1].t = x
    BY <2>5, <2>6
  <2>8. ASSUME NEW i \in 1..(n + 1), NEW j \in 1..(n + 1), i <= j
        PROVE  history'[i].t <= history'[j].t
    <3>1. CASE j \in 1..n
      <4>1. i \in 1..n /\ history[i].t <= history[j].t
        BY <2>2, <2>8, <3>1 DEF HistoryOK, n
      <4>. QED  BY <2>7, <3>1, <4>1
    <3>2. CASE j = n + 1 /\ i \in 1..n
      BY <2>4, <2>7, <3>2
    <3>3. CASE j = n + 1 /\ i = n + 1
      BY <2>4, <2>7, <3>3
    <3>. QED  BY <2>2, <2>8, <3>1, <3>2, <3>3
  <2>. QED  BY <2>6, <2>8 DEF HistoryOK
<1>. QED  BY <1>1, <1>2 DEF HistoryNext

(* The boundaries up to an event number its session: a later row of the    *)
(* same instant is none, the gap before it being nothing.                  *)
Breaks(i) == {j \in 1..i : Boundary(j)}

LEMMA SessionIdIs ==
  ASSUME HistoryOK, NEW i \in 1..Len(history)
  PROVE  SessionId(i) = Cardinality(Breaks(i))
<1>. DEFINE n == Len(history)
<1>1. n \in Nat /\ DOMAIN history = 1..n
  BY DEF HistoryOK
<1>3. /\ \A k \in 1..n : At(k) \in Nat
      /\ \A j, k \in 1..n : j <= k => At(j) <= At(k)
  BY HistoryRows
<1>4. IdleGap \in Nat
  BY EventStatsAssumption
<1>5. ASSUME NEW j \in 1..n, At(j) <= At(i), Boundary(j), j > i PROVE FALSE
  <2>1. j - 1 \in 1..n /\ i <= j - 1 /\ j # 1
    BY <1>1, <1>5
  <2>2. At(j) - At(j - 1) > IdleGap
    BY <1>5, <2>1 DEF Boundary
  <2>3. At(i) <= At(j - 1) /\ At(j - 1) \in Nat /\ At(j) \in Nat /\ At(i) \in Nat
    BY <1>3, <2>1
  <2>. QED  BY <1>4, <1>5, <2>2, <2>3
<1>6. \A j \in 1..n : At(j) <= At(i) /\ Boundary(j) => j \in Breaks(i)
  BY <1>1, <1>5 DEF Breaks
<1>7. \A j \in Breaks(i) : j \in 1..n /\ At(j) <= At(i) /\ Boundary(j)
  BY <1>1, <1>3 DEF Breaks
<1>8. {j \in DOMAIN history : At(j) =< At(i) /\ Boundary(j)} = Breaks(i)
  BY <1>1, <1>6, <1>7
<1>. QED  BY <1>8 DEF SessionId

(* Two events have one number iff no boundary is between them.             *)
LEMMA SameSession ==
  ASSUME HistoryOK, NEW i \in 1..Len(history), NEW k \in 1..Len(history), i <= k
  PROVE  SessionId(i) = SessionId(k) <=> \A j \in (i + 1)..k : ~Boundary(j)
<1>1. IsFiniteSet(Breaks(k)) /\ Breaks(i) \in SUBSET Breaks(k)
  <2>1. IsFiniteSet(1..k)
    BY FS_Interval
  <2>2. Breaks(k) \in SUBSET (1..k)
    BY DEF Breaks
  <2>. QED  BY <2>1, <2>2, FS_Subset DEF Breaks
<1>2. Cardinality(Breaks(i)) = Cardinality(Breaks(k)) <=> Breaks(i) = Breaks(k)
  BY <1>1, FS_Subset
<1>3. Breaks(i) = Breaks(k) <=> \A j \in (i + 1)..k : ~Boundary(j)
  <2>1. \A j \in (i + 1)..k : j \in 1..k /\ j \notin 1..i
    OBVIOUS
  <2>2. \A j \in 1..k : j \in 1..i \/ j \in (i + 1)..k
    OBVIOUS
  <2>3. ASSUME Breaks(i) = Breaks(k), NEW j \in (i + 1)..k PROVE ~Boundary(j)
    BY <2>1, <2>3 DEF Breaks
  <2>4. ASSUME \A j \in (i + 1)..k : ~Boundary(j) PROVE Breaks(i) = Breaks(k)
    BY <1>1, <2>2, <2>4 DEF Breaks
  <2>. QED  BY <2>3, <2>4
<1>. QED  BY <1>2, <1>3, SessionIdIs

(* A stretch without an idle gap, between idle gaps or the ends.           *)
IsStretch(i, j) ==
  /\ \A k \in i..(j - 1) : At(k + 1) - At(k) =< IdleGap
  /\ i = 1 \/ At(i) - At(i - 1) > IdleGap
  /\ j = Len(history) \/ At(j + 1) - At(j) > IdleGap

LEMMA StretchIs ==
  ASSUME HistoryOK, NEW a \in 1..Len(history), NEW b \in 1..Len(history), a <= b
  PROVE  IsStretch(a, b) <=> /\ Boundary(a) /\ (b = Len(history) \/ Boundary(b + 1))
                             /\ \A j \in (a + 1)..b : ~Boundary(j)
<1>. DEFINE n == Len(history)
<1>1. n \in Nat /\ IdleGap \in Nat
  BY EventStatsAssumption DEF HistoryOK
<1>3. /\ \A k \in 1..n : At(k) \in Nat
      /\ \A j, k \in 1..n : j <= k => At(j) <= At(k)
  BY HistoryRows
<1>4. (b = Len(history) \/ At(b + 1) - At(b) > IdleGap) <=> (b = Len(history) \/ Boundary(b + 1))
  <2>1. b + 1 # 1 /\ (b + 1) - 1 = b
    OBVIOUS
  <2>. QED  BY <2>1 DEF Boundary
<1>5. (\A k \in a..(b - 1) : At(k + 1) - At(k) =< IdleGap) <=> \A j \in (a + 1)..b : ~Boundary(j)
  <2>1. ASSUME \A k \in a..(b - 1) : At(k + 1) - At(k) =< IdleGap, NEW j \in (a + 1)..b PROVE ~Boundary(j)
    <3>1. j - 1 \in a..(b - 1) /\ (j - 1) + 1 = j /\ j # 1 /\ j \in 1..n /\ j - 1 \in 1..n
      BY <1>1
    <3>2. At(j) - At(j - 1) =< IdleGap
      <4>1. PICK k \in a..(b - 1) : k = j - 1
        BY <3>1
      <4>2. k + 1 = j
        BY <3>1, <4>1
      <4>. QED  BY <2>1, <4>1, <4>2
    <3>3. At(j) \in Nat /\ At(j - 1) \in Nat
      BY <1>3, <3>1
    <3>. QED  BY <1>1, <3>1, <3>2, <3>3 DEF Boundary
  <2>2. ASSUME \A j \in (a + 1)..b : ~Boundary(j), NEW k \in a..(b - 1) PROVE At(k + 1) - At(k) =< IdleGap
    <3>1. k + 1 \in (a + 1)..b /\ (k + 1) - 1 = k /\ k + 1 # 1 /\ k \in 1..n /\ k + 1 \in 1..n
      BY <1>1
    <3>2. ~(At(k + 1) - At(k) > IdleGap)
      BY <2>2, <3>1 DEF Boundary
    <3>3. At(k + 1) \in Nat /\ At(k) \in Nat
      BY <1>3, <3>1
    <3>. QED  BY <1>1, <3>2, <3>3
  <2>. QED  BY <2>1, <2>2
<1>. QED  BY <1>4, <1>5 DEF IsStretch, Boundary

(* The events of one number are a stretch, and the other way round.        *)
LEMMA StretchMembers ==
  ASSUME HistoryOK, NEW a \in 1..Len(history), NEW b \in 1..Len(history), a <= b, IsStretch(a, b)
  PROVE  {k \in 1..Len(history) : SessionId(k) = SessionId(a)} = a..b
<1>. DEFINE n == Len(history)
<1>1. n \in Nat
  BY DEF HistoryOK
<1>2. /\ Boundary(a) /\ (b = n \/ Boundary(b + 1))
      /\ \A j \in (a + 1)..b : ~Boundary(j)
  BY StretchIs
<1>3. ASSUME NEW k \in 1..n, k < a PROVE SessionId(k) # SessionId(a)
  <2>1. a \in (k + 1)..a
    BY <1>3
  <2>. QED  BY <1>2, <1>3, <2>1, SameSession
<1>4. ASSUME NEW k \in 1..n, k > b PROVE SessionId(k) # SessionId(a)
  <2>1. b + 1 \in (a + 1)..k /\ b # n /\ a <= k
    BY <1>1, <1>4
  <2>2. Boundary(b + 1)
    BY <1>2, <2>1
  <2>3. ~(\A j \in (a + 1)..k : ~Boundary(j))
    BY <2>1, <2>2
  <2>. QED  BY <2>1, <2>3, SameSession
<1>5. ASSUME NEW k \in a..b PROVE k \in 1..n /\ SessionId(k) = SessionId(a)
  <2>1. k \in 1..n /\ a <= k /\ \A j \in (a + 1)..k : j \in (a + 1)..b
    BY <1>1
  <2>. QED  BY <1>2, <2>1, SameSession
<1>6. \A k \in 1..n : k < a \/ k > b \/ k \in a..b
  BY <1>1
<1>. QED  BY <1>3, <1>4, <1>5, <1>6

LEMMA StretchAround ==
  ASSUME HistoryOK, NEW i \in 1..Len(history)
  PROVE  \E a, b \in 1..Len(history) : a <= i /\ i <= b /\ IsStretch(a, b)
<1>. DEFINE n == Len(history)
            S == Breaks(i)
            T == {j \in i..n : j = n \/ Boundary(j + 1)}
<1>1. n \in Nat
  BY DEF HistoryOK
<1>2. S \subseteq 0..n /\ S # {} /\ T \subseteq 0..n /\ T # {}
  <2>1. 1 \in S /\ n \in T
    BY <1>1 DEF Breaks, Boundary
  <2>2. S \subseteq 0..n /\ T \subseteq 0..n
    BY <1>1 DEF Breaks
  <2>. QED  BY <2>1, <2>2
<1>. DEFINE a == Max(S)
            b == Min(T)
<1>3. /\ a \in S /\ \A x \in S : x <= a
      /\ b \in T /\ \A x \in T : b <= x
  BY <1>1, <1>2, MinMaxIs
<1>4. a \in 1..n /\ b \in 1..n /\ a <= i /\ i <= b /\ a <= b /\ Boundary(a) /\ (b = n \/ Boundary(b + 1))
  BY <1>1, <1>3 DEF Breaks
<1>5. ASSUME NEW j \in (a + 1)..b PROVE ~Boundary(j)
  <2>1. CASE j <= i
    <3>1. j \in 1..i /\ j > a
      BY <1>4, <2>1
    <3>2. j \notin S
      BY <1>3, <1>4, <3>1
    <3>. QED  BY <3>1, <3>2 DEF Breaks
  <2>2. CASE j > i
    <3>1. j - 1 \in i..n /\ j - 1 < b /\ (j - 1) + 1 = j
      BY <1>1, <1>4, <2>2
    <3>2. j - 1 \notin T
      BY <1>3, <1>4, <3>1
    <3>. QED  BY <3>1, <3>2
  <2>. QED  BY <1>4, <2>1, <2>2
<1>. HIDE DEF a, b
<1>6. IsStretch(a, b)
  BY <1>4, <1>5, StretchIs
<1>. QED  BY <1>4, <1>6

(* The rows of sessions_for_handle, by the events of a session.            *)
SessionOf(members) ==
  [start_at |-> Min({At(i) : i \in members}), end_at |-> Max({At(i) : i \in members}),
   event_count |-> Cardinality(members)]

LEMMA SessionOfStretch ==
  ASSUME HistoryOK, NEW a \in 1..Len(history), NEW b \in 1..Len(history), a <= b
  PROVE  SessionOf(a..b) = [start_at |-> At(a), end_at |-> At(b), event_count |-> b - a + 1]
<1>. DEFINE n == Len(history)
            S == {At(i) : i \in a..b}
<1>1. n \in Nat
  BY DEF HistoryOK
<1>3. /\ \A k \in 1..n : At(k) \in Nat
      /\ \A j, k \in 1..n : j <= k => At(j) <= At(k)
  BY HistoryRows
<1>4. \A k \in a..b : k \in 1..n /\ At(a) <= At(k) /\ At(k) <= At(b)
  BY <1>1, <1>3
<1>5. At(a) \in S /\ At(b) \in S /\ \A x \in S : x \in Nat /\ At(a) <= x /\ x <= At(b)
  BY <1>3, <1>4
<1>6. S \subseteq 0..At(b) /\ S # {}
  BY <1>3, <1>5
<1>7. /\ Min(S) \in S /\ \A x \in S : Min(S) <= x
      /\ Max(S) \in S /\ \A x \in S : x <= Max(S)
  BY <1>3, <1>6, MinMaxIs
<1>. HIDE DEF S
<1>8. Min(S) = At(a) /\ Max(S) = At(b)
  BY <1>3, <1>5, <1>7
<1>9. Cardinality(a..b) = b - a + 1
  BY FS_Interval
<1>. QED  BY <1>8, <1>9 DEF SessionOf, S

(* sessions_for_handle: the windows of the query are the stretches.        *)
LEMMA SessionsPartition == HistoryOK => SessionsAsMeant
<1>. SUFFICES ASSUME HistoryOK PROVE SessionsAsMeant
  OBVIOUS
<1>. DEFINE n == Len(history)
            Stretches == {p \in (1..n) \X (1..n) : p[1] =< p[2] /\ IsStretch(p[1], p[2])}
            Row(p) == [start_at |-> At(p[1]), end_at |-> At(p[2]), event_count |-> p[2] - p[1] + 1]
            Members(id) == {k \in 1..n : SessionId(k) = id}
<1>1. n \in Nat /\ DOMAIN history = 1..n
  BY DEF HistoryOK
<1>2. ASSUME NEW p \in Stretches
      PROVE  p[1] \in 1..n /\ SessionOf(Members(SessionId(p[1]))) = Row(p)
  <2>1. p[1] \in 1..n /\ p[2] \in 1..n /\ p[1] <= p[2] /\ IsStretch(p[1], p[2])
    BY <1>2
  <2>2. Members(SessionId(p[1])) = (p[1])..(p[2])
    BY <2>1, StretchMembers
  <2>3. SessionOf((p[1])..(p[2])) = Row(p)
    BY <2>1, SessionOfStretch
  <2>. QED  BY <2>1, <2>2, <2>3
<1>3. ASSUME NEW i \in 1..n
      PROVE  \E p \in Stretches : SessionId(p[1]) = SessionId(i)
  <2>1. PICK a \in 1..n, b \in 1..n : a <= i /\ i <= b /\ IsStretch(a, b)
    BY StretchAround
  <2>2. a <= b /\ i \in a..b
    BY <1>1, <2>1
  <2>3. Members(SessionId(a)) = a..b
    BY <2>1, <2>2, StretchMembers
  <2>4. SessionId(i) = SessionId(a)
    BY <2>2, <2>3
  <2>5. <<a, b>> \in Stretches /\ SessionId((<<a, b>>)[1]) = SessionId(i)
    BY <2>1, <2>2, <2>4
  <2>. QED  BY <2>5
<1>. HIDE DEF Stretches, Row
<1>4. {SessionOf(Members(id)) : id \in {SessionId(i) : i \in 1..n}} = {Row(p) : p \in Stretches}
  <2>1. \A p \in Stretches : \E id \in {SessionId(i) : i \in 1..n} : Row(p) = SessionOf(Members(id))
    BY <1>2
  <2>2. ASSUME NEW i \in 1..n
        PROVE  \E p \in Stretches : SessionOf(Members(SessionId(i))) = Row(p)
    <3>1. PICK p \in Stretches : SessionId(p[1]) = SessionId(i)
      BY <1>3
    <3>. QED  BY <1>2, <3>1
  <2>. HIDE DEF Members
  <2>. QED  BY <2>1, <2>2
<1>5. sessions_for_handle = {SessionOf(Members(id)) : id \in {SessionId(i) : i \in 1..n}}
  BY <1>1, Zenon DEF sessions_for_handle, SessionOf
<1>6. SessionsAsMeant <=> sessions_for_handle = {Row(p) : p \in Stretches}
  BY <1>1, Zenon DEF SessionsAsMeant, IsStretch, Row, Stretches
<1>. QED  BY <1>4, <1>5, <1>6

(* The days of the timeline are whole: every event of the oldest day is    *)
(* within the days that the query keeps.                                   *)
LEMMA DivisionIs ==
  ASSUME NEW a \in Nat, NEW b \in Nat \ {0}
  PROVE  a \div b \in Int /\ (a \div b) * b <= a /\ a < (a \div b) * b + b
  OBVIOUS

LEMMA DaysWhole ==
  ASSUME NEW now \in Nat, NEW t \in Nat, NEW len \in Nat \ {0}, NEW days \in Nat \ {0},
         t \div len >= now \div len - days + 1
  PROVE  t >= now - days * len
<1>. DEFINE d == t \div len
            y == now \div len
<1>1. d \in Int /\ y \in Int /\ d * len <= t /\ now < y * len + len
  BY DivisionIs
<1>. HIDE DEF d, y
<1>2. d - (y - days + 1) \in Nat
  BY <1>1 DEF d, y
<1>3. (d - (y - days + 1)) * len >= 0
  BY <1>2
<1>4. (d - (y - days + 1)) * len = d * len - y * len + days * len - len
  BY <1>1
<1>5. d * len \in Int /\ y * len \in Int /\ days * len \in Int
  BY <1>1
<1>. QED  BY <1>1, <1>3, <1>4, <1>5

(* build_timeline_buckets: a day's bucket is the count of all its events.  *)
LEMMA TimelineWhole == HistoryOK => TimelineAsMeant
<1>. SUFFICES ASSUME HistoryOK, history # <<>>,
                     NEW now \in Last(history).t..(Last(history).t + DayLength)
              PROVE  build_timeline_buckets(now) =
                       [d \in (Today(now) - TimelineDays + 1)..Today(now) |->
                          Cardinality({i \in DOMAIN history : At(i) \div DayLength = d})]
  BY DEF TimelineAsMeant
<1>. DEFINE n == Len(history)
            days == (Today(now) - TimelineDays + 1)..Today(now)
            recent == {i \in DOMAIN history : At(i) >= now - TimelineDays * DayLength}
            Of(d) == {i \in DOMAIN history : At(i) \div DayLength = d}
            rows == timeline(now)
<1>1. /\ n \in Nat /\ DOMAIN history = 1..n /\ n \in 1..n /\ Last(history) = history[n]
      /\ \A k \in 1..n : At(k) \in Nat
  BY HistoryRows DEF HistoryOK, Last
<1>2. DayLength \in Nat \ {0} /\ TimelineDays \in Nat \ {0}
  BY EventStatsAssumption
<1>3. now \in Nat
  BY <1>1, <1>2 DEF At
<1>4. ASSUME NEW d \in days, NEW i \in Of(d) PROVE i \in recent
  <2>1. i \in 1..n /\ At(i) \in Nat /\ At(i) \div DayLength = d
    BY <1>1
  <2>2. At(i) \div DayLength >= now \div DayLength - TimelineDays + 1
    BY <1>2, <1>3, <2>1, DivisionIs DEF Today
  <2>3. At(i) >= now - TimelineDays * DayLength
    BY <1>2, <1>3, <2>1, <2>2, DaysWhole
  <2>. QED  BY <1>1, <2>1, <2>3
<1>5. rows = [d \in {At(i) \div DayLength : i \in recent} |->
                Cardinality({i \in recent : At(i) \div DayLength = d})]
  BY DEF timeline
<1>6. \A d : {i \in recent : At(i) \div DayLength = d} \subseteq Of(d)
  OBVIOUS
<1>7. \A i \in recent : i \in Of(At(i) \div DayLength)
  OBVIOUS
<1>8. DOMAIN rows = {At(i) \div DayLength : i \in recent}
      /\ \A d \in DOMAIN rows : rows[d] = Cardinality({i \in recent : At(i) \div DayLength = d})
  BY <1>5
<1>. HIDE DEF rows
<1>9. ASSUME NEW d \in days
      PROVE  (IF d \in DOMAIN rows THEN rows[d] ELSE 0) = Cardinality(Of(d))
  <2>1. {i \in recent : At(i) \div DayLength = d} = Of(d)
    BY <1>4
  <2>2. CASE d \in DOMAIN rows
    BY <1>8, <2>1, <2>2
  <2>3. CASE d \notin DOMAIN rows
    <3>1. Of(d) = {}
      BY <1>4, <1>8, <2>3
    <3>. QED  BY <2>3, <3>1, FS_EmptySet
  <2>. QED  BY <2>2, <2>3
<1>10. build_timeline_buckets(now) = [d \in days |-> IF d \in DOMAIN rows THEN rows[d] ELSE 0]
  BY DEF build_timeline_buckets, rows
<1>. HIDE DEF days
<1>11. build_timeline_buckets(now) = [d \in days |-> Cardinality(Of(d))]
  BY <1>9, <1>10
<1>. QED  BY <1>11 DEF days, Of

(* The events in their order and backwards, as a client may list them.     *)
LEMMA PairsOfHistory == HistoryOK => PairsAsMeant
<1>. SUFFICES ASSUME HistoryOK PROVE PairsAsMeant
  OBVIOUS
<1>. DEFINE n == Len(history)
<1>1. n \in Nat /\ DOMAIN history = 1..n /\ \A k \in 1..n : At(k) \in Nat
  BY HistoryRows
<1>2. EventsOK(history, n)
  BY <1>1 DEF EventsOK, At
<1>3. EventsOK(Reverse(history), n)
  <2>1. Reverse(history) = [i \in 1..n |-> history[(n - i) + 1]]
    BY DEF Reverse
  <2>2. \A i \in 1..n : (n - i) + 1 \in 1..n
    BY <1>1
  <2>3. Len(Reverse(history)) = n
    BY <1>1, <2>1
  <2>4. \A i \in 1..n : Reverse(history)[i].t \in Int
    <3>1. TAKE i \in 1..n
    <3>2. PICK j \in 1..n : j = (n - i) + 1
      BY <2>2
    <3>3. Reverse(history)[i] = history[j] /\ history[j].t \in Int
      BY <1>1, <2>1, <3>2 DEF At
    <3>. QED  BY <3>3
  <2>. QED  BY <1>1, <2>1, <2>3, <2>4 DEF EventsOK
<1>4. SUFFICES ASSUME NEW evs \in {history, Reverse(history)}
               PROVE  LET paired == pair_transactions(evs)
                          used == {paired[q] : q \in DOMAIN paired}
                      IN /\ Cardinality(used) = Cardinality(DOMAIN paired)
                         /\ \A q \in DOMAIN paired : evs[q].t =< evs[paired[q]].t
                         /\ \A q, r \in DOMAIN evs :
                              evs[r].kind \in Responses /\ r \notin used => ~Fits(evs, paired, r, q)
  BY DEF PairsAsMeant
<1>5. EventsOK(evs, n)
  BY <1>2, <1>3
<1>6. PICK p : p = pair_transactions(evs)
  OBVIOUS
<1>7. p \in PairedTo(evs, n, n)
  BY <1>5, <1>6, PairsArePairs
<1>. DEFINE used == {p[q] : q \in DOMAIN p}
<1>8. p \in Pairings(evs, n) /\ UsedOnce(evs, p, n) /\ NoneLeft(evs, n, p, n)
  BY <1>7 DEF PairedTo
<1>9. /\ DOMAIN p \subseteq 1..n /\ p = [q \in DOMAIN p |-> p[q]]
      /\ \A q \in DOMAIN p : p[q] \in 1..n
  BY <1>8 DEF Pairings
<1>10. Cardinality(used) = Cardinality(DOMAIN p)
  <2>1. p \in Injection(DOMAIN p, used)
    BY <1>8, <1>9 DEF Injection, IsInjective, UsedOnce
  <2>2. p \in Surjection(DOMAIN p, used)
    BY <1>9 DEF Surjection
  <2>3. IsFiniteSet(used)
    <3>1. IsFiniteSet(1..n)
      BY <1>1, FS_Interval
    <3>2. used \in SUBSET (1..n)
      BY <1>9
    <3>. QED  BY <3>1, <3>2, FS_Subset
  <2>. HIDE DEF used
  <2>. QED  BY <2>1, <2>2, <2>3, FS_Injection
<1>11. \A q \in DOMAIN p : evs[q].t =< evs[p[q]].t
  BY <1>8 DEF UsedOnce
<1>12. ASSUME NEW q \in DOMAIN evs, NEW r \in DOMAIN evs, evs[r].kind \in Responses, r \notin used
       PROVE  ~Fits(evs, p, r, q)
  <2>1. q \in 1..n /\ r \in 1..n
    BY <1>5, <1>12 DEF EventsOK
  <2>2. \A s \in DOMAIN p : p[s] # r
    BY <1>12
  <2>. QED  BY <1>8, <1>12, <2>1, <2>2 DEF NoneLeft
<1>. QED  BY <1>6, <1>10, <1>11, <1>12

(* location_event_stream: the places in the order of their times.          *)
Visit == [t : Nat, place : Places]
Earlier == {xy \in HistoryRow \X HistoryRow : xy[1].t <= xy[2].t}

LocationRows(since) == Filtered(history, {e \in ToSet(history) : e.kind \in LocationEvents /\ e.t >= since})

LEMMA StreamIs ==
  ASSUME HistoryOK, NEW since
  PROVE  LET r == location_event_stream(since)
             rows == LocationRows(since)
         IN /\ r \in Seq(Visit) /\ rows \in Seq(HistoryRow) /\ Len(r) = Len(rows)
            /\ \A i \in 1..Len(r) : r[i] = [t |-> rows[i].t, place |-> resolve_place(rows[i].kind)]
            /\ \A i \in 1..Len(r) : r[i].t \in Nat /\ r[i].place \in Places
            /\ \A i, j \in 1..Len(r) : i < j => r[i].t <= r[j].t
<1>. DEFINE S == {e \in ToSet(history) : e.kind \in LocationEvents /\ e.t >= since}
            rows == LocationRows(since)
            r == location_event_stream(since)
            n == Len(rows)
<1>1. history \in Seq(HistoryRow) /\ OrderedBy(history, Earlier)
  <2>1. \A i, j \in DOMAIN history : i < j => <<history[i], history[j]>> \in Earlier
    <3>1. SUFFICES ASSUME NEW i \in 1..Len(history), NEW j \in 1..Len(history), i < j
                   PROVE  <<history[i], history[j]>> \in Earlier
      BY HistoryRows
    <3>2. history[i] \in HistoryRow /\ history[j] \in HistoryRow /\ i <= j
      BY HistoryRows, <3>1
    <3>3. history[i].t <= history[j].t
      BY <3>1, <3>2 DEF HistoryOK
    <3>. QED  BY <3>2, <3>3 DEF Earlier
  <2>. QED  BY <2>1 DEF HistoryOK, OrderedBy
<1>2. rows = Filtered(history, S)
  BY DEF LocationRows
<1>. HIDE DEF S
<1>3. rows \in Seq(HistoryRow) /\ ToSet(rows) = ToSet(history) \cap S /\ OrderedBy(rows, Earlier)
  <2>1. Filtered(history, S) \in Seq(HistoryRow) /\ ToSet(Filtered(history, S)) = ToSet(history) \cap S
    BY <1>1, FilteredItems
  <2>2. OrderedBy(Filtered(history, S), Earlier)
    BY <1>1, FilteredOrder
  <2>. HIDE DEF rows
  <2>. QED  BY <1>2, <2>1, <2>2
<1>4. r = [i \in DOMAIN rows |-> [t |-> rows[i].t, place |-> resolve_place(rows[i].kind)]]
  BY DEF location_event_stream, LocationRows
<1>. HIDE DEF rows, r
<1>5. n \in Nat /\ DOMAIN rows = 1..n
  BY <1>3
<1>6. \A i \in 1..n : rows[i] \in HistoryRow /\ rows[i] \in S
  BY <1>3, <1>5 DEF ToSet
<1>7. \A i \in 1..n : rows[i].t \in Nat /\ resolve_place(rows[i].kind) \in Places
  BY <1>6 DEF S, HistoryRow, Places
<1>8. \A i \in 1..n : [t |-> rows[i].t, place |-> resolve_place(rows[i].kind)] \in Visit
  BY <1>7 DEF Visit
<1>9. r \in Seq(Visit) /\ Len(r) = n
  BY <1>4, <1>5, <1>8
<1>10. \A i \in 1..n : r[i] = [t |-> rows[i].t, place |-> resolve_place(rows[i].kind)]
  BY <1>4, <1>5
<1>11. \A i \in 1..n : r[i].t = rows[i].t /\ r[i].place = resolve_place(rows[i].kind)
  <2>1. TAKE i \in 1..n
  <2>2. PICK x, y : x = rows[i].t /\ y = resolve_place(rows[i].kind)
    OBVIOUS
  <2>3. r[i] = [t |-> x, place |-> y]
    BY <1>10, <2>2
  <2>. QED  BY <2>2, <2>3
<1>12. \A i, j \in 1..n : i < j => rows[i].t <= rows[j].t
  <2>1. \A i, j \in 1..n : i < j => <<rows[i], rows[j]>> \in Earlier
    BY <1>3, <1>5 DEF OrderedBy
  <2>. QED  BY <2>1 DEF Earlier
<1>13. \A i, j \in 1..n : i < j => r[i].t <= r[j].t
  BY <1>11, <1>12
<1>. HIDE DEF n
<1>14. \A i \in 1..n : r[i].t \in Nat /\ r[i].place \in Places
  BY <1>7, <1>11
<1>. QED  BY <1>3, <1>9, <1>10, <1>13, <1>14 DEF n, r, rows

(* The trace of the first k visits: its entries end at the counts c.       *)
Entry == [place : Places, started_at : Nat, ended_at : Nat, event_count : Nat]

EntryOf(out, r, c, n) ==
  /\ c[n] = c[n - 1] + out[n].event_count /\ c[n - 1] < c[n]
  /\ n > 1 => out[n].place # out[n - 1].place
  /\ out[n].started_at = r[c[n - 1] + 1].t /\ out[n].ended_at = r[c[n]].t
  /\ \A i \in (c[n - 1] + 1)..c[n] : r[i].place = out[n].place

Counted(out, r, c, k) ==
  /\ c \in [0..Len(out) -> Nat] /\ c[0] = 0 /\ c[Len(out)] = k
  /\ \A n \in 1..Len(out) : EntryOf(out, r, c, n)

IsTrace(out, r, k) == out \in Seq(Entry) /\ \E c : Counted(out, r, c, k)

LEMMA CollapsedIs ==
  ASSUME NEW out \in Seq(Entry), NEW e \in Visit
  PROVE  Collapsed(out, e) \in Seq(Entry)
<1>1. e.place \in Places /\ e.t \in Nat
  BY DEF Visit
<1>2. CASE out # <<>> /\ Last(out).place = e.place
  <2>. DEFINE m == Len(out)
              x == [place |-> e.place, started_at |-> Last(out).started_at,
                    ended_at |-> e.t, event_count |-> Last(out).event_count + 1]
  <2>1. m \in 1..m /\ out[m] \in Entry /\ m \in DOMAIN out /\ Last(out) = out[m]
    BY <1>2 DEF Last
  <2>2. x \in Entry
    BY <1>1, <2>1 DEF Entry
  <2>3. Collapsed(out, e) = [out EXCEPT ![m] = x]
    BY <1>2 DEF Collapsed
  <2>. HIDE DEF x
  <2>. QED  BY <2>1, <2>2, <2>3
<1>3. CASE ~(out # <<>> /\ Last(out).place = e.place)
  <2>. DEFINE x == [place |-> e.place, started_at |-> e.t, ended_at |-> e.t, event_count |-> 1]
  <2>1. x \in Entry
    BY <1>1 DEF Entry
  <2>2. Collapsed(out, e) = Append(out, x)
    BY <1>3 DEF Collapsed
  <2>. HIDE DEF x
  <2>. QED  BY <2>1, <2>2
<1>. QED  BY <1>2, <1>3

LEMMA TraceGrows ==
  ASSUME NEW r \in Seq(Visit), NEW k \in 1..Len(r), NEW out, IsTrace(out, r, k - 1)
  PROVE  IsTrace(Collapsed(out, r[k]), r, k)
<1>. DEFINE m == Len(out)
            e == r[k]
            new == Collapsed(out, e)
<1>1. e \in Visit
  OBVIOUS
<1>2. out \in Seq(Entry) /\ m \in Nat
  BY DEF IsTrace
<1>3. PICK c : Counted(out, r, c, k - 1)
  BY DEF IsTrace
<1>4. /\ c \in [0..m -> Nat] /\ c[0] = 0 /\ c[m] = k - 1 /\ \A n \in 1..m : EntryOf(out, r, c, n)
  BY <1>3 DEF Counted
<1>5. new \in Seq(Entry)
  BY <1>1, <1>2, CollapsedIs
<1>6. CASE out # <<>> /\ Last(out).place = e.place
  <2>. DEFINE x == [place |-> e.place, started_at |-> Last(out).started_at,
                    ended_at |-> e.t, event_count |-> Last(out).event_count + 1]
              d == [n \in 0..m |-> IF n = m THEN k ELSE c[n]]
  <2>1. m \in 1..m /\ out[m] \in Entry /\ out[m].place = e.place /\ DOMAIN out = 1..m
        /\ Last(out) = out[m]
    BY <1>2, <1>6 DEF Last
  <2>2. x.place = out[m].place /\ x.started_at = out[m].started_at /\ x.ended_at = e.t
        /\ x.event_count = out[m].event_count + 1 /\ out[m].event_count \in Nat
    BY <2>1 DEF Entry
  <2>3. new = [out EXCEPT ![m] = x]
    BY <1>6 DEF Collapsed
  <2>. HIDE DEF x, e
  <2>4. Len(new) = m /\ new[m] = x /\ \A n \in 1..m : n # m => new[n] = out[n]
    BY <1>2, <2>1, <2>3
  <2>. HIDE DEF new
  <2>5. /\ d \in [0..m -> Nat] /\ d[m] = k /\ d[0] = 0 /\ \A n \in 0..m : n # m => d[n] = c[n]
    <3>1. k \in Nat /\ m # 0 /\ 0 \in 0..m /\ m \in 0..m
      BY <1>2, <2>1
    <3>. HIDE DEF m
    <3>. QED  BY <1>4, <3>1
  <2>. HIDE DEF d, m
  <2>6. EntryOf(new, r, d, m)
    <3>1. EntryOf(out, r, c, m) /\ m - 1 \in 0..m /\ m - 1 # m /\ d[m - 1] = c[m - 1] /\ c[m - 1] \in Nat
      BY <1>2, <1>4, <2>1, <2>5
    <3>2. c[m - 1] < k /\ k - 1 \in Nat /\ k = d[m - 1] + x.event_count
      <4>1. c[m] = c[m - 1] + out[m].event_count
        BY <3>1 DEF EntryOf
      <4>2. k \in Nat /\ k - 1 = c[m - 1] + out[m].event_count
        BY <1>4, <4>1
      <4>3. PICK i \in Nat, j \in Nat : i = c[m - 1] /\ j = out[m].event_count
        BY <2>2, <3>1
      <4>4. k = i + j + 1 /\ d[m - 1] = i /\ x.event_count = j + 1
        BY <2>2, <3>1, <4>2, <4>3
      <4>5. c[m - 1] < k
        BY <4>3, <4>4
      <4>6. k - 1 \in Nat
        BY <4>3, <4>4
      <4>7. d[m - 1] + x.event_count = i + (j + 1)
        BY <4>4, Zenon
      <4>8. i + (j + 1) = k
        <5>1. k = i + j + 1
          BY <4>4
        <5>2. i + (j + 1) = i + j + 1
          OBVIOUS
        <5>. QED  BY <5>1, <5>2, Zenon
      <4>. QED  BY <4>5, <4>6, <4>7, <4>8
    <3>3. m > 1 => x.place # new[m - 1].place
      <4>1. m > 1 => m - 1 \in 1..m /\ out[m].place # out[m - 1].place
        BY <1>2, <3>1 DEF EntryOf
      <4>. QED  BY <2>2, <2>4, <3>1, <4>1
    <3>4. x.started_at = r[d[m - 1] + 1].t /\ x.ended_at = r[k].t
      BY <2>2, <3>1 DEF EntryOf, e
    <3>5. ASSUME NEW i \in (d[m - 1] + 1)..k PROVE r[i].place = x.place
      <4>1. i = k \/ i \in (c[m - 1] + 1)..c[m]
        BY <1>4, <3>1, <3>2
      <4>2. CASE i = k
        BY <2>1, <2>2, <4>2 DEF e
      <4>3. CASE i \in (c[m - 1] + 1)..c[m]
        BY <2>2, <3>1, <4>3 DEF EntryOf
      <4>. QED  BY <4>1, <4>2, <4>3
    <3>. QED  BY <2>4, <2>5, <3>1, <3>2, <3>3, <3>4, <3>5 DEF EntryOf
  <2>7. ASSUME NEW n \in 1..m, n # m PROVE EntryOf(new, r, d, n)
    <3>1. n - 1 \in 0..m /\ n - 1 # m /\ n \in 0..m /\ (n > 1 => n - 1 \in 1..m)
      BY <1>2, <2>7
    <3>2. EntryOf(out, r, c, n) /\ d[n] = c[n] /\ d[n - 1] = c[n - 1] /\ new[n] = out[n]
          /\ (n > 1 => new[n - 1] = out[n - 1])
      BY <1>4, <2>4, <2>5, <2>7, <3>1
    <3>. QED  BY <3>2 DEF EntryOf
  <2>8. Counted(new, r, d, k)
    BY <2>4, <2>5, <2>6, <2>7 DEF Counted
  <2>9. IsTrace(new, r, k)
    BY <1>5, <2>8 DEF IsTrace
  <2>. QED  BY <2>9 DEF new, e
<1>7. CASE ~(out # <<>> /\ Last(out).place = e.place)
  <2>. DEFINE x == [place |-> e.place, started_at |-> e.t, ended_at |-> e.t, event_count |-> 1]
              l == m + 1
              d == [n \in 0..l |-> IF n = l THEN k ELSE c[n]]
  <2>1. new = Append(out, x)
    BY <1>7 DEF Collapsed
  <2>2. x.place = e.place /\ x.started_at = e.t /\ x.ended_at = e.t /\ x.event_count = 1
    OBVIOUS
  <2>20. x \in Entry
    BY <1>1 DEF Entry, Visit
  <2>21. m >= 1 => out[m].place # e.place
    BY <1>2, <1>7 DEF Last
  <2>. HIDE DEF x, e
  <2>3. Len(new) = l /\ new[l] = x /\ \A n \in 1..m : new[n] = out[n]
    BY <1>2, <2>1, <2>20
  <2>. HIDE DEF new
  <2>4. l \in Nat /\ l - 1 = m /\ 0 # l /\ l \in 0..l /\ \A n \in 0..m : n \in 0..l /\ n # l
    BY <1>2
  <2>5. /\ d \in [0..l -> Nat] /\ d[l] = k /\ d[0] = 0 /\ \A n \in 0..m : d[n] = c[n]
    <3>1. \A n \in 0..l : n # l => n \in 0..m
      BY <1>2
    <3>2. k \in Nat /\ 0 \in 0..m
      BY <1>2
    <3>. HIDE DEF l
    <3>. QED  BY <1>4, <2>4, <3>1, <3>2
  <2>6. d[l - 1] = k - 1
    <3>1. m \in 0..m
      BY <1>2
    <3>. HIDE DEF d
    <3>. QED  BY <1>4, <2>4, <2>5, <3>1
  <2>. HIDE DEF d
  <2>7. EntryOf(new, r, d, l)
    <3>1. k \in Nat /\ k - 1 < k /\ (k - 1) + 1 = k /\ \A i \in k..k : i = k
      OBVIOUS
    <3>2. l > 1 => new[l].place # new[l - 1].place
      <4>1. l > 1 => m >= 1 /\ m \in 1..m
        BY <1>2, <2>4
      <4>2. l > 1 => new[l - 1] = out[m]
        BY <2>3, <2>4, <4>1
      <4>. QED  BY <2>2, <2>21, <2>3, <4>1, <4>2
    <3>. HIDE DEF l
    <3>3. new[l].started_at = r[d[l - 1] + 1].t /\ new[l].ended_at = r[d[l]].t
      BY <2>2, <2>3, <2>5, <2>6, <3>1 DEF e
    <3>4. \A i \in (d[l - 1] + 1)..d[l] : r[i].place = new[l].place
      BY <2>2, <2>3, <2>5, <2>6, <3>1 DEF e
    <3>5. d[l] = d[l - 1] + new[l].event_count /\ d[l - 1] < d[l]
      BY <2>2, <2>3, <2>5, <2>6, <3>1
    <3>. QED  BY <3>2, <3>3, <3>4, <3>5 DEF EntryOf
  <2>8. ASSUME NEW n \in 1..m PROVE EntryOf(new, r, d, n)
    <3>1. n - 1 \in 0..m /\ n \in 0..m /\ (n > 1 => n - 1 \in 1..m)
      BY <1>2
    <3>2. EntryOf(out, r, c, n) /\ d[n] = c[n] /\ d[n - 1] = c[n - 1] /\ new[n] = out[n]
          /\ (n > 1 => new[n - 1] = out[n - 1])
      BY <1>4, <2>3, <2>5, <3>1
    <3>. QED  BY <3>2 DEF EntryOf
  <2>9. \A n \in 1..l : n = l \/ n \in 1..m
    BY <1>2
  <2>. HIDE DEF l
  <2>10. \A n \in 1..l : EntryOf(new, r, d, n)
    BY <2>7, <2>8, <2>9
  <2>11. Counted(new, r, d, k)
    BY <2>3, <2>5, <2>10 DEF Counted
  <2>12. IsTrace(new, r, k)
    BY <1>5, <2>11 DEF IsTrace
  <2>. QED  BY <2>12 DEF new, e
<1>. QED  BY <1>6, <1>7

LEMMA CollapsesToTrace ==
  ASSUME NEW r \in Seq(Visit)
  PROVE  IsTrace(collapse_to_trace(r), r, Len(r))
<1>. DEFINE n == Len(r)
            A == Seq(Entry)
            step == [x \in (1..n) \X A |-> Collapsed(x[2], r[x[1]])]
            Unfolds(f) == f = [k \in 0..n |-> IF k = 0 THEN <<>> ELSE Collapsed(f[k - 1], r[k])]
            some == CHOOSE f : Unfolds(f)
<1>1. n \in Nat /\ <<>> \in A /\ \A k \in 1..n : r[k] \in Visit
  OBVIOUS
<1>2. \A k \in 1..n, s \in A : Collapsed(s, r[k]) \in A
  BY <1>1, CollapsedIs
<1>. HIDE DEF n, A
<1>3. \A k \in 1..n, s \in A : step[<<k, s>>] = Collapsed(s, r[k])
  OBVIOUS
<1>4. step \in [(1..n) \X A -> A]
  <2>1. \A x \in (1..n) \X A : Collapsed(x[2], r[x[1]]) \in A
    BY <1>2
  <2>. QED  BY <2>1, Zenon
<1>. HIDE DEF step
<1>5. PICK g : Recursion(g, A, n, <<>>, step)
  BY <1>1, <1>4, RecursionIs, Zenon
<1>6. \A k \in 1..n : k - 1 \in 0..n /\ k \in 0..n /\ k # 0
  BY <1>1
<1>7. \A k \in 0..n : k = 0 \/ k \in 1..n
  BY <1>1
<1>8. Unfolds(g)
  <2>1. \A k \in 1..n : g[k] = Collapsed(g[k - 1], r[k])
    BY <1>3, <1>5, <1>6 DEF Recursion
  <2>2. \A k \in 0..n : g[k] = IF k = 0 THEN <<>> ELSE Collapsed(g[k - 1], r[k])
    BY <1>5, <1>6, <1>7, <2>1, Zenon DEF Recursion
  <2>3. g = [k \in 0..n |-> g[k]]
    BY <1>5 DEF Recursion
  <2>. QED  BY <2>2, <2>3, Zenon
<1>9. Unfolds(some)
  BY <1>8, Zenon
<1>10. collapse_to_trace(r) = some[n]
  BY Zenon DEF collapse_to_trace, n
<1>. HIDE DEF some
<1>11. \A k \in 0..n : some[k] = IF k = 0 THEN <<>> ELSE Collapsed(some[k - 1], r[k])
  BY <1>9, Zenon
<1>. DEFINE P == {k \in 0..n : IsTrace(some[k], r, k)}
<1>12. 0 \in P
  <2>. DEFINE c == [i \in 0..0 |-> 0]
  <2>1. c \in [0..0 -> Nat] /\ c[0] = 0 /\ 1..0 = {} /\ Len(<<>>) = 0
    OBVIOUS
  <2>. HIDE DEF c
  <2>2. Counted(<<>>, r, c, 0)
    BY <2>1 DEF Counted
  <2>3. IsTrace(<<>>, r, 0)
    BY <1>1, <2>2, Zenon DEF IsTrace, A
  <2>4. 0 \in 0..n
    BY <1>1
  <2>. QED  BY <1>11, <2>3, <2>4, Zenon
<1>13. ASSUME NEW k \in 1..n, k - 1 \in P PROVE k \in P
  <2>1. IsTrace(some[k - 1], r, k - 1) /\ some[k] = Collapsed(some[k - 1], r[k]) /\ k \in 0..n
    BY <1>6, <1>11, <1>13
  <2>2. IsTrace(Collapsed(some[k - 1], r[k]), r, k)
    BY <2>1, TraceGrows DEF n
  <2>. QED  BY <2>1, <2>2
<1>14. n \in P
  <2>1. n \in 0..n
    BY <1>1
  <2>. HIDE DEF P
  <2>. QED  BY <1>1, <1>12, <1>13, <2>1, UpTo
<1>. QED  BY <1>10, <1>14 DEF n

LEMMA TraceEnds ==
  ASSUME NEW r \in Seq(Visit), NEW k \in Nat, NEW out, IsTrace(out, r, k)
  PROVE  /\ out = <<>> <=> k = 0
         /\ out # <<>> => out[Len(out)].ended_at = r[k].t /\ out[Len(out)].place = r[k].place
<1>. DEFINE m == Len(out)
<1>1. m \in Nat /\ out \in Seq(Entry) /\ (out = <<>> <=> m = 0)
  BY DEF IsTrace
<1>2. PICK c : /\ c \in [0..m -> Nat] /\ c[0] = 0 /\ c[m] = k
               /\ \A n \in 1..m : EntryOf(out, r, c, n)
  BY DEF IsTrace, Counted
<1>. HIDE DEF m
<1>3. CASE m # 0
  <2>1. m \in 1..m /\ m - 1 \in 0..m
    BY <1>1, <1>3
  <2>2. EntryOf(out, r, c, m) /\ c[m - 1] \in Nat
    BY <1>2, <2>1
  <2>3. c[m - 1] < k /\ out[m].ended_at = r[k].t
    BY <1>2, <2>2 DEF EntryOf
  <2>4. k \in (c[m - 1] + 1)..k
    BY <2>2, <2>3
  <2>5. \A i \in (c[m - 1] + 1)..k : r[i].place = out[m].place
    BY <1>2, <2>2 DEF EntryOf
  <2>6. k # 0
    BY <2>2, <2>3
  <2>. QED  BY <1>1, <1>3, <2>3, <2>4, <2>5, <2>6 DEF m
<1>. QED  BY <1>1, <1>2, <1>3

LEMMA ReverseIs ==
  ASSUME NEW A, NEW s \in Seq(A)
  PROVE  /\ Reverse(s) \in Seq(A) /\ Reverse(Reverse(s)) = s
         /\ Reverse(s) = <<>> <=> s = <<>>
         /\ s # <<>> => Reverse(s)[1] = s[Len(s)]
<1>. DEFINE n == Len(s)
            r == Reverse(s)
<1>1. n \in Nat /\ s = [i \in 1..n |-> s[i]] /\ (s = <<>> <=> n = 0)
  OBVIOUS
<1>2. \A i \in 1..n : (n - i) + 1 \in 1..n /\ (n - ((n - i) + 1)) + 1 = i
  BY <1>1
<1>3. r = [i \in 1..n |-> s[(n - i) + 1]]
  BY DEF Reverse
<1>4. r \in Seq(A) /\ Len(r) = n
  <2>1. \A i \in 1..n : s[(n - i) + 1] \in A
    BY <1>2
  <2>. QED  BY <1>1, <1>3, <2>1
<1>5. Reverse(r) = [i \in 1..n |-> r[(n - i) + 1]]
  BY <1>4 DEF Reverse
<1>6. \A i \in 1..n : r[(n - i) + 1] = s[i]
  <2>1. TAKE i \in 1..n
  <2>2. PICK j \in 1..n : j = (n - i) + 1 /\ (n - j) + 1 = i
    BY <1>2
  <2>3. r[j] = s[(n - j) + 1]
    BY <1>3
  <2>. QED  BY <2>2, <2>3
<1>7. Reverse(r) = s
  BY <1>1, <1>5, <1>6
<1>8. s # <<>> => r[1] = s[n]
  <2>1. s # <<>> => 1 \in 1..n /\ (n - 1) + 1 = n
    BY <1>1
  <2>. QED  BY <1>3, <2>1
<1>9. r = <<>> <=> s = <<>>
  BY <1>1, <1>4
<1>. QED  BY <1>4, <1>7, <1>8, <1>9

(* The time spent at a place and the visits to it, of the first k.         *)
WaitAt(r, i) == IF i = Len(r) THEN DwellCap ELSE Min({DwellCap, r[i + 1].t - r[i].t})
Spent(r, p) == Totals([i \in DOMAIN r |-> IF r[i].place = p THEN WaitAt(r, i) ELSE 0], Len(r))
VisitsTo(r, p, k) == {i \in 1..k : r[i].place = p}

Tally == [Places -> [dwell : Nat, visits : Nat]]
Tallied(s, r, k) ==
  /\ s \in Tally
  /\ \A p \in Places : s[p].dwell = Spent(r, p)[k] /\ s[p].visits = Cardinality(VisitsTo(r, p, k))

InTime(r) == \A i, j \in 1..Len(r) : i < j => r[i].t <= r[j].t

LEMMA WaitIs ==
  ASSUME NEW r \in Seq(Visit), InTime(r), NEW i \in 1..Len(r)
  PROVE  /\ WaitAt(r, i) \in Nat
         /\ i = Len(r) => WaitAt(r, i) = DwellCap
         /\ i # Len(r) => WaitAt(r, i) = Capped(r[i + 1].t - r[i].t)
<1>1. DwellCap \in Nat
  BY EventStatsAssumption
<1>2. CASE i = Len(r)
  BY <1>1, <1>2 DEF WaitAt
<1>3. CASE i # Len(r)
  <2>1. i + 1 \in 1..Len(r) /\ i < i + 1
    BY <1>3
  <2>2. r[i] \in Visit /\ r[i + 1] \in Visit
    BY <2>1
  <2>3. r[i].t \in Nat /\ r[i + 1].t \in Nat /\ r[i].t <= r[i + 1].t
    BY <2>1, <2>2 DEF InTime, Visit
  <2>4. PICK gap \in Nat : gap = r[i + 1].t - r[i].t
    BY <2>3
  <2>5. {DwellCap, gap} \subseteq 0..(DwellCap + gap) /\ DwellCap + gap \in Nat
    BY <1>1
  <2>6. Min({DwellCap, gap}) \in {DwellCap, gap} /\ \A x \in {DwellCap, gap} : Min({DwellCap, gap}) <= x
    BY <2>5, MinMaxIs
  <2>7. WaitAt(r, i) = Min({DwellCap, gap})
    BY <1>3, <2>4 DEF WaitAt
  <2>8. WaitAt(r, i) = Capped(gap) /\ WaitAt(r, i) \in Nat
    BY <1>1, <2>6, <2>7 DEF Capped
  <2>. QED  BY <1>3, <2>4, <2>8
<1>. QED  BY <1>2, <1>3

LEMMA SpentIs ==
  ASSUME NEW r \in Seq(Visit), InTime(r), NEW p
  PROVE  /\ Spent(r, p)[0] = 0
         /\ \A k \in 0..Len(r) : Spent(r, p)[k] \in Nat
         /\ \A k \in 1..Len(r) :
              Spent(r, p)[k] = Spent(r, p)[k - 1] + (IF r[k].place = p THEN WaitAt(r, k) ELSE 0)
<1>. DEFINE f == [i \in DOMAIN r |-> IF r[i].place = p THEN WaitAt(r, i) ELSE 0]
            n == Len(r)
<1>1. n \in Nat /\ DOMAIN r = 1..n
  OBVIOUS
<1>2. \A k \in 1..n : f[k] = (IF r[k].place = p THEN WaitAt(r, k) ELSE 0) /\ f[k] \in Nat
  BY <1>1, WaitIs
<1>3. Spent(r, p) = Totals(f, n)
  BY DEF Spent
<1>. HIDE DEF f, n
<1>4. /\ Totals(f, n) \in [0..n -> Nat] /\ Totals(f, n)[0] = 0
      /\ \A k \in 1..n : Totals(f, n)[k] = Totals(f, n)[k - 1] + f[k]
  BY <1>1, <1>2, TotalsAre
<1>. QED  BY <1>2, <1>3, <1>4 DEF n

LEMMA VisitsToIs ==
  ASSUME NEW r, NEW p
  PROVE  /\ Cardinality(VisitsTo(r, p, 0)) = 0
         /\ \A k \in Nat : Cardinality(VisitsTo(r, p, k)) \in Nat
         /\ \A k \in Nat \ {0} : Cardinality(VisitsTo(r, p, k))
              = Cardinality(VisitsTo(r, p, k - 1)) + (IF r[k].place = p THEN 1 ELSE 0)
<1>1. ASSUME NEW k \in Nat PROVE IsFiniteSet(VisitsTo(r, p, k)) /\ Cardinality(VisitsTo(r, p, k)) \in Nat
  <2>1. IsFiniteSet(1..k)
    BY FS_Interval
  <2>2. VisitsTo(r, p, k) \in SUBSET (1..k)
    BY DEF VisitsTo
  <2>. QED  BY <2>1, <2>2, FS_Subset, FS_CardinalityType
<1>2. VisitsTo(r, p, 0) = {}
  BY DEF VisitsTo
<1>3. ASSUME NEW k \in Nat \ {0}
      PROVE  Cardinality(VisitsTo(r, p, k)) = Cardinality(VisitsTo(r, p, k - 1)) + (IF r[k].place = p THEN 1 ELSE 0)
  <2>1. k - 1 \in Nat /\ k \notin 1..(k - 1) /\ k \in 1..k /\ \A i \in 1..k : i = k \/ i \in 1..(k - 1)
    OBVIOUS
  <2>10. \A i \in 1..(k - 1) : i \in 1..k
    OBVIOUS
  <2>2. IsFiniteSet(VisitsTo(r, p, k - 1)) /\ Cardinality(VisitsTo(r, p, k - 1)) \in Nat
    BY <1>1, <2>1
  <2>3. CASE r[k].place = p
    <3>1. VisitsTo(r, p, k) = VisitsTo(r, p, k - 1) \cup {k} /\ k \notin VisitsTo(r, p, k - 1)
      BY <2>1, <2>10, <2>3 DEF VisitsTo
    <3>2. Cardinality(VisitsTo(r, p, k - 1) \cup {k}) = Cardinality(VisitsTo(r, p, k - 1)) + 1
      BY <2>2, <3>1, FS_AddElement
    <3>. QED  BY <2>3, <3>1, <3>2
  <2>4. CASE r[k].place # p
    <3>1. VisitsTo(r, p, k) = VisitsTo(r, p, k - 1)
      BY <2>1, <2>10, <2>4 DEF VisitsTo
    <3>. QED  BY <2>2, <2>4, <3>1
  <2>. QED  BY <2>3, <2>4
<1>. QED  BY <1>1, <1>2, <1>3, FS_EmptySet

LEMMA TallyAdds ==
  ASSUME NEW s \in Tally, NEW place \in Places, NEW dwell \in Nat
  PROVE  /\ AddDwell(s, place, dwell) \in Tally
         /\ \A p \in Places :
              /\ AddDwell(s, place, dwell)[p].dwell = s[p].dwell + (IF p = place THEN dwell ELSE 0)
              /\ AddDwell(s, place, dwell)[p].visits = s[p].visits + (IF p = place THEN 1 ELSE 0)
<1>. DEFINE x == [dwell |-> s[place].dwell + dwell, visits |-> s[place].visits + 1]
<1>1. \A p \in Places : s[p] \in [dwell : Nat, visits : Nat]
  BY DEF Tally
<1>2. \A p \in Places : s[p].dwell \in Nat /\ s[p].visits \in Nat
  BY <1>1
<1>3. AddDwell(s, place, dwell) = [s EXCEPT ![place] = x]
  BY DEF AddDwell
<1>4. x \in [dwell : Nat, visits : Nat]
      /\ x.dwell = s[place].dwell + dwell /\ x.visits = s[place].visits + 1
  <2>1. PICK a \in Nat, b \in Nat : a = s[place].dwell /\ b = s[place].visits
    BY <1>2
  <2>2. x = [dwell |-> a + dwell, visits |-> b + 1]
    BY <2>1
  <2>. HIDE DEF x
  <2>3. x.dwell = a + dwell /\ x.visits = b + 1 /\ x \in [dwell : Nat, visits : Nat]
    BY <2>2
  <2>. QED  BY <2>1, <2>3
<1>. HIDE DEF x
<1>5. \A p \in Places : AddDwell(s, place, dwell)[p] = IF p = place THEN x ELSE s[p]
  BY <1>3 DEF Tally
<1>6. AddDwell(s, place, dwell) \in Tally
  BY <1>3, <1>4 DEF Tally
<1>7. ASSUME NEW p \in Places
      PROVE  /\ AddDwell(s, place, dwell)[p].dwell = s[p].dwell + (IF p = place THEN dwell ELSE 0)
             /\ AddDwell(s, place, dwell)[p].visits = s[p].visits + (IF p = place THEN 1 ELSE 0)
  <2>1. CASE p = place
    BY <1>4, <1>5, <2>1
  <2>2. CASE p # place
    <3>1. AddDwell(s, place, dwell)[p] = s[p]
      BY <1>5, <2>2
    <3>2. PICK a \in Nat, b \in Nat : a = s[p].dwell /\ b = s[p].visits
      BY <1>2
    <3>3. a + 0 = a /\ b + 0 = b
      OBVIOUS
    <3>. QED  BY <2>2, <3>1, <3>2, <3>3
  <2>. QED  BY <2>1, <2>2
<1>. QED  BY <1>6, <1>7

LEMMA TallyGrows ==
  ASSUME NEW r \in Seq(Visit), InTime(r), NEW k \in 1..Len(r), NEW s, Tallied(s, r, k - 1)
  PROVE  Tallied(AddDwell(s, r[k].place, WaitAt(r, k)), r, k)
<1>. DEFINE new == AddDwell(s, r[k].place, WaitAt(r, k))
<1>1. r[k].place \in Places /\ WaitAt(r, k) \in Nat /\ s \in Tally /\ k \in Nat \ {0}
  <2>1. r[k] \in Visit
    OBVIOUS
  <2>2. r[k].place \in Places
    BY <2>1 DEF Visit
  <2>3. WaitAt(r, k) \in Nat
    BY WaitIs
  <2>. QED  BY <2>2, <2>3 DEF Tallied
<1>2. /\ new \in Tally
      /\ \A p \in Places :
           /\ new[p].dwell = s[p].dwell + (IF p = r[k].place THEN WaitAt(r, k) ELSE 0)
           /\ new[p].visits = s[p].visits + (IF p = r[k].place THEN 1 ELSE 0)
  BY Zenon, <1>1, TallyAdds
<1>3. ASSUME NEW p \in Places
      PROVE  new[p].dwell = Spent(r, p)[k] /\ new[p].visits = Cardinality(VisitsTo(r, p, k))
  <2>1. /\ new[p].dwell = s[p].dwell + (IF p = r[k].place THEN WaitAt(r, k) ELSE 0)
        /\ new[p].visits = s[p].visits + (IF p = r[k].place THEN 1 ELSE 0)
    BY Zenon, <1>2
  <2>2. s[p].dwell = Spent(r, p)[k - 1] /\ s[p].visits = Cardinality(VisitsTo(r, p, k - 1))
    BY DEF Tallied
  <2>3. Spent(r, p)[k] = Spent(r, p)[k - 1] + (IF r[k].place = p THEN WaitAt(r, k) ELSE 0)
    BY SpentIs
  <2>4. Cardinality(VisitsTo(r, p, k))
          = Cardinality(VisitsTo(r, p, k - 1)) + (IF r[k].place = p THEN 1 ELSE 0)
    BY <1>1, VisitsToIs
  <2>. HIDE DEF new
  <2>. QED  BY <2>1, <2>2, <2>3, <2>4
<1>. QED  BY <1>2, <1>3 DEF Tallied

(* aggregate_dwell                                                         *)
LEMMA DwellIs ==
  ASSUME HistoryOK, NEW since
  PROVE  LET r == location_event_stream(since) IN Tallied(aggregate_dwell(since), r, Len(r))
<1>. DEFINE r == location_event_stream(since)
            n == Len(r)
            none == [p \in Places |-> [dwell |-> 0, visits |-> 0]]
            next(k, s) == IF k = 1 THEN s ELSE AddDwell(s, r[k - 1].place, Capped(r[k].t - r[k - 1].t))
            step == [x \in (1..n) \X Tally |-> next(x[1], x[2])]
            Unfolds(f) == f = [k \in 0..n |->
                                 IF k = 0 THEN none
                                 ELSE IF k = 1 THEN f[0]
                                 ELSE AddDwell(f[k - 1], r[k - 1].place, Capped(r[k].t - r[k - 1].t))]
            some == CHOOSE f : Unfolds(f)
            Before(k) == IF k = 0 THEN 0 ELSE k - 1
<1>1. /\ r \in Seq(Visit) /\ InTime(r) /\ n \in Nat
      /\ (r = <<>> <=> n = 0) /\ (n # 0 => Last(r) = r[n])
  <2>1. /\ r \in Seq(Visit) /\ \A i, j \in 1..Len(r) : i < j => r[i].t <= r[j].t
    BY StreamIs
  <2>. HIDE DEF r
  <2>. QED  BY <2>1 DEF InTime, Last
<1>2. aggregate_dwell(since) = IF r = <<>> THEN some[0] ELSE AddDwell(some[n], Last(r).place, DwellCap)
  BY Zenon DEF aggregate_dwell
<1>. HIDE DEF r
<1>3. none \in Tally /\ Tallied(none, r, 0)
  <2>1. none \in Tally /\ \A p \in Places : none[p].dwell = 0 /\ none[p].visits = 0
    BY DEF Tally
  <2>2. \A p \in Places : Spent(r, p)[0] = 0 /\ Cardinality(VisitsTo(r, p, 0)) = 0
    BY <1>1, SpentIs, VisitsToIs
  <2>. HIDE DEF none
  <2>. QED  BY <2>1, <2>2 DEF Tallied
<1>4. ASSUME NEW k \in 1..n, k # 1
      PROVE  /\ k - 1 \in 1..n /\ r[k - 1].place \in Places
             /\ Capped(r[k].t - r[k - 1].t) = WaitAt(r, k - 1) /\ WaitAt(r, k - 1) \in Nat
  <2>1. PICK j \in 1..n : j = k - 1 /\ j + 1 = k /\ j # n
    BY <1>1, <1>4
  <2>2. WaitAt(r, j) \in Nat /\ WaitAt(r, j) = Capped(r[j + 1].t - r[j].t)
    BY <1>1, <2>1, WaitIs
  <2>3. r[j] \in Visit
    BY <1>1
  <2>4. r[j].place \in Places
    BY <2>3 DEF Visit
  <2>. QED  BY <2>1, <2>2, <2>4
<1>5. \A k \in 1..n, s \in Tally : next(k, s) \in Tally
  BY <1>4, TallyAdds
<1>. HIDE DEF n, none
<1>6. \A k \in 1..n, s \in Tally : step[<<k, s>>] = next(k, s)
  OBVIOUS
<1>7. step \in [(1..n) \X Tally -> Tally]
  <2>1. \A x \in (1..n) \X Tally : next(x[1], x[2]) \in Tally
    BY <1>5
  <2>. HIDE DEF next
  <2>. QED  BY <2>1, Zenon
<1>. HIDE DEF step
<1>8. PICK g : Recursion(g, Tally, n, none, step)
  BY <1>1, <1>3, <1>7, RecursionIs, Zenon
<1>9. \A k \in 1..n : k - 1 \in 0..n /\ k \in 0..n /\ k # 0
  BY <1>1
<1>10. \A k \in 0..n : k = 0 \/ k \in 1..n
  BY <1>1
<1>11. Unfolds(g)
  <2>1. ASSUME NEW k \in 1..n
        PROVE  g[k] = IF k = 1 THEN g[0]
                      ELSE AddDwell(g[k - 1], r[k - 1].place, Capped(r[k].t - r[k - 1].t))
    <3>1. g[k] = next(k, g[k - 1])
      <4>1. g[k - 1] \in Tally /\ g[k] = step[<<k, g[k - 1]>>]
        BY <1>8, <1>9 DEF Recursion
      <4>. HIDE DEF next
      <4>. QED  BY <1>6, <4>1
    <3>2. k = 1 => k - 1 = 0
      OBVIOUS
    <3>. QED  BY <3>1, <3>2
  <2>2. \A k \in 0..n :
          g[k] = IF k = 0 THEN none
                 ELSE IF k = 1 THEN g[0]
                 ELSE AddDwell(g[k - 1], r[k - 1].place, Capped(r[k].t - r[k - 1].t))
    BY <1>8, <1>9, <1>10, <2>1, Zenon DEF Recursion
  <2>3. g = [k \in 0..n |-> g[k]]
    BY <1>8 DEF Recursion
  <2>. QED  BY <2>2, <2>3, Zenon
<1>12. Unfolds(some)
  BY <1>11, Zenon
<1>. HIDE DEF some
<1>13. \A k \in 0..n :
         some[k] = IF k = 0 THEN none
                   ELSE IF k = 1 THEN some[0]
                   ELSE AddDwell(some[k - 1], r[k - 1].place, Capped(r[k].t - r[k - 1].t))
  BY <1>12, Zenon
<1>. DEFINE P == {k \in 0..n : Tallied(some[k], r, Before(k))}
<1>14. 0 \in P /\ some[0] = none
  <2>1. 0 \in 0..n
    BY <1>1
  <2>. QED  BY <1>3, <1>13, <2>1
<1>15. ASSUME NEW k \in 1..n, k - 1 \in P PROVE k \in P
  <2>1. k \in 0..n
    BY <1>9
  <2>2. CASE k = 1
    <3>1. some[k] = none /\ Before(k) = 0
      BY <1>13, <1>14, <2>1, <2>2
    <3>. QED  BY <1>3, <2>1, <3>1
  <2>3. CASE k # 1
    <3>1. PICK j \in 1..n : j = k - 1
      BY <1>4, <2>3
    <3>2. some[k] = AddDwell(some[j], r[j].place, WaitAt(r, j))
      BY <1>4, <1>9, <1>13, <2>1, <2>3, <3>1
    <3>3. Before(j) = j - 1 /\ Before(k) = j
      BY <1>9, <3>1
    <3>4. Tallied(some[j], r, j - 1)
      BY <1>15, <3>1, <3>3
    <3>5. Tallied(some[k], r, j)
      BY <1>1, <3>2, <3>4, TallyGrows DEF n
    <3>. QED  BY <2>1, <3>3, <3>5
  <2>. QED  BY <2>2, <2>3
<1>16. n \in P
  <2>1. n \in 0..n
    BY <1>1
  <2>. HIDE DEF P
  <2>. QED  BY <1>1, <1>14, <1>15, <2>1, UpTo
<1>17. CASE n = 0
  BY <1>1, <1>2, <1>3, <1>14, <1>17 DEF r, n
<1>18. CASE n # 0
  <2>1. n \in 1..n /\ Before(n) = n - 1
    BY <1>1, <1>18
  <2>2. Tallied(some[n], r, n - 1)
    BY <1>16, <2>1
  <2>3. WaitAt(r, n) = DwellCap /\ Last(r) = r[n] /\ r # <<>>
    BY <1>1, <1>18, <2>1, WaitIs DEF n
  <2>4. Tallied(AddDwell(some[n], r[n].place, WaitAt(r, n)), r, n)
    BY <1>1, <2>1, <2>2, TallyGrows DEF n
  <2>5. aggregate_dwell(since) = AddDwell(some[n], r[n].place, WaitAt(r, n))
    BY <1>2, <2>3
  <2>. QED  BY <2>4, <2>5 DEF r, n
<1>. QED  BY <1>17, <1>18

(* location_trace and location_breakdown: a trace that is cut where the    *)
(* place changes, and the time at each place.                              *)
LEMMA JourneyTraced == HistoryOK => JourneyAsMeant
<1>. SUFFICES ASSUME HistoryOK, NEW since PROVE JourneyFrom(since)
  BY DEF JourneyAsMeant
<1>. DEFINE r == location_event_stream(since)
            out == Reverse(location_trace(since))
<1>1. r = location_event_stream(since) /\ out = Reverse(location_trace(since))
  OBVIOUS
<1>. HIDE DEF r, out
<1>2. r \in Seq(Visit) /\ Len(r) \in Nat /\ DOMAIN r = 1..Len(r)
  BY <1>1, StreamIs
<1>3. PICK q : q = collapse_to_trace(r)
  OBVIOUS
<1>4. IsTrace(q, r, Len(r)) /\ q \in Seq(Entry)
  BY <1>2, <1>3, CollapsesToTrace DEF IsTrace
<1>5. IsTrace(out, r, Len(r)) /\ out \in Seq(Entry)
  <2>1. Reverse(location_trace(since)) = q
    BY <1>1, <1>3, <1>4, ReverseIs DEF location_trace
  <2>. QED  BY <1>1, <1>4, <2>1
<1>. DEFINE m == Len(out)
            f == [n \in DOMAIN out |-> out[n].event_count]
            upTo == Totals(f, m)
<1>6. m \in Nat /\ DOMAIN out = 1..m /\ \A n \in 1..m : out[n] \in Entry
  BY <1>5
<1>7. PICK c : /\ c \in [0..m -> Nat] /\ c[0] = 0 /\ c[m] = Len(r)
               /\ \A n \in 1..m : EntryOf(out, r, c, n)
  BY <1>5 DEF IsTrace, Counted
<1>8. \A n \in 1..m : f[n] = out[n].event_count /\ f[n] \in Nat
  BY <1>6 DEF Entry
<1>. HIDE DEF f, m
<1>9. upTo \in [0..m -> Nat] /\ upTo[0] = 0 /\ \A n \in 1..m : upTo[n] = upTo[n - 1] + f[n]
  BY <1>6, <1>8, TotalsAre
<1>. HIDE DEF upTo
<1>10. \A n \in 0..m : upTo[n] = c[n]
  <2>. DEFINE P == {n \in 0..m : upTo[n] = c[n]}
  <2>1. 0 \in P
    BY <1>6, <1>7, <1>9
  <2>2. ASSUME NEW n \in 1..m, n - 1 \in P PROVE n \in P
    <3>1. c[n] = c[n - 1] + out[n].event_count
      BY <1>7 DEF EntryOf
    <3>2. n \in 0..m
      BY <1>6
    <3>. QED  BY <1>8, <1>9, <2>2, <3>1, <3>2
  <2>. HIDE DEF P
  <2>3. \A n \in 0..m : n \in P
    BY <1>6, <2>1, <2>2, UpTo
  <2>. QED  BY <2>3 DEF P
<1>11. upTo[m] = Len(r)
  BY <1>6, <1>7, <1>10
<1>12. ASSUME NEW n \in DOMAIN out
       PROVE  /\ n > 1 => out[n].place # out[n - 1].place
              /\ out[n].started_at = r[upTo[n - 1] + 1].t /\ out[n].ended_at = r[upTo[n]].t
              /\ \A i \in (upTo[n - 1] + 1)..upTo[n] : r[i].place = out[n].place
  <2>1. n \in 1..m /\ n \in 0..m /\ n - 1 \in 0..m
    BY <1>6
  <2>2. EntryOf(out, r, c, n) /\ upTo[n] = c[n] /\ upTo[n - 1] = c[n - 1]
    BY <1>7, <1>10, <2>1
  <2>. QED  BY <2>2 DEF EntryOf
<1>13. ASSUME NEW p \in Places
       PROVE  aggregate_dwell(since)[p] =
                [dwell |-> Spent(r, p)[Len(r)], visits |-> Cardinality({i \in DOMAIN r : r[i].place = p})]
  <2>1. PICK s : s = aggregate_dwell(since)
    OBVIOUS
  <2>2. Tallied(s, r, Len(r))
    BY <1>1, <2>1, DwellIs
  <2>3. s[p] \in [dwell : Nat, visits : Nat] /\ s[p].dwell = Spent(r, p)[Len(r)]
        /\ s[p].visits = Cardinality(VisitsTo(r, p, Len(r)))
    BY <2>2 DEF Tallied, Tally
  <2>4. VisitsTo(r, p, Len(r)) = {i \in DOMAIN r : r[i].place = p}
    BY <1>2 DEF VisitsTo
  <2>5. s[p] = [dwell |-> s[p].dwell, visits |-> s[p].visits]
    BY <2>3
  <2>. QED  BY <2>1, <2>3, <2>4, <2>5
<1>14. \A p : Spent(r, p) = Totals([i \in DOMAIN r |->
                 IF r[i].place = p
                 THEN IF i = Len(r) THEN DwellCap ELSE Min({DwellCap, r[i + 1].t - r[i].t}) ELSE 0], Len(r))
  BY Zenon DEF Spent, WaitAt
<1>15. \A p \in Places :
         aggregate_dwell(since)[p] =
           [dwell |-> Totals([i \in DOMAIN r |->
                        IF r[i].place = p
                        THEN IF i = Len(r) THEN DwellCap ELSE Min({DwellCap, r[i + 1].t - r[i].t})
                        ELSE 0], Len(r))[Len(r)],
            visits |-> Cardinality({i \in DOMAIN r : r[i].place = p})]
  BY Zenon, <1>13, <1>14
<1>. QED  BY Zenon, <1>11, <1>12, <1>15 DEF JourneyFrom, r, out, upTo, f, m

(* location_current agrees with the trace.                                 *)
LEMMA CurrentIsLast == HistoryOK => CurrentAsMeant
<1>. SUFFICES ASSUME HistoryOK PROVE CurrentAsMeant
  OBVIOUS
<1>. DEFINE r == location_event_stream(0)
            rows == LocationRows(0)
            out == collapse_to_trace(r)
            trace == location_trace(0)
            n == Len(r)
            now == IF history = <<>> THEN 0 ELSE Last(history).t
<1>1. /\ r \in Seq(Visit) /\ n \in Nat /\ rows \in Seq(HistoryRow) /\ Len(rows) = n
      /\ \A i \in 1..n : r[i] = [t |-> rows[i].t, place |-> resolve_place(rows[i].kind)]
  BY StreamIs
<1>2. IsTrace(out, r, n) /\ out \in Seq(Entry)
  BY <1>1, CollapsesToTrace DEF IsTrace
<1>3. /\ out = <<>> <=> n = 0
      /\ out # <<>> => out[Len(out)].ended_at = r[n].t /\ out[Len(out)].place = r[n].place
  BY <1>1, <1>2, TraceEnds
<1>4. /\ trace = <<>> <=> out = <<>>
      /\ out # <<>> => trace[1] = out[Len(out)]
  BY <1>2, ReverseIs DEF location_trace
<1>5. {e \in ToSet(history) : e.kind \in LocationEvents /\ e.t >= 0}
        = {e \in ToSet(history) : e.kind \in LocationEvents}
  <2>1. \A e \in ToSet(history) : e.t \in Nat
    BY HistoryRows DEF ToSet, HistoryRow
  <2>. QED  BY <2>1
<1>6. latest_location = IF rows = <<>> THEN <<>> ELSE <<Last(rows)>>
  BY <1>5 DEF latest_location, LocationRows
<1>7. (rows = <<>> <=> n = 0) /\ (n # 0 => Last(rows) = rows[n] /\ n \in 1..n)
  BY <1>1 DEF Last
<1>. HIDE DEF r, rows, out, trace, n
<1>8. n # 0 => r[n].t = rows[n].t /\ r[n].place = resolve_place(rows[n].kind)
  <2>1. SUFFICES ASSUME n # 0 PROVE r[n].t = rows[n].t /\ r[n].place = resolve_place(rows[n].kind)
    OBVIOUS
  <2>2. PICK x, y : x = rows[n].t /\ y = resolve_place(rows[n].kind)
    OBVIOUS
  <2>3. r[n] = [t |-> x, place |-> y]
    BY <1>1, <1>7, <2>1, <2>2
  <2>. QED  BY <2>2, <2>3
<1>9. location_current(now) =
        IF trace = <<>> THEN None
        ELSE IF trace[1].ended_at < now - Staleness THEN None ELSE trace[1].place
  <2>. HIDE DEF now
  <2>1. CASE n = 0
    BY <1>3, <1>4, <1>6, <1>7, <2>1 DEF location_current
  <2>2. CASE n # 0
    <3>1. trace # <<>> /\ trace[1].ended_at = rows[n].t /\ trace[1].place = resolve_place(rows[n].kind)
      BY <1>3, <1>4, <1>8, <2>2
    <3>2. latest_location = <<rows[n]>> /\ latest_location # <<>> /\ latest_location[1] = rows[n]
      BY <1>6, <1>7, <2>2
    <3>3. location_current(now) = IF latest_location[1].t < now - Staleness THEN None
                                  ELSE resolve_place(latest_location[1].kind)
      BY <3>2 DEF location_current
    <3>. QED  BY <3>1, <3>2, <3>3
  <2>. QED  BY <2>1, <2>2
<1>. QED  BY <1>9 DEF CurrentAsMeant, trace

LEMMA HistoryAsMeant == HistoryOK => StatsAsMeant
BY SessionsPartition, JourneyTraced, CurrentIsLast, TimelineWhole, PairsOfHistory DEF StatsAsMeant
-----------------------------------------------------------------------------
(* ReferenceData, the catalogue.  The records the wiki may publish.        *)
Records == UNION {ToSet(list) : list \in Catalogues}
Stages == {"fetch", "store", "sleep"}
RefreshType ==
  [at : Stages, cat : 1..2, page : Nat \ {0}, fetched : Seq(Records), failed : BOOLEAN]

(* A fetch that saw no edit has the pages before the one it asks for, and  *)
(* at the end the whole list.                                              *)
FetchKnows ==
  refresh.at # "sleep" /\ fetchedFrom # "changed" =>
    /\ fetchedFrom = wiki[ThisCategory]
    /\ refresh.at = "fetch" =>
         /\ (refresh.page - 1) * WikiPageLimit <= Len(fetchedFrom)
         /\ refresh.fetched = SubSeq(fetchedFrom, 1, (refresh.page - 1) * WikiPageLimit)
    /\ refresh.at = "store" => refresh.fetched = fetchedFrom

(* The rows of a category have numbers as keys, each once.                 *)
Keyed(rows) ==
  /\ IsFiniteSet(rows)
  /\ \A r \in rows : r.class_name \in Nat
  /\ \A r, s \in rows : r.class_name = s.class_name => r = s

(* Entries of a page, and which of them are the last with their key.       *)
Entries(shown) ==
  \E m \in Nat : DOMAIN shown = 1..m /\ \A k \in 1..m : shown[k].class_name \in Nat
LastWithKey(shown, k) ==
  \A j \in DOMAIN shown : shown[j].class_name = shown[k].class_name => j <= k
ShownBy(shown, rows) == \A k \in DOMAIN shown : LastWithKey(shown, k) => shown[k] \in rows

CatalogueInv ==
  /\ refresh \in RefreshType
  /\ wiki \in [Categories -> Catalogues]
  /\ registry = [c \in Categories |-> registry[c]] /\ \A c \in Categories : Keyed(registry[c])
  /\ wholeOf \in [Categories -> Seq(Records)]
  /\ \A c \in Categories : ShownBy(parse_category_page(wholeOf[c]), registry[c])
  /\ FetchKnows

LEMMA CataloguesAre ==
  /\ Catalogues \subseteq Seq(Records)
  /\ \A rec \in Records : IdsOf(rec) # {} => Key(rec) \in Nat
<1>1. ASSUME NEW list \in Catalogues PROVE list \in Seq(Records)
  <2>1. list \in Seq(ToSet(list)) /\ ToSet(list) \subseteq Records
    BY ReferenceCatalogues DEF Records
  <2>2. Len(list) \in Nat /\ DOMAIN list = 1..Len(list) /\ \A k \in 1..Len(list) : list[k] \in Records
    BY <2>1
  <2>. QED  BY <2>1, <2>2
<1>2. ASSUME NEW rec \in Records, IdsOf(rec) # {} PROVE Key(rec) \in Nat
  BY <1>2, ReferenceCatalogues DEF Records
<1>. QED  BY <1>1, <1>2

LEMMA CategoriesAre ==
  /\ Len(CategoryOrder) = 2 /\ CategoryOrder[1] = "vehicle" /\ CategoryOrder[2] = "item"
  /\ Categories = {"vehicle", "item"}
  /\ \A k \in 1..2 : CategoryOrder[k] \in Categories
<1>1. DOMAIN CategoryOrder = 1..2 /\ Len(CategoryOrder) = 2
      /\ CategoryOrder[1] = "vehicle" /\ CategoryOrder[2] = "item"
  BY DEF CategoryOrder
<1>2. \A k \in 1..2 : k = 1 \/ k = 2
  OBVIOUS
<1>3. 1 \in 1..2 /\ 2 \in 1..2
  OBVIOUS
<1>4. Categories = {CategoryOrder[k] : k \in 1..2}
  BY <1>1 DEF Categories, Range
<1>. QED  BY <1>1, <1>2, <1>3, <1>4

LEMMA ParsedEntries ==
  ASSUME NEW page \in Seq(Records)
  PROVE  Entries(parse_category_page(page))
<1>. DEFINE S == {rec \in ToSet(page) : IdsOf(rec) # {}}
            usable == Filtered(page, S)
            m == Len(usable)
<1>1. usable \in Seq(Records) /\ ToSet(usable) = ToSet(page) \cap S
  BY FilteredItems
<1>2. ToSet(page) \subseteq Records
  BY DEF ToSet
<1>3. m \in Nat /\ DOMAIN usable = 1..m /\ \A k \in 1..m : usable[k] \in Records /\ IdsOf(usable[k]) # {}
  <2>. HIDE DEF usable
  <2>1. m \in Nat /\ DOMAIN usable = 1..m
    BY <1>1
  <2>2. \A k \in 1..m : usable[k] \in ToSet(usable)
    BY <2>1 DEF ToSet
  <2>3. \A k \in 1..m : usable[k] \in ToSet(page) /\ IdsOf(usable[k]) # {}
    BY <1>1, <2>2
  <2>. QED  BY <1>2, <2>1, <2>3
<1>4. parse_category_page(page)
        = [k \in DOMAIN usable |-> [class_name |-> Key(usable[k]), body |-> usable[k].body]]
  BY DEF parse_category_page
<1>. HIDE DEF usable, m
<1>5. DOMAIN parse_category_page(page) = 1..m
      /\ \A k \in 1..m : parse_category_page(page)[k].class_name \in Nat
  BY <1>3, <1>4, CataloguesAre
<1>. QED  BY <1>3, <1>5 DEF Entries

(* Whatever was there, the last entry of each key is, and keys stay unique.*)
LEMMA UpsertedIs ==
  ASSUME NEW rows, Keyed(rows), NEW entries, Entries(entries)
  PROVE  Keyed(Upserted(rows, entries)) /\ ShownBy(entries, Upserted(rows, entries))
<1>. DEFINE keys == {entries[k].class_name : k \in DOMAIN entries}
            With(key) == {k \in DOMAIN entries : entries[k].class_name = key}
            last(key) == Max(With(key))
            old == {r \in rows : r.class_name \notin keys}
            new == {entries[last(key)] : key \in keys}
<1>1. PICK m \in Nat : DOMAIN entries = 1..m /\ \A k \in 1..m : entries[k].class_name \in Nat
  BY DEF Entries
<1>2. \A key \in keys : /\ last(key) \in DOMAIN entries /\ entries[last(key)].class_name = key
                        /\ \A j \in With(key) : j <= last(key)
  <2>1. TAKE key \in keys
  <2>2. With(key) \subseteq 0..m /\ With(key) # {}
    BY <1>1
  <2>3. Max(With(key)) \in With(key) /\ \A j \in With(key) : j <= Max(With(key))
    BY <1>1, <2>2, MinMaxIs
  <2>. QED  BY <2>3
<1>3. Upserted(rows, entries) = old \cup new
  BY DEF Upserted
<1>4. \A key \in keys : key \in Nat
  BY <1>1
<1>5. IsFiniteSet(new)
  <2>. DEFINE g == [k \in DOMAIN entries |-> entries[last(entries[k].class_name)]]
  <2>1. g \in Surjection(DOMAIN entries, new)
    <3>1. g \in [DOMAIN entries -> new]
      OBVIOUS
    <3>2. \A r \in new : \E k \in DOMAIN entries : g[k] = r
      OBVIOUS
    <3>. QED  BY <3>1, <3>2 DEF Surjection
  <2>2. IsFiniteSet(DOMAIN entries)
    BY <1>1, FS_Interval
  <2>. QED  BY <2>1, <2>2, FS_Surjection
<1>6. IsFiniteSet(old)
  BY FS_Subset DEF Keyed
<1>7. IsFiniteSet(old \cup new)
  BY <1>5, <1>6, FS_Union
<1>8. \A r \in new : r.class_name \in keys /\ r.class_name \in Nat /\ r = entries[last(r.class_name)]
  <2>1. TAKE r \in new
  <2>2. PICK key \in keys : r = entries[last(key)]
    OBVIOUS
  <2>. HIDE DEF last, keys
  <2>. QED  BY <1>2, <1>4, <2>2
<1>9. \A r \in old : r.class_name \notin keys /\ r \in rows
  OBVIOUS
<1>. HIDE DEF old, new, last, keys
<1>10. Keyed(old \cup new)
  <2>1. \A r \in old \cup new : r.class_name \in Nat
    BY <1>8, <1>9 DEF Keyed
  <2>2. ASSUME NEW r \in old \cup new, NEW s \in old \cup new, r.class_name = s.class_name
        PROVE  r = s
    <3>1. r \in new <=> s \in new
      BY <1>8, <1>9, <2>2
    <3>2. CASE r \in new
      BY <1>8, <2>2, <3>1, <3>2
    <3>3. CASE r \notin new
      BY <1>9, <2>2, <3>1, <3>3 DEF Keyed
    <3>. QED  BY <3>2, <3>3
  <2>. QED  BY <1>7, <2>1, <2>2 DEF Keyed
<1>11. ASSUME NEW k \in DOMAIN entries, LastWithKey(entries, k) PROVE entries[k] \in new
  <2>. DEFINE key == entries[k].class_name
  <2>1. key \in keys /\ k \in With(key)
    BY DEF keys
  <2>2. last(key) \in DOMAIN entries /\ entries[last(key)].class_name = key /\ k <= last(key)
    BY <1>2, <2>1
  <2>3. last(key) <= k
    BY <1>11, <2>2 DEF LastWithKey
  <2>4. k = last(key)
    BY <1>1, <2>2, <2>3
  <2>. QED  BY <2>1, <2>4 DEF new
<1>. QED  BY <1>3, <1>10, <1>11 DEF ShownBy

(* The next page continues the list up to its end, or fills up.            *)
LEMMA TwoNumbers ==
  ASSUME NEW a \in Nat, NEW b \in Nat
  PROVE  /\ Min({a, b}) = IF a <= b THEN a ELSE b
         /\ Max({a, b}) = IF a <= b THEN b ELSE a
<1>1. {a, b} \subseteq 0..(a + b) /\ {a, b} # {} /\ a + b \in Nat
  OBVIOUS
<1>2. /\ Min({a, b}) \in {a, b} /\ \A x \in {a, b} : Min({a, b}) <= x
      /\ Max({a, b}) \in {a, b} /\ \A x \in {a, b} : x <= Max({a, b})
  BY <1>1, MinMaxIs
<1>. QED  BY <1>2

LEMMA NextPageIs ==
  ASSUME NEW A, NEW list \in Seq(A), NEW p \in Nat \ {0}, (p - 1) * WikiPageLimit <= Len(list)
  PROVE  LET got == SubSeq(list, 1, (p - 1) * WikiPageLimit) \o PageOf(list, p)
         IN /\ p >= LastPage(list) => got = list
            /\ p < LastPage(list) =>
                 p * WikiPageLimit <= Len(list) /\ got = SubSeq(list, 1, p * WikiPageLimit)
<1>. DEFINE L == WikiPageLimit
            n == Len(list)
            x == (p - 1) * L
            q == (n + L - 1) \div L
            got == SubSeq(list, 1, x) \o PageOf(list, p)
<1>1. L \in Nat \ {0} /\ n \in Nat
  BY ReferenceLimits
<1>2. x \in Nat /\ p * L = x + L
  <2>1. \A a \in Nat, b \in Nat : a * b \in Nat /\ (a + 1) * b = a * b + b
    OBVIOUS
  <2>2. p - 1 \in Nat /\ p = (p - 1) + 1
    OBVIOUS
  <2>. QED  BY <1>1, <2>1, <2>2
<1>3. q \in Nat /\ q * L <= n + L - 1 /\ n + L - 1 < q * L + L /\ q * L \in Nat
  <2>1. n + L - 1 \in Nat
    BY <1>1
  <2>2. q \in Int /\ q * L <= n + L - 1 /\ n + L - 1 < q * L + L
    BY <1>1, <2>1, DivisionIs
  <2>. HIDE DEF q
  <2>3. ~(q <= 0 - 1)
    <3>1. SUFFICES ASSUME q <= 0 - 1 PROVE FALSE
      OBVIOUS
    <3>2. PICK d \in Nat : q = 0 - 1 - d
      <4>1. 0 - 1 - q \in Nat /\ q = 0 - 1 - (0 - 1 - q)
        BY <2>2, <3>1
      <4>. QED  BY <4>1
    <3>3. q * L + L = 0 - d * L /\ d * L >= 0
      BY <1>1, <3>2
    <3>4. q * L \in Int /\ d * L \in Nat
      BY <1>1, <2>2
    <3>. QED  BY <1>1, <2>1, <2>2, <3>3, <3>4
  <2>4. q \in Nat
    BY <2>2, <2>3
  <2>5. q * L \in Nat
    BY <1>1, <2>4
  <2>. QED  BY <2>2, <2>4, <2>5
<1>4. LastPage(list) = IF 1 <= q THEN q ELSE 1
  BY <1>3, TwoNumbers DEF LastPage
<1>5. PageOf(list, p) = SubSeq(list, x + 1, IF x + L <= n THEN x + L ELSE n)
  <2>1. x + L \in Nat
    BY <1>1, <1>2
  <2>. HIDE DEF x, L, n
  <2>2. Min({x + L, n}) = IF x + L <= n THEN x + L ELSE n
    BY <1>1, <2>1, TwoNumbers
  <2>3. PageOf(list, p) = SubSeq(list, x + 1, Min({x + L, n}))
    BY Zenon, <1>2 DEF PageOf, x, L, n
  <2>. QED  BY <2>2, <2>3
<1>6. \A k \in Nat : k < p => k * L <= x
  <2>1. TAKE k \in Nat
  <2>2. SUFFICES ASSUME k < p PROVE k * L <= x
    OBVIOUS
  <2>3. PICK d \in Nat : p - 1 = k + d
    <3>1. p - 1 - k \in Nat /\ p - 1 = k + (p - 1 - k)
      BY <2>2
    <3>. QED  BY <3>1
  <2>4. (k + d) * L = k * L + d * L /\ k * L \in Nat /\ d * L \in Nat
    BY <1>1
  <2>. QED  BY <2>3, <2>4
<1>7. q > p => x + L + L <= q * L
  <2>1. SUFFICES ASSUME q > p PROVE x + L + L <= q * L
    OBVIOUS
  <2>2. PICK d \in Nat : q = p + 1 + d
    <3>1. q - p - 1 \in Nat /\ q = p + 1 + (q - p - 1)
      BY <1>3, <2>1
    <3>. QED  BY <3>1
  <2>3. (p + 1 + d) * L = p * L + L + d * L /\ d * L \in Nat /\ p * L \in Nat
    BY <1>1
  <2>. QED  BY <1>1, <1>2, <2>2, <2>3
<1>8. p >= q => q * L <= x + L
  <2>1. CASE q < p
    BY <1>1, <1>2, <1>3, <1>6, <2>1
  <2>2. CASE q = p
    <3>. HIDE DEF q, x, L
    <3>1. q * L = x + L
      BY <1>2, <2>2, Zenon
    <3>2. x + L \in Nat
      BY <1>1, <1>2
    <3>. QED  BY <3>1, <3>2
  <2>. QED  BY <1>3, <2>1, <2>2
<1>. HIDE DEF q, x, n, L
<1>9. \A y \in x..n : SubSeq(list, 1, x) \o SubSeq(list, x + 1, y) = SubSeq(list, 1, y)
  BY <1>1, <1>2, ConcatAdjacentSubSeq DEF n
<1>10. ASSUME p >= LastPage(list) PROVE got = list
  <2>1. p >= q
    BY <1>3, <1>4, <1>10
  <2>2. n <= x + L
    BY <1>1, <1>2, <1>3, <1>8, <2>1
  <2>3. PageOf(list, p) = SubSeq(list, x + 1, n)
    BY <1>1, <1>2, <1>5, <2>2
  <2>4. n \in x..n
    BY <1>1, <1>2 DEF n, x, L
  <2>5. SubSeq(list, 1, x) \o SubSeq(list, x + 1, n) = SubSeq(list, 1, n)
    BY <1>9, <2>4
  <2>6. SubSeq(list, 1, n) = list
    BY SubSeqFull DEF n
  <2>. QED  BY <2>3, <2>5, <2>6
<1>11. ASSUME p < LastPage(list) PROVE x + L <= n /\ got = SubSeq(list, 1, x + L)
  <2>1. p < q
    BY <1>3, <1>4, <1>11
  <2>2. x + L <= n
    BY <1>1, <1>2, <1>3, <1>7, <2>1
  <2>3. got = SubSeq(list, 1, x + L)
    BY <1>1, <1>2, <1>5, <1>9, <2>2
  <2>. QED  BY <2>2, <2>3
<1>. QED  BY Zenon, <1>2, <1>10, <1>11 DEF x, L, n

(* The task keeps its types and what its fetch knows.                      *)
LEMMA CategoryBegins ==
  ASSUME NEW cat \in 1..2, NEW failed \in BOOLEAN, wiki \in [Categories -> Catalogues],
         refresh' = [Fetching(cat) EXCEPT !.failed = failed] \/ refresh' = Fetching(cat),
         fetchedFrom' = wiki[CategoryOrder[cat]], wiki' = wiki
  PROVE  refresh' \in RefreshType /\ FetchKnows'
<1>. DEFINE list == wiki[CategoryOrder[cat]]
<1>1. \E f \in BOOLEAN : refresh' = [at |-> "fetch", cat |-> cat, page |-> 1, fetched |-> <<>>, failed |-> f]
  BY DEF Fetching
<1>2. refresh' \in RefreshType /\ refresh'.at = "fetch" /\ refresh'.cat = cat /\ refresh'.page = 1
      /\ refresh'.fetched = <<>>
  BY <1>1 DEF RefreshType, Stages
<1>3. list \in Seq(Records) /\ Len(list) \in Nat
  BY CategoriesAre, CataloguesAre
<1>4. (refresh'.page - 1) * WikiPageLimit = 0
  BY <1>2, ReferenceLimits
<1>5. SubSeq(list, 1, 0) = <<>>
  BY SubSeqEmpty
<1>6. ThisCategory' = CategoryOrder[cat]
  BY <1>2 DEF ThisCategory
<1>7. fetchedFrom' = list /\ wiki'[ThisCategory'] = list
  BY <1>6
<1>. HIDE DEF list
<1>. QED  BY <1>2, <1>3, <1>4, <1>5, <1>7 DEF FetchKnows

LEMMA CategoryGoes ==
  ASSUME CatalogueInv, NEW failed \in BOOLEAN, NextCategory(failed), wiki' = wiki
  PROVE  refresh' \in RefreshType /\ FetchKnows'
<1>1. refresh.cat \in 1..2 /\ wiki \in [Categories -> Catalogues] /\ refresh \in RefreshType
  BY DEF CatalogueInv, RefreshType
<1>2. CASE refresh.cat < Len(CategoryOrder)
  <2>1. refresh.cat + 1 \in 1..2
    BY <1>1, <1>2, CategoriesAre
  <2>2. /\ refresh' = [Fetching(refresh.cat + 1) EXCEPT !.failed = failed]
        /\ fetchedFrom' = wiki[CategoryOrder[refresh.cat + 1]]
    BY <1>2 DEF NextCategory
  <2>. QED  BY <1>1, <2>1, <2>2, CategoryBegins
<1>3. CASE ~(refresh.cat < Len(CategoryOrder))
  <2>1. refresh' = [refresh EXCEPT !.at = "sleep", !.fetched = <<>>, !.failed = failed]
    BY <1>3 DEF NextCategory
  <2>2. <<>> \in Seq(Records)
    OBVIOUS
  <2>3. refresh' \in RefreshType /\ refresh'.at = "sleep"
    BY <1>1, <2>1, <2>2 DEF RefreshType, Stages
  <2>. QED  BY <2>3 DEF FetchKnows
<1>. QED  BY <1>2, <1>3

LEMMA PageIsRecords ==
  ASSUME NEW list \in Seq(Records), NEW p \in Nat \ {0}
  PROVE  PageOf(list, p) \in Seq(Records)
<1>. DEFINE x == (p - 1) * WikiPageLimit
            y == Min({p * WikiPageLimit, Len(list)})
<1>1. \A a \in Nat, b \in Nat : a * b \in Nat
  OBVIOUS
<1>2. WikiPageLimit \in Nat /\ Len(list) \in Nat /\ p - 1 \in Nat /\ p \in Nat
  BY ReferenceLimits
<1>3. x \in Nat /\ p * WikiPageLimit \in Nat
  BY <1>1, <1>2
<1>4. y \in Nat /\ y <= Len(list)
  BY <1>2, <1>3, TwoNumbers
<1>5. PageOf(list, p) = SubSeq(list, x + 1, y)
  BY DEF PageOf
<1>. HIDE DEF x, y
<1>6. \A i \in (x + 1)..y : list[i] \in Records
  BY <1>2, <1>3, <1>4
<1>. QED  BY <1>3, <1>4, <1>5, <1>6, SubSeqProperties

LEMMA FetchGoes ==
  ASSUME CatalogueInv, fetch_category
  PROVE  refresh' \in RefreshType /\ FetchKnows'
<1>. DEFINE list == wiki[ThisCategory]
            page == PageOf(list, refresh.page)
            all == refresh.fetched \o page
            p == refresh.page
<1>1. refresh \in RefreshType /\ refresh.at = "fetch" /\ p \in Nat \ {0} /\ refresh.cat \in 1..2
      /\ refresh.fetched \in Seq(Records)
  BY DEF CatalogueInv, RefreshType, fetch_category
<1>2. list \in Seq(Records)
  BY <1>1, CategoriesAre, CataloguesAre DEF CatalogueInv, ThisCategory
<1>3. all \in Seq(Records)
  BY <1>1, <1>2, PageIsRecords, ConcatProperties
<1>4. wiki' = wiki
  BY DEF fetch_category
<1>5. fetchedFrom # "changed" =>
        /\ fetchedFrom = list
        /\ (p - 1) * WikiPageLimit <= Len(list)
        /\ all = SubSeq(list, 1, (p - 1) * WikiPageLimit) \o PageOf(list, p)
  BY <1>1 DEF CatalogueInv, FetchKnows
<1>6. fetchedFrom # "changed" =>
        /\ p >= LastPage(list) => all = list
        /\ p < LastPage(list) =>
             p * WikiPageLimit <= Len(list) /\ all = SubSeq(list, 1, p * WikiPageLimit)
  BY <1>1, <1>2, <1>5, NextPageIs
<1>7. \/ /\ p >= LastPage(list)
         /\ refresh' = [refresh EXCEPT !.at = "store", !.fetched = all] /\ fetchedFrom' = fetchedFrom
      \/ /\ p < LastPage(list)
         /\ refresh' = [refresh EXCEPT !.page = @ + 1, !.fetched = all] /\ fetchedFrom' = fetchedFrom
      \/ /\ refresh' = [refresh EXCEPT !.at = "store", !.fetched = all] /\ fetchedFrom' = "changed"
  BY DEF fetch_category
<1>8. ThisCategory' = CategoryOrder[refresh'.cat] /\ ThisCategory = CategoryOrder[refresh.cat]
  BY DEF ThisCategory
<1>9. PICK a : a = all
  OBVIOUS
<1>. HIDE DEF all, list
<1>10. CASE refresh' = [refresh EXCEPT !.at = "store", !.fetched = a]
  <2>1. refresh' \in RefreshType /\ refresh'.at = "store" /\ refresh'.fetched = a /\ refresh'.cat = refresh.cat
    BY <1>1, <1>3, <1>9, <1>10 DEF RefreshType, Stages
  <2>2. wiki'[ThisCategory'] = list
    BY <1>4, <1>8, <2>1 DEF list
  <2>3. fetchedFrom' # "changed" => fetchedFrom' = fetchedFrom /\ p >= LastPage(list)
    <3>1. ~(refresh' = [refresh EXCEPT !.page = @ + 1, !.fetched = all])
      BY <1>1, <2>1 DEF RefreshType
    <3>. QED  BY <1>7, <3>1
  <2>. QED  BY <1>5, <1>6, <1>9, <2>1, <2>2, <2>3 DEF FetchKnows
<1>11. CASE /\ p < LastPage(list) /\ fetchedFrom' = fetchedFrom
            /\ refresh' = [refresh EXCEPT !.page = @ + 1, !.fetched = a]
  <2>. DEFINE q == p + 1
  <2>0. q \in Nat \ {0} /\ a \in Seq(Records) /\ refresh' = [refresh EXCEPT !.page = q, !.fetched = a]
    BY <1>1, <1>3, <1>9, <1>11
  <2>. HIDE DEF q
  <2>1. refresh' \in RefreshType /\ refresh'.at = "fetch" /\ refresh'.fetched = a /\ refresh'.cat = refresh.cat
        /\ refresh'.page = q
    BY <1>1, <2>0 DEF RefreshType, Stages
  <2>2. wiki'[ThisCategory'] = list
    BY <1>4, <1>8, <2>1 DEF list
  <2>3. refresh'.page - 1 = p
    BY <1>1, <2>1 DEF q
  <2>. QED  BY <1>5, <1>6, <1>9, <1>11, <2>1, <2>2, <2>3 DEF FetchKnows
<1>. QED  BY <1>7, <1>9, <1>10, <1>11

LEMMA ParsedNone == DOMAIN parse_category_page(<<>>) = {}
<1>. DEFINE none == <<>>
            S == {rec \in ToSet(none) : IdsOf(rec) # {}}
            usable == Filtered(none, S)
<1>1. none \in Seq(Records) /\ Len(none) = 0
  OBVIOUS
<1>2. Len(usable) <= 0 /\ usable \in Seq(Records)
  BY <1>1, FilteredLength, FilteredItems
<1>3. parse_category_page(none)
        = [k \in DOMAIN usable |-> [class_name |-> Key(usable[k]), body |-> usable[k].body]]
  BY DEF parse_category_page
<1>. HIDE DEF usable, none
<1>4. DOMAIN usable = {}
  BY <1>2
<1>5. DOMAIN parse_category_page(none) = {}
  BY <1>3, <1>4
<1>. QED  BY <1>5 DEF none

LEMMA CatalogueBegins == ReferenceInit => CatalogueInv
<1>. SUFFICES ASSUME ReferenceInit PROVE CatalogueInv
  OBVIOUS
<1>1. /\ wiki \in [Categories -> Catalogues] /\ registry = [c \in Categories |-> {}]
      /\ refresh = Fetching(1) /\ fetchedFrom = wiki[CategoryOrder[1]]
      /\ wholeOf = [c \in Categories |-> <<>>]
  BY DEF ReferenceInit
<1>2. refresh = [at |-> "fetch", cat |-> 1, page |-> 1, fetched |-> <<>>, failed |-> FALSE]
  BY <1>1 DEF Fetching
<1>3. refresh \in RefreshType /\ refresh.at = "fetch" /\ refresh.cat = 1 /\ refresh.page = 1
      /\ refresh.fetched = <<>>
  BY <1>2 DEF RefreshType, Stages
<1>4. \A c \in Categories : Keyed(registry[c])
  BY <1>1, FS_EmptySet DEF Keyed
<1>5. \A c \in Categories : ShownBy(parse_category_page(wholeOf[c]), registry[c])
  <2>1. TAKE c \in Categories
  <2>2. wholeOf[c] = <<>>
    BY <1>1
  <2>. QED  BY Zenon, <2>2, ParsedNone DEF ShownBy
<1>6. FetchKnows
  <2>1. PICK list : list = wiki[CategoryOrder[1]]
    OBVIOUS
  <2>2. list \in Seq(Records)
    BY <1>1, <2>1, CategoriesAre, CataloguesAre
  <2>3. Len(list) \in Nat /\ (refresh.page - 1) * WikiPageLimit = 0
    BY <1>3, <2>2, ReferenceLimits
  <2>4. SubSeq(list, 1, 0) = <<>>
    BY SubSeqEmpty
  <2>5. wiki[ThisCategory] = list /\ fetchedFrom = list
    BY <1>1, <1>3, <2>1 DEF ThisCategory
  <2>6. (refresh.page - 1) * WikiPageLimit <= Len(list)
    BY <2>3
  <2>. QED  BY <1>3, <2>3, <2>4, <2>5, <2>6 DEF FetchKnows
<1>7. wholeOf \in [Categories -> Seq(Records)]
  BY <1>1
<1>. QED  BY <1>1, <1>3, <1>4, <1>5, <1>6, <1>7 DEF CatalogueInv

LEMMA StoreStep ==
  ASSUME CatalogueInv, Store
  PROVE  CatalogueInv'
<1>. DEFINE this == ThisCategory
            entries == parse_category_page(refresh.fetched)
<1>1. PICK ok \in BOOLEAN :
        /\ registry' = [registry EXCEPT ![this] = upsert_entries(entries, ok)]
        /\ wholeOf' = IF ok THEN [wholeOf EXCEPT ![this] =
                                    IF fetchedFrom = "changed" THEN <<>> ELSE fetchedFrom]
                      ELSE wholeOf
        /\ NextCategory(refresh.failed \/ ~ok)
  BY DEF Store
<1>2. wiki' = wiki /\ refresh.at = "store"
  BY DEF Store
<1>3. this \in Categories /\ refresh.fetched \in Seq(Records) /\ Keyed(registry[this])
      /\ registry = [c \in Categories |-> registry[c]] /\ wholeOf \in [Categories -> Seq(Records)]
  BY CategoriesAre DEF CatalogueInv, RefreshType, ThisCategory
<1>4. refresh' \in RefreshType /\ FetchKnows'
  <2>1. (refresh.failed \/ ~ok) \in BOOLEAN
    OBVIOUS
  <2>. QED  BY <1>1, <1>2, <2>1, CategoryGoes
<1>5. Entries(entries)
  BY <1>3, ParsedEntries
<1>. HIDE DEF this, entries
<1>6. CASE ~ok
  <2>1. registry' = registry /\ wholeOf' = wholeOf
    <3>1. upsert_entries(entries, ok) = registry[this]
      BY <1>6 DEF upsert_entries, this
    <3>. QED  BY <1>1, <1>3, <1>6, <3>1
  <2>. QED  BY <1>2, <1>4, <2>1 DEF CatalogueInv
<1>7. CASE ok
  <2>. DEFINE rows == Upserted(registry[this], entries)
              whole == IF fetchedFrom = "changed" THEN <<>> ELSE fetchedFrom
  <2>1. registry' = [registry EXCEPT ![this] = rows] /\ wholeOf' = [wholeOf EXCEPT ![this] = whole]
    BY <1>1, <1>7 DEF upsert_entries, this
  <2>2. Keyed(rows) /\ ShownBy(entries, rows)
    BY <1>3, <1>5, UpsertedIs
  <2>3. whole = <<>> \/ whole = refresh.fetched
    BY <1>2 DEF CatalogueInv, FetchKnows
  <2>. HIDE DEF rows, whole
  <2>4. whole \in Seq(Records)
    <3>1. <<>> \in Seq(Records)
      OBVIOUS
    <3>. QED  BY Zenon, <1>3, <2>3, <3>1
  <2>5. ShownBy(parse_category_page(whole), rows)
    <3>1. CASE whole = <<>>
      BY Zenon, <3>1, ParsedNone DEF ShownBy
    <3>2. CASE whole = refresh.fetched
      BY Zenon, <2>2, <3>2 DEF entries
    <3>. QED  BY <2>3, <3>1, <3>2
  <2>6. \A c \in Categories : /\ registry'[c] = IF c = this THEN rows ELSE registry[c]
                              /\ wholeOf'[c] = IF c = this THEN whole ELSE wholeOf[c]
    BY <1>3, <2>1
  <2>7. \A c \in Categories : Keyed(registry'[c])
    BY <2>2, <2>6 DEF CatalogueInv
  <2>8. \A c \in Categories : ShownBy(parse_category_page(wholeOf'[c]), registry'[c])
    <3>1. TAKE c \in Categories
    <3>2. CASE c = this
      BY Zenon, <2>5, <2>6, <3>2
    <3>3. CASE c # this
      BY Zenon, <2>6, <3>3 DEF CatalogueInv
    <3>. QED  BY <3>2, <3>3
  <2>9. registry' = [c \in Categories |-> registry'[c]] /\ wholeOf' \in [Categories -> Seq(Records)]
    BY <1>3, <2>1, <2>4
  <2>. QED  BY <1>2, <1>4, <2>7, <2>8, <2>9 DEF CatalogueInv
<1>. QED  BY <1>6, <1>7

LEMMA CatalogueStep == CatalogueInv /\ [ReferenceNext]_refVars => CatalogueInv'
<1>. SUFFICES ASSUME CatalogueInv, [ReferenceNext]_refVars PROVE CatalogueInv'
  OBVIOUS
<1>1. ASSUME UNCHANGED <<wiki, registry, wholeOf>>, refresh' \in RefreshType, FetchKnows'
      PROVE  CatalogueInv'
  BY <1>1 DEF CatalogueInv
<1>2. CASE fetch_category
  BY <1>1, <1>2, FetchGoes DEF fetch_category
<1>3. CASE FetchFails
  BY <1>1, <1>3, CategoryGoes DEF FetchFails
<1>4. CASE Store
  BY <1>4, StoreStep
<1>5. CASE RefreshBegins
  <2>1. /\ refresh' = Fetching(1) /\ fetchedFrom' = wiki[CategoryOrder[1]]
        /\ UNCHANGED <<wiki, registry, wholeOf>>
    BY <1>5 DEF RefreshBegins
  <2>2. 1 \in 1..2 /\ wiki \in [Categories -> Catalogues]
    BY DEF CatalogueInv
  <2>3. refresh' \in RefreshType /\ FetchKnows'
    BY <2>1, <2>2, CategoryBegins
  <2>. QED  BY <1>1, <2>1, <2>3
<1>6. ASSUME NEW c \in Categories, NEW list \in Catalogues, WikiEdited(c, list)
      PROVE  CatalogueInv'
  <2>1. /\ wiki' = [wiki EXCEPT ![c] = list] /\ UNCHANGED <<registry, refresh, wholeOf>>
        /\ fetchedFrom' = IF refresh.at # "sleep" /\ c = ThisCategory THEN "changed" ELSE fetchedFrom
    BY <1>6 DEF WikiEdited
  <2>2. wiki' \in [Categories -> Catalogues]
    BY <2>1 DEF CatalogueInv
  <2>3. ThisCategory' = ThisCategory /\ ThisCategory \in Categories
    BY <2>1, CategoriesAre DEF ThisCategory, CatalogueInv, RefreshType
  <2>4. FetchKnows'
    <3>1. SUFFICES ASSUME refresh.at # "sleep", fetchedFrom' # "changed"
                   PROVE  fetchedFrom' = fetchedFrom /\ fetchedFrom # "changed" /\ wiki'[ThisCategory] = wiki[ThisCategory]
      BY <2>1, <2>3 DEF CatalogueInv, FetchKnows
    <3>2. c # ThisCategory
      BY <2>1, <3>1
    <3>. QED  BY <2>1, <2>3, <3>1, <3>2 DEF CatalogueInv
  <2>. QED  BY <2>1, <2>2, <2>4 DEF CatalogueInv
<1>7. CASE UNCHANGED refVars
  BY <1>7 DEF refVars, CatalogueInv, FetchKnows, ThisCategory
<1>. QED  BY <1>2, <1>3, <1>4, <1>5, <1>6, <1>7 DEF ReferenceNext
-----------------------------------------------------------------------------
(* A category as it is listed: its rows, each once.                        *)
LEMMA ListedIs ==
  ASSUME NEW c \in Categories, Keyed(registry[c])
  PROVE  /\ list_category(c) \in Seq(registry[c])
         /\ Len(list_category(c)) = Cardinality(registry[c])
         /\ Range(list_category(c)) = registry[c]
<1>. DEFINE S == registry[c]
            rank == [r \in S |-> r.class_name]
<1>1. rank \in [S -> Int] /\ \A x, y \in S : rank[x] = rank[y] => x = y
  BY DEF Keyed
<1>2. IsFiniteSet(S)
  BY DEF Keyed
<1>3. list_category(c) = SortedBy(S, rank)
  BY DEF list_category
<1>. HIDE DEF rank
<1>. QED  BY <1>1, <1>2, <1>3, SortedByIs DEF Range

LEMMA OneOfList ==
  ASSUME NEW A, NEW list \in Seq(A), NEW n \in 1..Len(list)
  PROVE  SubSeq(list, n, n) = <<list[n]>>
<1>1. n \in 1..Len(list) /\ n \in n..Len(list) /\ n \in Int /\ n - 1 \in Int /\ n - 1 < n
  OBVIOUS
<1>2. SubSeq(list, n, n) = SubSeq(list, n, n - 1) \o <<list[n]>>
  BY <1>1, SubSeqRecursiveSecond
<1>3. SubSeq(list, n, n - 1) = <<>>
  BY <1>1, SubSeqEmpty
<1>4. list[n] \in A
  OBVIOUS
<1>5. \A x \in A : <<>> \o <<x>> = <<x>>
  BY ConcatEmptySeq
<1>. QED  BY Zenon, <1>2, <1>3, <1>4, <1>5

LEMMA OnePage ==
  ASSUME NEW c \in Categories, Keyed(registry[c]), NEW n \in DOMAIN list_category(c)
  PROVE  list_reference_entries(c, {}, 1, n - 1).entries = <<list_category(c)[n]>>
<1>. DEFINE list == list_category(c)
            found == Filtered(list, {r \in registry[c] : {} \subseteq r.body})
<1>1. list \in Seq(registry[c]) /\ {r \in registry[c] : {} \subseteq r.body} = registry[c]
  BY ListedIs
<1>2. ToSet(list) \subseteq registry[c]
  BY <1>1 DEF ToSet
<1>3. found = list
  BY <1>1, <1>2, FilteredLength
<1>4. n \in 1..Len(list) /\ Len(list) \in Nat
  BY <1>1
<1>5. list_reference_entries(c, {}, 1, n - 1).entries
        = SubSeq(found, (n - 1) + 1, Min({(n - 1) + 1, Len(found)}))
  BY DEF list_reference_entries
<1>6. (n - 1) + 1 = n
  BY <1>4
<1>. HIDE DEF list, found
<1>7. Min({n, Len(list)}) = n
  BY <1>4, TwoNumbers
<1>8. SubSeq(list, n, n) = <<list[n]>>
  BY Zenon, <1>1, <1>4, OneOfList
<1>9. list_reference_entries(c, {}, 1, n - 1).entries = <<list[n]>>
  BY Zenon, <1>3, <1>5, <1>6, <1>7, <1>8
<1>. QED  BY <1>9 DEF list

LEMMA TotalIs ==
  ASSUME NEW c \in Categories, Keyed(registry[c])
  PROVE  list_reference_entries(c, {}, 1, 0).total = Len(list_category(c))
<1>. DEFINE list == list_category(c)
            found == Filtered(list, {r \in registry[c] : {} \subseteq r.body})
<1>1. list \in Seq(registry[c]) /\ {r \in registry[c] : {} \subseteq r.body} = registry[c]
  BY ListedIs
<1>2. ToSet(list) \subseteq registry[c]
  BY <1>1 DEF ToSet
<1>3. found = list
  BY <1>1, <1>2, FilteredLength
<1>4. list_reference_entries(c, {}, 1, 0).total = Len(found)
  BY DEF list_reference_entries
<1>. QED  BY Zenon, <1>3, <1>4

LEMMA VehiclesCounted ==
  ASSUME Keyed(registry["vehicle"])
  PROVE  Cardinality(list_vehicles) = Cardinality(registry["vehicle"])
<1>. DEFINE S == registry["vehicle"]
            f == [r \in S |-> entry_to_vehicle(r)]
<1>1. f \in Surjection(S, list_vehicles)
  BY DEF Surjection, list_vehicles
<1>2. \A r, s \in S : f[r] = f[s] => r = s
  <2>1. TAKE r, s \in S
  <2>2. SUFFICES ASSUME f[r] = f[s] PROVE r = s
    OBVIOUS
  <2>3. entry_to_vehicle(r).class_name = r.class_name /\ entry_to_vehicle(s).class_name = s.class_name
    BY DEF entry_to_vehicle
  <2>4. f[r] = entry_to_vehicle(r) /\ f[s] = entry_to_vehicle(s)
    OBVIOUS
  <2>. HIDE DEF f
  <2>. QED  BY <2>2, <2>3, <2>4 DEF Keyed
<1>. HIDE DEF f
<1>3. f \in Injection(S, list_vehicles)
  BY <1>1, <1>2 DEF Injection, Surjection, IsInjective
<1>4. f \in Bijection(S, list_vehicles)
  BY <1>1, <1>3 DEF Bijection
<1>5. ExistsBijection(S, list_vehicles)
  BY <1>4 DEF ExistsBijection
<1>6. IsFiniteSet(S)
  BY DEF Keyed
<1>. QED  BY <1>5, <1>6, FS_Bijection

LEMMA CatalogueAsMeant == CatalogueInv => CatalogueWhole
<1>. SUFFICES ASSUME CatalogueInv PROVE CatalogueWhole
  OBVIOUS
<1>1. \A c \in Categories : Keyed(registry[c]) /\ ShownBy(parse_category_page(wholeOf[c]), registry[c])
  BY DEF CatalogueInv
<1>2. ASSUME NEW c \in Categories, NEW k \in DOMAIN parse_category_page(wholeOf[c]),
             LastWithKey(parse_category_page(wholeOf[c]), k)
      PROVE  LET shown == parse_category_page(wholeOf[c])
             IN /\ reference_entry(c, shown[k].class_name) = {shown[k]}
                /\ shown[k] \in reference_entries(c)
                /\ c = "vehicle" => get_vehicle(shown[k].class_name) \subseteq list_vehicles
  <2>. DEFINE e == parse_category_page(wholeOf[c])[k]
  <2>1. e \in registry[c]
    BY <1>1, <1>2 DEF ShownBy
  <2>. HIDE DEF e
  <2>2. stored_entry(c, e.class_name) = {e}
    BY <1>1, <2>1 DEF stored_entry, Keyed
  <2>3. reference_entry(c, e.class_name) = {e}
    BY <2>2 DEF reference_entry
  <2>4. e \in reference_entries(c)
    BY <1>1, <2>1, ListedIs DEF reference_entries
  <2>5. c = "vehicle" => get_vehicle(e.class_name) \subseteq list_vehicles
    BY DEF get_vehicle, list_vehicles, stored_entry
  <2>. QED  BY <2>3, <2>4, <2>5 DEF e
<1>3. \A c \in Categories :
        /\ \A n \in DOMAIN list_category(c) :
             list_reference_entries(c, {}, 1, n - 1).entries = <<list_category(c)[n]>>
        /\ Len(list_category(c)) = list_reference_entries(c, {}, 1, 0).total
        /\ category_summaries[c] = Len(list_category(c))
        /\ c = "vehicle" => Cardinality(list_vehicles) = category_summaries[c]
  <2>1. TAKE c \in Categories
  <2>2. category_summaries[c] = Cardinality(registry[c])
    BY DEF category_summaries
  <2>3. \A n \in DOMAIN list_category(c) :
             list_reference_entries(c, {}, 1, n - 1).entries = <<list_category(c)[n]>>
    BY Zenon, <1>1, OnePage
  <2>4. Len(list_category(c)) = list_reference_entries(c, {}, 1, 0).total
    BY Zenon, <1>1, TotalIs
  <2>5. Len(list_category(c)) = Cardinality(registry[c])
    BY Zenon, <1>1, ListedIs
  <2>6. c = "vehicle" => Cardinality(list_vehicles) = Cardinality(registry[c])
    BY Zenon, <1>1, VehiclesCounted
  <2>. QED  BY Zenon, <2>2, <2>3, <2>4, <2>5, <2>6
<1>. QED  BY Zenon, <1>2, <1>3 DEF CatalogueWhole, LastWithKey
-----------------------------------------------------------------------------
(* SharingViews.  As long as no metadata write has failed, there is a row  *)
(* for each share and for nothing else.                                    *)
MetaRow == [scope : ShareScopes, expires : {"never", "later", "past"}]
ViewsInv ==
  /\ shared \subseteq SharePairs
  /\ metaRows \in [SharePairs -> MetaRow \cup {NoMeta}]
  /\ ~partial => \A p \in SharePairs : p \in shared <=> metaRows[p] # NoMeta

LEMMA MetaRows ==
  /\ \A row \in MetaRow :
       row # NoMeta /\ row.scope \in ShareScopes /\ row.expires \in {"never", "later", "past"}
  /\ NoMeta.expires = "norow" /\ NoMeta.scope \in ShareScopes
  /\ \A row \in MetaRow : [row EXCEPT !.expires = "past"] \in MetaRow
BY DEF MetaRow, NoMeta, ShareScopes

LEMMA ViewsBegin == ViewsInit => ViewsInv
<1>. SUFFICES ASSUME ViewsInit PROVE ViewsInv
  OBVIOUS
<1>1. shared = {} /\ metaRows = [p \in SharePairs |-> NoMeta]
  BY DEF ViewsInit
<1>. QED  BY <1>1 DEF ViewsInv

LEMMA ViewsStep == ViewsInv /\ [ViewsNext]_viewVars => ViewsInv'
<1>. SUFFICES ASSUME ViewsInv, [ViewsNext]_viewVars PROVE ViewsInv'
  OBVIOUS
<1>1. ASSUME UNCHANGED <<shared, metaRows, partial>> PROVE ViewsInv'
  BY <1>1 DEF ViewsInv
<1>2. ASSUME NEW p \in SharePairs, NEW scope \in ShareScopes, NEW expires \in {"never", "later"},
             Shares(p, scope, expires)
      PROVE  ViewsInv'
  <2>. DEFINE row == [scope |-> scope, expires |-> expires]
  <2>1. row \in MetaRow
    BY DEF MetaRow
  <2>2. /\ shared' = shared \cup {p}
        /\ \/ metaRows' = [metaRows EXCEPT ![p] = row] /\ partial' = partial
           \/ partial' = TRUE /\ metaRows' = metaRows
    BY <1>2 DEF Shares
  <2>. HIDE DEF row
  <2>. QED  BY <2>1, <2>2, MetaRows DEF ViewsInv
<1>3. ASSUME NEW p \in SharePairs, Unshares(p) PROVE ViewsInv'
  <2>1. /\ shared' = shared \ {p}
        /\ \/ metaRows' = [metaRows EXCEPT ![p] = NoMeta] /\ partial' = partial
           \/ partial' = TRUE /\ metaRows' = metaRows
    BY <1>3 DEF Unshares
  <2>. QED  BY <2>1 DEF ViewsInv
<1>4. ASSUME NEW p \in SharePairs, Lapses(p) PROVE ViewsInv'
  <2>. DEFINE row == [metaRows[p] EXCEPT !.expires = "past"]
  <2>1. metaRows[p] \in MetaRow
    BY <1>4, MetaRows DEF Lapses, ViewsInv
  <2>2. row \in MetaRow
    BY <2>1, MetaRows
  <2>3. metaRows' = [metaRows EXCEPT ![p] = row] /\ shared' = shared /\ partial' = partial
    BY <1>4 DEF Lapses
  <2>. HIDE DEF row
  <2>. QED  BY <2>1, <2>2, <2>3, MetaRows DEF ViewsInv
<1>5. CASE Opens \/ Profiled \/ \E e \in EventRows : Plays(e)
  BY <1>1, <1>5 DEF Opens, Profiled, Plays
<1>6. ASSUME NEW p \in SharePairs, Views(p) PROVE ViewsInv'
  BY <1>1, <1>6 DEF Views
<1>7. CASE UNCHANGED viewVars
  BY <1>1, <1>7 DEF viewVars
<1>. QED  BY <1>2, <1>3, <1>4, <1>5, <1>6, <1>7 DEF ViewsNext
-----------------------------------------------------------------------------
LEMMA ViewsListsAgree == ViewsInv => ListsAgree
<1>. SUFFICES ASSUME ViewsInv, NEW p \in SharePairs
              PROVE  {e.terms : e \in {e \in list_shares(p[1]) : e.with = p[2]}}
                       = {e.terms : e \in {e \in list_shared_with_me(p[2]) : e.from = p[1]}}
  BY DEF ListsAgree
<1>. DEFINE o == p[1]
            r == p[2]
            terms == Joined(list_by_owner(o), p)
            theirs == {e.terms : e \in {e \in list_shares(o) : e.with = r}}
            mine == {e.terms : e \in {e \in list_shared_with_me(r) : e.from = o}}
<1>1. \A q \in shared : q[1] = o /\ q[2] = r => q = p
  BY SharingViewsAssumption DEF ViewsInv
<1>2. terms = Joined(list_by_recipient(r), p)
  BY DEF Joined, list_by_owner, list_by_recipient
<1>3. list_shares(o) = {[with |-> q[2], terms |-> Joined(list_by_owner(o), q),
                         view_count |-> share_views_for_owner(q)] : q \in {q \in shared : q[1] = o}}
  BY DEF list_shares, list_share_with_user
<1>4. list_shared_with_me(r) = {[from |-> q[1], terms |-> Joined(list_by_recipient(r), q)]
                                  : q \in {q \in shared : q[2] = r}}
  BY DEF list_shared_with_me, list_share_with_me
<1>5. theirs = IF p \in shared THEN {terms} ELSE {}
  <2>1. ASSUME NEW t \in theirs PROVE p \in shared /\ t = terms
    <3>1. PICK q \in shared : q[1] = o /\ q[2] = r /\ t = Joined(list_by_owner(o), q)
      BY <1>3
    <3>. QED  BY Zenon, <1>1, <3>1
  <2>2. ASSUME p \in shared PROVE terms \in theirs
    <3>. DEFINE e == [with |-> r, terms |-> terms, view_count |-> share_views_for_owner(p)]
    <3>1. e \in list_shares(o)
      BY <1>3, <2>2
    <3>2. e.with = r /\ e.terms = terms
      OBVIOUS
    <3>. HIDE DEF e
    <3>. QED  BY <3>1, <3>2
  <2>. HIDE DEF theirs, terms
  <2>. QED  BY <2>1, <2>2
<1>6. mine = IF p \in shared THEN {terms} ELSE {}
  <2>1. ASSUME NEW t \in mine PROVE p \in shared /\ t = terms
    <3>1. PICK q \in shared : q[1] = o /\ q[2] = r /\ t = Joined(list_by_recipient(r), q)
      BY <1>4
    <3>. QED  BY Zenon, <1>1, <1>2, <3>1
  <2>2. ASSUME p \in shared PROVE terms \in mine
    <3>. DEFINE e == [from |-> o, terms |-> Joined(list_by_recipient(r), p)]
    <3>1. e \in list_shared_with_me(r)
      BY <1>4, <2>2
    <3>2. e.from = o /\ e.terms = Joined(list_by_recipient(r), p)
      OBVIOUS
    <3>. HIDE DEF e
    <3>. QED  BY <1>2, <3>1, <3>2
  <2>. HIDE DEF mine, terms
  <2>. QED  BY <2>1, <2>2
<1>. QED  BY Zenon, <1>5, <1>6

LEMMA ViewsProfile == ProfileFollowsVisibility
<1>1. \A x : Answer(x) # ViewNotFound
  BY DEF Answer, ViewNotFound
<1>. QED  BY <1>1 DEF ProfileFollowsVisibility, public_profile, public_orgs, own_profile,
                      public_summary, public_timeline, render_or_404
-----------------------------------------------------------------------------
LEMMA EventsFinite == IsFiniteSet(EventRows) /\ \A S : S \subseteq EventRows => IsFiniteSet(S)
<1>1. EventRows = {[type |-> "t1", age |-> 2]} \cup {[type |-> "t2", age |-> 1]}
  BY DEF EventRows
<1>2. IsFiniteSet({[type |-> "t1", age |-> 2]}) /\ IsFiniteSet({[type |-> "t2", age |-> 1]})
  BY FS_Singleton
<1>3. IsFiniteSet(EventRows)
  BY <1>1, <1>2, FS_Union
<1>. QED  BY <1>3, FS_Subset

(* The total of a summary is the number of rows, and the sum by type.      *)
LEMMA SummaryIs ==
  ASSUME NEW scope
  PROVE  LET rows == {e \in EventRows : ownEvents[e] = "shown" /\ e.type \in scope.allow \ scope.deny}
             summary == render_summary_scoped(scope)
         IN /\ apply_event_type_filter(Visible, scope) = rows
            /\ summary.total = Cardinality(rows)
            /\ summary.total = SumOver(DOMAIN summary.by_type, summary.by_type)
<1>. DEFINE rows == {e \in EventRows : ownEvents[e] = "shown" /\ e.type \in scope.allow \ scope.deny}
            types == {e.type : e \in rows}
            by_type == [t \in types |-> Cardinality({e \in rows : e.type = t})]
            kind == [e \in rows |-> e.type]
<1>1. apply_event_type_filter(Visible, scope) = rows
  BY DEF apply_event_type_filter, Visible
<1>2. render_summary_scoped(scope) = [total |-> Cardinality(rows), by_type |-> by_type]
  BY Zenon, <1>1 DEF render_summary_scoped
<1>3. IsFiniteSet(rows)
  BY EventsFinite
<1>4. kind \in Surjection(rows, types)
  BY DEF Surjection
<1>5. IsFiniteSet(types)
  BY <1>3, <1>4, FS_Surjection
<1>6. kind \in [rows -> types] /\ \A e \in rows : kind[e] = e.type
  OBVIOUS
<1>7. DOMAIN by_type = types /\ \A t \in types : by_type[t] = Cardinality({e \in rows : kind[e] = t})
  <2>1. \A t : {e \in rows : e.type = t} = {e \in rows : kind[e] = t}
    OBVIOUS
  <2>. QED  BY Zenon, <2>1
<1>. HIDE DEF rows, types, by_type, kind
<1>8. SumOver(types, by_type) = Cardinality(rows)
  BY <1>3, <1>5, <1>6, <1>7, SumOfKinds
<1>9. /\ render_summary_scoped(scope).total = Cardinality(rows)
      /\ render_summary_scoped(scope).by_type = by_type
  BY <1>2
<1>. QED  BY Zenon, <1>1, <1>7, <1>8, <1>9 DEF rows

LEMMA ViewsPreview == PreviewIsShown
<1>. SUFFICES ASSUME NEW p \in SharePairs, MayView(p)
              PROVE  LET scope == metaRows[p].scope
                         summary == friend_summary(p)
                         shown == friend_timeline(p)
                         May(e) == ownEvents[e] = "shown" /\ e.type \in scope.allow \ scope.deny
                     IN /\ summary # ViewNotFound =>
                             /\ summary = Answer(preview_summary(scope))
                             /\ summary[1].total = Cardinality({e \in EventRows : May(e)})
                             /\ summary[1].total = SumOver(DOMAIN summary[1].by_type, summary[1].by_type)
                        /\ shown # ViewNotFound =>
                             /\ shown = Answer(preview_timeline(scope))
                             /\ \A d \in DOMAIN shown[1] :
                                  shown[1][d] = Cardinality({e \in EventRows : May(e) /\ e.age = d})
                        /\ openTo /\ scope = NullScope =>
                             public_summary = summary /\ public_timeline = shown
  BY Zenon DEF PreviewIsShown
<1>. DEFINE scope == metaRows[p].scope
            rows == {e \in EventRows : ownEvents[e] = "shown" /\ e.type \in scope.allow \ scope.deny}
            days == clamp_days(RequestDays, scope)
<1>1. friend_summary(p) = IF scope_allows_aggregates(scope) THEN Answer(render_summary_scoped(scope))
                          ELSE ViewNotFound
  BY Zenon DEF friend_summary, render_or_404
<1>2. friend_timeline(p) = IF scope_allows_timeline(scope)
                           THEN Answer(render_timeline_scoped(days, scope)) ELSE ViewNotFound
  BY Zenon DEF friend_timeline, render_or_404
<1>3. \A x : Answer(x)[1] = x
  BY DEF Answer
<1>4. ASSUME friend_summary(p) # ViewNotFound
      PROVE  /\ friend_summary(p) = Answer(preview_summary(scope))
             /\ friend_summary(p)[1].total = Cardinality(rows)
             /\ friend_summary(p)[1].total
                  = SumOver(DOMAIN friend_summary(p)[1].by_type, friend_summary(p)[1].by_type)
  <2>1. scope_allows_aggregates(scope)
    BY Zenon, <1>1, <1>4
  <2>2. friend_summary(p) = Answer(render_summary_scoped(scope))
    BY Zenon, <1>1, <2>1
  <2>3. preview_summary(scope) = render_summary_scoped(scope)
    BY Zenon, <2>1 DEF preview_summary
  <2>4. friend_summary(p)[1] = render_summary_scoped(scope)
    BY Zenon, <1>3, <2>2
  <2>. QED  BY Zenon, <2>2, <2>3, <2>4, SummaryIs
<1>5. ASSUME friend_timeline(p) # ViewNotFound
      PROVE  /\ friend_timeline(p) = Answer(preview_timeline(scope))
             /\ \A d \in DOMAIN friend_timeline(p)[1] :
                  friend_timeline(p)[1][d] = Cardinality({e \in EventRows :
                    (ownEvents[e] = "shown" /\ e.type \in scope.allow \ scope.deny) /\ e.age = d})
  <2>1. scope_allows_timeline(scope)
    BY Zenon, <1>2, <1>5
  <2>2. friend_timeline(p) = Answer(render_timeline_scoped(days, scope))
    BY Zenon, <1>2, <2>1
  <2>3. preview_timeline(scope) = render_timeline_scoped(days, scope)
    BY Zenon, <2>1 DEF preview_timeline
  <2>4. friend_timeline(p)[1] = render_timeline_scoped(days, scope)
    BY Zenon, <1>3, <2>2
  <2>5. render_timeline_scoped(days, scope) = [d \in 1..days |-> Cardinality({e \in rows : e.age = d})]
    BY Zenon, SummaryIs DEF render_timeline_scoped
  <2>6. \A d : {e \in rows : e.age = d} = {e \in EventRows :
                    (ownEvents[e] = "shown" /\ e.type \in scope.allow \ scope.deny) /\ e.age = d}
    <3>. HIDE DEF scope
    <3>. QED  OBVIOUS
  <2>. QED  BY Zenon, <2>2, <2>3, <2>4, <2>5, <2>6
<1>6. ASSUME openTo, scope = NullScope
      PROVE  public_summary = friend_summary(p) /\ public_timeline = friend_timeline(p)
  <2>1. scope_allows_aggregates(NullScope) /\ scope_allows_timeline(NullScope) /\ NullScope.window = 9
    BY DEF scope_allows_aggregates, scope_allows_timeline, NullScope, Scope, NoWindow
  <2>2. clamp_days(RequestDays, NullScope) = RequestDays
    BY <2>1, TwoNumbers DEF clamp_days, RequestDays
  <2>3. /\ friend_summary(p) = Answer(render_summary_scoped(NullScope))
        /\ friend_timeline(p) = Answer(render_timeline_scoped(RequestDays, NullScope))
    BY Zenon, <1>1, <1>2, <1>6, <2>1, <2>2
  <2>. QED  BY Zenon, <1>6, <2>3 DEF public_summary, public_timeline, render_or_404, check_public
<1>. QED  BY Zenon, <1>4, <1>5, <1>6
-----------------------------------------------------------------------------
(* The entry of a share on its owner's list.                               *)
EntryFor(p) == [with |-> p[2], terms |-> Joined(list_by_owner(p[1]), p),
                view_count |-> share_views_for_owner(p)]

LEMMA PairsFinite ==
  /\ \A S : S \subseteq SharePairs => IsFiniteSet(S) /\ Cardinality(S) \in Nat
  /\ Active \subseteq SharePairs
<1>1. IsFiniteSet(SharePairs)
  BY SharingViewsAssumption
<1>2. \A S : S \subseteq SharePairs => IsFiniteSet(S)
  BY <1>1, FS_Subset
<1>. QED  BY <1>2, FS_CardinalityType DEF Active

LEMMA EntriesOf ==
  ASSUME ViewsInv, NEW o, NEW S, S \subseteq {p \in shared : p[1] = o}
  PROVE  Cardinality({EntryFor(p) : p \in S}) = Cardinality(S)
<1>. DEFINE f == [p \in S |-> EntryFor(p)]
            T == {EntryFor(p) : p \in S}
<1>1. f \in Surjection(S, T)
  BY DEF Surjection
<1>2. \A p, q \in S : f[p] = f[q] => p = q
  <2>1. TAKE p, q \in S
  <2>2. SUFFICES ASSUME f[p] = f[q] PROVE p = q
    OBVIOUS
  <2>3. p = <<p[1], p[2]>> /\ q = <<q[1], q[2]>> /\ p[1] = q[1]
    BY SharingViewsAssumption DEF ViewsInv
  <2>4. EntryFor(p) = EntryFor(q)
    BY <2>2
  <2>5. p[2] = q[2]
    BY <2>4 DEF EntryFor
  <2>. QED  BY <2>3, <2>5
<1>. HIDE DEF f
<1>3. f \in Bijection(S, T)
  BY <1>1, <1>2 DEF Bijection, Injection, Surjection, IsInjective
<1>4. S \subseteq SharePairs
  BY DEF ViewsInv
<1>5. IsFiniteSet(S)
  BY <1>4, PairsFinite
<1>6. ExistsBijection(S, T)
  BY <1>3 DEF ExistsBijection
<1>. QED  BY <1>5, <1>6, FS_Bijection

LEMMA SharesListed ==
  ASSUME NEW o
  PROVE  list_shares(o) = {EntryFor(p) : p \in {p \in shared : p[1] = o}}
<1>1. ASSUME NEW p \in shared, p[1] = o
      PROVE  EntryFor(p) = [with |-> p[2], terms |-> Joined(list_by_owner(o), p),
                         view_count |-> share_views_for_owner(p)]
  BY <1>1 DEF EntryFor
<1>. QED  BY <1>1 DEF list_shares, list_share_with_user

(* With a row for each share, an entry is as current as its row.           *)
LEMMA EntryTerms ==
  ASSUME ViewsInv, ~partial, NEW p \in shared
  PROVE  /\ p \in SharePairs /\ metaRows[p] # NoMeta
         /\ EntryFor(p).terms.expires # "past" <=> p \in Active
<1>1. p \in SharePairs /\ metaRows[p] # NoMeta
  BY DEF ViewsInv
<1>2. metaRows[p].expires \in {"never", "later", "past"}
  BY <1>1, MetaRows DEF ViewsInv
<1>3. p \in list_by_owner(p[1])
  BY <1>1 DEF list_by_owner
<1>4. EntryFor(p).terms.expires = metaRows[p].expires
  BY <1>3 DEF EntryFor, Joined
<1>5. p \in Active <=> metaRows[p].expires \in {"never", "later"}
  BY <1>1 DEF Active
<1>. QED  BY <1>1, <1>2, <1>4, <1>5
-----------------------------------------------------------------------------
LEMMA HistogramSums == ViewsInv => SumOver(ScopeKinds, scope_histogram_active) = Cardinality(Active)
<1>. SUFFICES ASSUME ViewsInv PROVE SumOver(ScopeKinds, scope_histogram_active) = Cardinality(Active)
  OBVIOUS
<1>. DEFINE Kind(p) == IF metaRows[p].scope.kind = "null" THEN "full" ELSE metaRows[p].scope.kind
            kind == [p \in Active |-> Kind(p)]
<1>1. \A p \in Active : metaRows[p].scope.kind \in ScopeKinds \cup {"null"}
  <2>1. \A scope \in ShareScopes : scope.kind \in ScopeKinds \cup {"null"}
    BY DEF ShareScopes, NullScope, Scope, ScopeKinds
  <2>. QED  BY <2>1, MetaRows DEF Active, ViewsInv
<1>2. kind \in [Active -> ScopeKinds]
  BY <1>1 DEF ScopeKinds
<1>3. \A k \in ScopeKinds : scope_histogram_active[k] = Cardinality({p \in Active : kind[p] = k})
  <2>1. TAKE k \in ScopeKinds
  <2>. DEFINE S == {p \in Active : metaRows[p].scope.kind
                                     \in {k} \cup (IF k = "full" THEN {"null"} ELSE {})}
  <2>2. scope_histogram_active[k] = Cardinality(S)
    BY DEF scope_histogram_active
  <2>3. S = {p \in Active : kind[p] = k}
    BY <1>1 DEF ScopeKinds
  <2>. QED  BY Zenon, <2>2, <2>3
<1>4. IsFiniteSet(Active)
  BY PairsFinite
<1>5. IsFiniteSet(ScopeKinds)
  <2>1. ScopeKinds = {"full"} \cup ({"timeline"} \cup ({"aggregates"} \cup {"tabs"}))
    BY DEF ScopeKinds
  <2>2. /\ IsFiniteSet({"full"}) /\ IsFiniteSet({"timeline"})
        /\ IsFiniteSet({"aggregates"}) /\ IsFiniteSet({"tabs"})
    BY FS_Singleton
  <2>3. IsFiniteSet({"aggregates"} \cup {"tabs"})
    BY <2>2, FS_Union
  <2>4. IsFiniteSet({"timeline"} \cup ({"aggregates"} \cup {"tabs"}))
    BY <2>2, <2>3, FS_Union
  <2>5. IsFiniteSet({"full"} \cup ({"timeline"} \cup ({"aggregates"} \cup {"tabs"})))
    BY <2>2, <2>4, FS_Union
  <2>. QED  BY <2>1, <2>5
<1>. HIDE DEF kind
<1>. QED  BY <1>2, <1>3, <1>4, <1>5, SumOfKinds

(* The active shares by owner: the list of granters is complete as long as *)
(* there are no more owners than it shows.                                 *)
LEMMA GrantersSum ==
  ASSUME Cardinality({p[1] : p \in SharePairs}) <= TopLimit
  PROVE  SumOver(top_active_granters, [c \in top_active_granters |-> c.n]) = Cardinality(Active)
<1>. DEFINE owners == {p[1] : p \in SharePairs}
            Of(o) == Cardinality({p \in Active : p[1] = o})
            Count(o) == [handle |-> o, n |-> Of(o)]
            counts == {Count(o) : o \in {p[1] : p \in Active}}
            kind == [p \in Active |-> Count(p[1])]
            byOwner == [c \in counts |-> c.n]
            firsts == [p \in SharePairs |-> p[1]]
<1>1. IsFiniteSet(owners) /\ Cardinality(owners) \in Nat
  <2>1. firsts \in Surjection(SharePairs, owners)
    BY DEF Surjection
  <2>2. IsFiniteSet(SharePairs)
    BY SharingViewsAssumption
  <2>. HIDE DEF firsts, owners
  <2>3. IsFiniteSet(owners)
    BY <2>1, <2>2, FS_Surjection
  <2>. QED  BY <2>3, FS_CardinalityType
<1>2. IsFiniteSet(counts) /\ Cardinality(counts) <= Cardinality(owners)
  <2>. DEFINE A == {p[1] : p \in Active}
              g == [o \in A |-> Count(o)]
  <2>1. A \subseteq owners
    BY PairsFinite
  <2>2. IsFiniteSet(A) /\ Cardinality(A) <= Cardinality(owners)
    <3>. HIDE DEF A, owners
    <3>. QED  BY <1>1, <2>1, FS_Subset
  <2>3. g \in Surjection(A, counts)
    BY DEF Surjection
  <2>. HIDE DEF A, g, counts, owners
  <2>4. IsFiniteSet(counts) /\ Cardinality(counts) <= Cardinality(A)
    BY <2>2, <2>3, FS_Surjection
  <2>5. Cardinality(counts) \in Nat /\ Cardinality(A) \in Nat
    BY <2>2, <2>4, FS_CardinalityType
  <2>. QED  BY <1>1, <2>2, <2>4, <2>5
<1>3. top_active_granters = counts
  <2>1. top_active_granters = {c \in counts : Cardinality({d \in counts : d.n > c.n}) < TopLimit}
    BY Zenon DEF top_active_granters
  <2>2. \A c \in counts : c.n \in Nat
    <3>1. TAKE c \in counts
    <3>2. PICK o : c = Count(o)
      OBVIOUS
    <3>3. {p \in Active : p[1] = o} \subseteq SharePairs
      BY PairsFinite
    <3>4. Of(o) \in Nat
      BY <3>3, PairsFinite
    <3>. QED  BY <3>2, <3>4
  <2>. HIDE DEF counts, owners
  <2>3. ASSUME NEW c \in counts PROVE Cardinality({d \in counts : d.n > c.n}) < TopLimit
    <3>. DEFINE ahead == {d \in counts : d.n > c.n}
    <3>1. c \notin ahead /\ ahead \subseteq counts
      BY <2>2
    <3>. HIDE DEF ahead
    <3>2. ahead # counts
      BY <3>1
    <3>3. Cardinality(ahead) < Cardinality(counts) /\ Cardinality(ahead) \in Nat
      BY <1>2, <3>1, <3>2, FS_Subset, FS_CardinalityType
    <3>4. Cardinality(counts) \in Nat /\ TopLimit \in Nat /\ Cardinality(owners) <= TopLimit
      BY <1>2, FS_CardinalityType, SharingViewsAssumption DEF owners
    <3>5. Cardinality(ahead) < TopLimit
      BY <1>1, <1>2, <3>3, <3>4
    <3>. QED  BY <3>5 DEF ahead
  <2>. QED  BY Zenon, <2>1, <2>3
<1>4. kind \in [Active -> counts] /\ IsFiniteSet(Active)
  BY PairsFinite
<1>5. \A c \in counts : byOwner[c] = Cardinality({p \in Active : kind[p] = c})
  <2>1. TAKE c \in counts
  <2>2. PICK o \in {p[1] : p \in Active} : c = Count(o)
    OBVIOUS
  <2>3. \A p \in Active : p[1] = o <=> kind[p] = c
    <3>1. TAKE p \in Active
    <3>2. kind[p] = Count(p[1]) /\ Count(p[1]).handle = p[1] /\ c.handle = o
      BY <2>2
    <3>. HIDE DEF Count
    <3>. QED  BY <2>2, <3>2
  <2>4. {p \in Active : kind[p] = c} = {p \in Active : p[1] = o}
    BY <2>3
  <2>5. byOwner[c] = c.n /\ c.n = Of(o)
    BY <2>2
  <2>. QED  BY Zenon, <2>4, <2>5
<1>. HIDE DEF kind, counts, byOwner
<1>6. SumOver(counts, byOwner) = Cardinality(Active)
  BY <1>2, <1>4, <1>5, SumOfKinds
<1>7. byOwner = [c \in top_active_granters |-> c.n]
  BY Zenon, <1>3 DEF byOwner
<1>. QED  BY Zenon, <1>3, <1>6, <1>7

LEMMA OwnersSum ==
  ASSUME ViewsInv, ~partial
  PROVE  LET owners == {p[1] : p \in SharePairs}
             current(o) == {e \in list_shares(o) : e.terms.expires # "past"}
         IN /\ SumOver(owners, [o \in owners |-> Cardinality(current(o))]) = Cardinality(Active)
            /\ \A o \in owners :
                 Cardinality(get_user_sharing_context(o).outbound) = Cardinality(list_shares(o))
<1>. DEFINE owners == {p[1] : p \in SharePairs}
            current(o) == {e \in list_shares(o) : e.terms.expires # "past"}
            f == [o \in owners |-> Cardinality(current(o))]
            firsts == [p \in SharePairs |-> p[1]]
            kind == [p \in Active |-> p[1]]
<1>1. IsFiniteSet(owners)
  <2>1. firsts \in Surjection(SharePairs, owners)
    BY DEF Surjection
  <2>2. IsFiniteSet(SharePairs)
    BY SharingViewsAssumption
  <2>. HIDE DEF firsts, owners
  <2>. QED  BY <2>1, <2>2, FS_Surjection
<1>2. \A p \in Active : p \in shared
  <2>1. TAKE p \in Active
  <2>2. p \in SharePairs /\ metaRows[p] # NoMeta
    BY MetaRows DEF Active
  <2>. QED  BY <2>2 DEF ViewsInv
<1>3. \A o : current(o) = {EntryFor(p) : p \in {p \in Active : p[1] = o}}
  <2>1. TAKE o
  <2>2. ASSUME NEW e \in current(o) PROVE e \in {EntryFor(p) : p \in {p \in Active : p[1] = o}}
    <3>1. PICK p \in shared : p[1] = o /\ e = EntryFor(p)
      BY Zenon, SharesListed
    <3>2. e.terms.expires # "past"
      OBVIOUS
    <3>3. p \in Active
      BY Zenon, <3>1, <3>2, EntryTerms
    <3>. QED  BY <3>1, <3>3
  <2>3. ASSUME NEW p \in Active, p[1] = o PROVE EntryFor(p) \in current(o)
    <3>1. p \in shared
      BY <1>2
    <3>2. EntryFor(p) \in list_shares(o)
      BY Zenon, <2>3, <3>1, SharesListed
    <3>3. EntryFor(p).terms.expires # "past"
      BY Zenon, <3>1, EntryTerms
    <3>. QED  BY <3>2, <3>3
  <2>. HIDE DEF current
  <2>. QED  BY <2>2, <2>3
<1>4. \A o : Cardinality(current(o)) = Cardinality({p \in Active : p[1] = o})
  <2>1. TAKE o
  <2>2. {p \in Active : p[1] = o} \subseteq {p \in shared : p[1] = o}
    BY <1>2
  <2>. HIDE DEF current
  <2>. QED  BY <1>3, <2>2, EntriesOf
<1>5. kind \in [Active -> owners] /\ IsFiniteSet(Active)
  BY PairsFinite
<1>6. \A o \in owners : f[o] = Cardinality({p \in Active : kind[p] = o})
  <2>1. \A o : {p \in Active : kind[p] = o} = {p \in Active : p[1] = o}
    OBVIOUS
  <2>. QED  BY Zenon, <1>4, <2>1
<1>7. SumOver(owners, f) = Cardinality(Active)
  <2>. HIDE DEF owners, f, kind
  <2>. QED  BY <1>1, <1>5, <1>6, SumOfKinds
<1>8. ASSUME NEW o \in owners
      PROVE  Cardinality(get_user_sharing_context(o).outbound) = Cardinality(list_shares(o))
  <2>1. list_by_owner(o) = {p \in shared : p[1] = o}
    BY DEF list_by_owner, ViewsInv
  <2>2. get_user_sharing_context(o).outbound = list_by_owner(o)
    BY DEF get_user_sharing_context
  <2>3. Cardinality(list_shares(o)) = Cardinality({p \in shared : p[1] = o})
    BY SharesListed, EntriesOf
  <2>. QED  BY Zenon, <2>1, <2>2, <2>3
<1>. QED  BY Zenon, <1>7, <1>8

LEMMA ViewsOverview == ViewsInv => OverviewAgrees
<1>. SUFFICES ASSUME ViewsInv PROVE OverviewAgrees
  OBVIOUS
<1>1. /\ get_overview.active.total = Cardinality(Active)
      /\ get_overview.active.with_expiry = Cardinality({p \in Active : metaRows[p].expires = "later"})
      /\ get_overview.top = top_active_granters /\ get_scope_histogram = scope_histogram_active
  BY DEF get_overview, active_share_counts, get_scope_histogram
<1>2. Cardinality({p \in Active : metaRows[p].expires = "later"}) <= Cardinality(Active)
  <2>1. IsFiniteSet(Active) /\ {p \in Active : metaRows[p].expires = "later"} \subseteq Active
    BY PairsFinite
  <2>. QED  BY <2>1, FS_Subset
<1>. QED  BY Zenon, <1>1, <1>2, HistogramSums, GrantersSum, OwnersSum DEF OverviewAgrees

LEMMA ViewsAsMeant == ViewsInv => SharingPagesAgree
BY ViewsListsAgree, ViewsProfile, ViewsPreview, ViewsOverview DEF SharingPagesAgree
-----------------------------------------------------------------------------
(* Breakdowns.                                                             *)
PlayedInv == played \in [StatRow -> Nat]

LEMMA PlayedBegins == PlayedInit => PlayedInv
BY DEF PlayedInit, PlayedInv

LEMMA PlayedStep == PlayedInv /\ [PlayedNext]_played => PlayedInv'
<1>. SUFFICES ASSUME PlayedInv, [PlayedNext]_played PROVE PlayedInv'
  OBVIOUS
<1>1. ASSUME NEW r \in StatRow, Play(r) PROVE PlayedInv'
  <2>. DEFINE n == played[r] + 1
  <2>1. n \in Nat /\ played' = [played EXCEPT ![r] = n]
    BY <1>1 DEF Play, PlayedInv
  <2>. HIDE DEF n
  <2>. QED  BY <2>1 DEF PlayedInv
<1>2. CASE UNCHANGED played
  BY <1>2 DEF PlayedInv
<1>. QED  BY <1>1, <1>2 DEF PlayedNext

LEMMA RowsFinite == \A S : S \subseteq StatRow => IsFiniteSet(S)
<1>. DEFINE types == {"actor_death", "player_death", "quantum_target_selected", "attachment_received", "game_crash"}
            roles == {"killer", "victim", "none"}
            all == types \X (roles \X (FieldValues \X BOOLEAN))
            Row(x) == [type |-> x[1], role |-> x[2][1], value |-> x[2][2][1], recent |-> x[2][2][2]]
            T == {Row(x) : x \in all}
            g == [x \in all |-> Row(x)]
<1>1. \A a, b, c, d, e : IsFiniteSet({a, b, c, d, e})
  <2>1. TAKE a, b, c, d, e
  <2>2. IsFiniteSet({a}) /\ IsFiniteSet({b}) /\ IsFiniteSet({c}) /\ IsFiniteSet({d}) /\ IsFiniteSet({e})
    BY FS_Singleton
  <2>3. IsFiniteSet({a} \cup {b})
    BY <2>2, FS_Union
  <2>4. IsFiniteSet(({a} \cup {b}) \cup {c})
    BY <2>2, <2>3, FS_Union
  <2>5. IsFiniteSet((({a} \cup {b}) \cup {c}) \cup {d})
    BY <2>2, <2>4, FS_Union
  <2>6. IsFiniteSet(((({a} \cup {b}) \cup {c}) \cup {d}) \cup {e})
    BY <2>2, <2>5, FS_Union
  <2>7. {a, b, c, d, e} = ((({a} \cup {b}) \cup {c}) \cup {d}) \cup {e}
    OBVIOUS
  <2>. QED  BY <2>6, <2>7
<1>2. IsFiniteSet(types)
  BY <1>1
<1>3. IsFiniteSet(roles)
  <2>1. roles = {"killer", "victim", "none", "none", "none"}
    OBVIOUS
  <2>. QED  BY <1>1, <2>1
<1>4. IsFiniteSet(BOOLEAN)
  <2>1. BOOLEAN = {TRUE, FALSE, FALSE, FALSE, FALSE}
    OBVIOUS
  <2>. QED  BY <1>1, <2>1
<1>5. IsFiniteSet(FieldValues)
  <2>1. IsFiniteSet({"null", "absent"})
    <3>1. {"null", "absent"} = {"null", "absent", "absent", "absent", "absent"}
      OBVIOUS
    <3>. QED  BY <1>1, <3>1
  <2>. QED  BY <2>1, BreakdownsAssumption, FS_Union DEF FieldValues
<1>6. IsFiniteSet(FieldValues \X BOOLEAN)
  BY <1>4, <1>5, FS_Product
<1>7. IsFiniteSet(roles \X (FieldValues \X BOOLEAN))
  BY <1>3, <1>6, FS_Product
<1>8. IsFiniteSet(all)
  BY <1>2, <1>7, FS_Product
<1>9. IsFiniteSet(T)
  <2>1. g \in Surjection(all, T)
    BY DEF Surjection
  <2>. HIDE DEF g, all, T
  <2>. QED  BY <1>8, <2>1, FS_Surjection
<1>10. StatRow \subseteq T
  <2>1. ASSUME NEW r \in StatRow PROVE r \in T
    <3>. DEFINE x == <<r.type, <<r.role, <<r.value, r.recent>>>>>>
    <3>1. /\ r.type \in types /\ r.role \in roles /\ r.value \in FieldValues /\ r.recent \in BOOLEAN
          /\ r = [type |-> r.type, role |-> r.role, value |-> r.value, recent |-> r.recent]
      BY DEF StatRow, CountedTypes, FieldValues
    <3>2. x \in all
      BY <3>1
    <3>3. Row(x) = r
      BY <3>1
    <3>. HIDE DEF x, all, Row
    <3>. QED  BY <3>2, <3>3
  <2>. QED  BY <2>1
<1>. HIDE DEF T
<1>. QED  BY <1>9, <1>10, FS_Subset

LEMMA RowsAre ==
  ASSUME PlayedInv
  PROVE  /\ \A S : S \subseteq StatRow => Rows(S) \in Nat
         /\ \A S, T : S \subseteq StatRow /\ T \subseteq StatRow /\ S \cap T = {} =>
              Rows(S \cup T) = Rows(S) + Rows(T)
<1>1. \A r \in StatRow : played[r] \in Nat
  BY DEF PlayedInv
<1>2. ASSUME NEW S, S \subseteq StatRow PROVE Rows(S) \in Nat
  <2>1. IsFiniteSet(S) /\ \A r \in S : played[r] \in Nat
    BY <1>1, <1>2, RowsFinite
  <2>. QED  BY <2>1, SumIs DEF Rows
<1>3. ASSUME NEW S, NEW T, S \subseteq StatRow, T \subseteq StatRow, S \cap T = {}
      PROVE  Rows(S \cup T) = Rows(S) + Rows(T)
  <2>1. IsFiniteSet(S) /\ IsFiniteSet(T) /\ \A r \in S \cup T : played[r] \in Nat
    BY <1>1, <1>3, RowsFinite
  <2>. QED  BY <1>3, <2>1, SumOfBoth DEF Rows
<1>. QED  BY <1>2, <1>3
-----------------------------------------------------------------------------
(* Each value has a rank of its own.                                       *)
LEMMA RankIs ==
  /\ \A v \in Values : Rank(v) \in Nat
  /\ \A v, w \in Values : Rank(v) = Rank(w) => v = w
<1>. DEFINE n == Cardinality(Values)
            T == {Ordered[k] : k \in 1..n}
<1>1. n \in Nat /\ IsFiniteSet(1..n) /\ Cardinality(1..n) = n
  BY BreakdownsAssumption, FS_CardinalityType, FS_Interval
<1>2. \E f \in [1..n -> Values] : IsInjective(f)
  <2>1. ExistsBijection(1..n, Values)
    BY BreakdownsAssumption, FS_CardinalityType
  <2>. QED  BY <2>1 DEF ExistsBijection, Bijection, Injection, IsInjective
<1>3. Ordered \in [1..n -> Values] /\ IsInjective(Ordered)
  BY <1>2 DEF Ordered, SetToSeq
<1>4. Ordered \in Bijection(1..n, T)
  <2>1. Ordered \in [1..n -> T] /\ \A t \in T : \E k \in 1..n : Ordered[k] = t
    BY <1>3
  <2>. QED  BY <1>3, <2>1 DEF Bijection, Injection, Surjection, IsInjective
<1>5. ExistsBijection(1..n, T)
  BY <1>4 DEF ExistsBijection
<1>6. IsFiniteSet(T) /\ Cardinality(T) = n
  <2>. HIDE DEF T, n
  <2>. QED  BY <1>1, <1>5, FS_Bijection
<1>7. T \subseteq Values
  BY <1>3
<1>8. T = Values
  <2>. HIDE DEF T
  <2>. QED  BY <1>6, <1>7, BreakdownsAssumption, FS_Subset
<1>9. \A v \in Values : Rank(v) \in 1..n /\ Ordered[Rank(v)] = v
  <2>1. TAKE v \in Values
  <2>2. \E k \in 1..n : Ordered[k] = v
    BY <1>8
  <2>3. DOMAIN Ordered = 1..n
    BY <1>3
  <2>. QED  BY <2>2, <2>3 DEF Rank
<1>. HIDE DEF n, T
<1>10. \A v, w \in Values : Rank(v) = Rank(w) => v = w
  BY <1>9, Zenon
<1>. QED  BY <1>1, <1>9, <1>10

(* Buckets: a count for each of some values.                               *)
Bucket(b) == b.count \in Nat /\ b.value \in Values \cup {"null"}
Buckets(B) ==
  IsFiniteSet(B) /\ \A a \in B : Bucket(a) /\ \A b \in B : a.value = b.value => a = b

LEMMA AheadOrders ==
  ASSUME NEW B, Buckets(B)
  PROVE  /\ \A a, b \in B : Ahead(a, b) => ~Ahead(b, a) /\ a.count >= b.count
         /\ \A a, b \in B : a # b => Ahead(a, b) \/ Ahead(b, a)
         /\ \A a, b, c \in B : Ahead(a, b) /\ Ahead(b, c) => Ahead(a, c)
<1>1. "null" \notin Values
  BY BreakdownsAssumption
<1>2. ASSUME NEW a \in B, NEW b \in B PROVE /\ Ahead(a, b) => ~Ahead(b, a) /\ a.count >= b.count
                                            /\ a # b => Ahead(a, b) \/ Ahead(b, a)
  <2>1. PICK m \in Nat, n \in Nat : a.count = m /\ b.count = n
    BY DEF Buckets, Bucket
  <2>2. a.value \in Values \cup {"null"} /\ b.value \in Values \cup {"null"}
    BY DEF Buckets, Bucket
  <2>3. a # b => a.value # b.value
    BY DEF Buckets
  <2>. QED  BY <1>1, <2>1, <2>2, <2>3, RankIs DEF Ahead
<1>3. ASSUME NEW a \in B, NEW b \in B, NEW c \in B, Ahead(a, b), Ahead(b, c) PROVE Ahead(a, c)
  <2>1. PICK m \in Nat, n \in Nat, k \in Nat : a.count = m /\ b.count = n /\ c.count = k
    BY DEF Buckets, Bucket
  <2>2. /\ a.value \in Values \cup {"null"} /\ b.value \in Values \cup {"null"}
        /\ c.value \in Values \cup {"null"}
    BY DEF Buckets, Bucket
  <2>. QED  BY <1>1, <1>3, <2>1, <2>2, RankIs DEF Ahead
<1>. QED  BY <1>2, <1>3
-----------------------------------------------------------------------------
(* A list of the first buckets: the counts fall, no value comes twice, and *)
(* all are there when there is room.                                       *)
Falling(list) ==
  \A i, j \in DOMAIN list : i < j => list[i].count >= list[j].count /\ list[i].value # list[j].value
IsTop(list, B) ==
  /\ list \in Seq(B) /\ Len(list) <= BucketLimit /\ Falling(list)
  /\ Cardinality(B) <= BucketLimit => ToSet(list) = B

LEMMA RankedIs ==
  ASSUME NEW B, Buckets(B)
  PROVE  /\ Ranked(B) \in Seq(B) /\ Len(Ranked(B)) = Cardinality(B)
         /\ ToSet(Ranked(B)) = B /\ Falling(Ranked(B))
<1>. DEFINE Over(b) == {a \in B : Ahead(a, b)}
            rank == [b \in B |-> Cardinality(Over(b))]
            list == Ranked(B)
<1>0. IsFiniteSet(B)
  BY DEF Buckets
<1>1. \A b \in B : IsFiniteSet(Over(b)) /\ Cardinality(Over(b)) \in Nat
  <2>1. TAKE b \in B
  <2>2. Over(b) \subseteq B
    OBVIOUS
  <2>. HIDE DEF Over
  <2>. QED  BY <1>0, <2>2, FS_Subset, FS_CardinalityType
<1>2. \A a, b \in B : Ahead(a, b) => rank[a] < rank[b]
  <2>1. TAKE a, b \in B
  <2>2. SUFFICES ASSUME Ahead(a, b) PROVE rank[a] < rank[b]
    OBVIOUS
  <2>3. Over(a) \subseteq Over(b)
    BY <2>2, AheadOrders
  <2>4. a \in Over(b) /\ a \notin Over(a)
    BY <2>2, AheadOrders
  <2>5. rank[a] = Cardinality(Over(a)) /\ rank[b] = Cardinality(Over(b))
    OBVIOUS
  <2>. HIDE DEF Over, rank
  <2>6. Cardinality(Over(a)) < Cardinality(Over(b))
    <3>1. Over(a) # Over(b)
      BY <2>4
    <3>2. Cardinality(Over(a)) <= Cardinality(Over(b)) /\ Cardinality(Over(a)) # Cardinality(Over(b))
      BY <1>1, <2>3, <3>1, FS_Subset
    <3>. QED  BY <1>1, <3>2
  <2>. QED  BY <2>5, <2>6
<1>3. rank \in [B -> Int]
  BY <1>1
<1>4. \A a, b \in B : rank[a] = rank[b] => a = b
  <2>1. TAKE a, b \in B
  <2>2. a # b => rank[a] < rank[b] \/ rank[b] < rank[a]
    BY Zenon, <1>2, AheadOrders
  <2>3. rank[a] \in Int /\ rank[b] \in Int
    BY <1>3
  <2>. HIDE DEF rank
  <2>. QED  BY <2>2, <2>3
<1>5. list = SortedBy(B, rank)
  BY Zenon DEF Ranked
<1>. HIDE DEF rank
<1>6. /\ list \in Seq(B) /\ Len(list) = Cardinality(B) /\ {list[k] : k \in DOMAIN list} = B
      /\ \A j, k \in DOMAIN list : j < k => rank[list[j]] < rank[list[k]]
  <2>. DEFINE sorted == SortedBy(B, rank)
  <2>1. /\ sorted \in Seq(B) /\ Len(sorted) = Cardinality(B)
        /\ {sorted[k] : k \in DOMAIN sorted} = B
        /\ \A j, k \in DOMAIN sorted : j < k => rank[sorted[j]] < rank[sorted[k]]
    BY <1>0, <1>3, <1>4, SortedByIs
  <2>. HIDE DEF sorted, list
  <2>2. list = sorted
    BY <1>5 DEF sorted
  <2>. QED  BY <2>1, <2>2
<1>. HIDE DEF list
<1>7. Falling(list)
  <2>1. SUFFICES ASSUME NEW i \in DOMAIN list, NEW j \in DOMAIN list, i < j
                 PROVE  list[i].count >= list[j].count /\ list[i].value # list[j].value
    BY Zenon DEF Falling
  <2>2. PICK a \in B, b \in B : a = list[i] /\ b = list[j]
    BY <1>6
  <2>3. rank[a] < rank[b] /\ rank[a] \in Int /\ rank[b] \in Int
    BY <1>3, <1>6, <2>1, <2>2
  <2>4. a # b /\ ~Ahead(b, a)
    BY <1>2, <2>3
  <2>5. Ahead(a, b)
    BY <2>4, AheadOrders
  <2>6. a.count >= b.count /\ a.value # b.value
    BY <2>4, <2>5, AheadOrders DEF Buckets
  <2>. QED  BY <2>2, <2>6
<1>. QED  BY <1>6, <1>7 DEF list, ToSet

LEMMA TopIs ==
  ASSUME NEW B, Buckets(B)
  PROVE  IsTop(Truncate(Ranked(B), BucketLimit), B)
<1>1. PICK list \in Seq(B) : /\ list = Ranked(B) /\ Len(list) = Cardinality(B)
                             /\ ToSet(list) = B /\ Falling(list)
  BY RankedIs
<1>2. PICK n \in Nat : n = Len(list) /\ BucketLimit \in Nat /\ DOMAIN list = 1..n
  BY BreakdownsAssumption
<1>. DEFINE cut == Min({BucketLimit, n})
<1>3. cut = IF BucketLimit <= n THEN BucketLimit ELSE n
  BY <1>2, TwoNumbers
<1>. HIDE DEF cut
<1>4. PICK m \in 0..n : m = cut /\ m <= BucketLimit /\ (n <= BucketLimit => m = n)
  <2>1. cut \in 0..n /\ cut <= BucketLimit /\ (n <= BucketLimit => cut = n)
    BY <1>2, <1>3
  <2>. QED  BY <2>1
<1>. DEFINE top == SubSeq(list, 1, m)
<1>5. Truncate(Ranked(B), BucketLimit) = top /\ m <= n
  BY <1>1, <1>2, <1>4 DEF Truncate, cut
<1>6. IsPart(top, B, list, 1, m)
  <2>1. 1 \in 1..(n + 1) /\ m \in (1 - 1)..n
    OBVIOUS
  <2>2. 1 \in 1..(Len(list) + 1) /\ m \in (1 - 1)..Len(list)
    BY Zenon, <1>2, <2>1
  <2>. HIDE DEF top
  <2>. QED  BY Zenon, <2>2, PartItems DEF top
<1>. HIDE DEF top
<1>7. top \in Seq(B) /\ Len(top) = m /\ DOMAIN top = 1..m /\ \A k \in 1..m : top[k] = list[k]
  <2>1. top \in Seq(B) /\ Len(top) = m - 1 + 1 /\ \A k \in 1..(m - 1 + 1) : top[k] = list[1 + k - 1]
    BY <1>6 DEF IsPart
  <2>2. m - 1 + 1 = m /\ \A k \in 1..m : 1 + k - 1 = k
    BY <1>4
  <2>. QED  BY <2>1, <2>2
<1>8. Falling(top)
  <2>1. \A i \in 1..m : i \in 1..n
    OBVIOUS
  <2>2. \A i \in 1..m : i \in DOMAIN list
    BY Zenon, <1>2, <2>1
  <2>. QED  BY <1>1, <1>7, <2>2 DEF Falling
<1>9. n <= BucketLimit => ToSet(top) = B
  <2>1. SUFFICES ASSUME n <= BucketLimit PROVE ToSet(top) = B
    OBVIOUS
  <2>2. DOMAIN top = DOMAIN list /\ \A k \in DOMAIN list : top[k] = list[k]
    BY <1>2, <1>4, <1>7, <2>1
  <2>. QED  BY <1>1, <2>2 DEF ToSet
<1>10. Len(top) <= BucketLimit
  BY <1>4, <1>7
<1>. QED  BY Zenon, <1>1, <1>2, <1>5, <1>7, <1>8, <1>9, <1>10 DEF IsTop

(* A list that is cut to its room, the NULL group left out: what it shows  *)
(* of a kind of rows.                                                      *)
GroupCount(type, role, v) == Rows({r \in Selected(type, role) : r.value = v})
GroupsOf(type, role) == {v \in Values \cup {"null"} : GroupCount(type, role, v) > 0}
Shows(list, type, role) ==
  /\ list \in Seq(ToSet(list)) /\ IsFiniteSet(ToSet(list)) /\ Len(list) <= BucketLimit /\ Falling(list)
  /\ \A b \in ToSet(list) :
       /\ b.value \in Values /\ b.count \in Nat /\ b.count > 0
       /\ b.count = GroupCount(type, role, b.value)
       /\ \A c \in ToSet(list) : b.value = c.value => b = c
  /\ Cardinality(GroupsOf(type, role)) <= BucketLimit =>
       {b.value : b \in ToSet(list)} = GroupsOf(type, role) \ {"null"}

LEMMA GroupsFinite == IsFiniteSet(Values \cup {"null"}) /\ "null" \notin Values
<1>1. IsFiniteSet({"null"})
  BY FS_Singleton
<1>. QED  BY <1>1, BreakdownsAssumption, FS_Union

LEMMA BreakdownIs ==
  ASSUME PlayedInv, NEW type, NEW role
  PROVE  Shows(payload_field_breakdown(type, role), type, role)
<1>. DEFINE V == Values \cup {"null"}
            G(v) == GroupCount(type, role, v)
            groups == GroupsOf(type, role)
            Of(v) == [value |-> v, count |-> G(v)]
            counts == {Of(v) : v \in V}
            B == {b \in counts : b.count > 0}
            f == [v \in groups |-> Of(v)]
            top == Truncate(Ranked(B), BucketLimit)
            S == {b \in ToSet(top) : b.value # "null"}
            list == Filtered(top, S)
<1>1. \A v : G(v) \in Nat
  <2>1. TAKE v
  <2>2. {r \in Selected(type, role) : r.value = v} \subseteq StatRow
    BY DEF Selected
  <2>. QED  BY <2>2, RowsAre DEF GroupCount
<1>2. \A v : Of(v).value = v /\ Of(v).count = G(v)
  OBVIOUS
<1>. HIDE DEF Of, G
<1>3. B = {Of(v) : v \in groups} /\ groups \subseteq V
  <2>1. \A v : v \in groups <=> v \in V /\ G(v) > 0
    BY DEF GroupsOf, G
  <2>. HIDE DEF groups, V
  <2>2. \A b \in B : b \in {Of(v) : v \in groups}
    BY <1>2, <2>1
  <2>3. \A v \in groups : Of(v) \in B
    BY <1>2, <2>1
  <2>. QED  BY <2>1, <2>2, <2>3
<1>4. IsFiniteSet(groups)
  BY <1>3, GroupsFinite, FS_Subset
<1>5. IsFiniteSet(B) /\ Cardinality(B) = Cardinality(groups)
  <2>. HIDE DEF B, groups
  <2>1. f \in Bijection(groups, B)
    <3>1. f \in [groups -> B] /\ \A b \in B : \E v \in groups : f[v] = b
      BY <1>3
    <3>2. \A v, w \in groups : f[v] = f[w] => v = w
      BY <1>2
    <3>. HIDE DEF f
    <3>. QED  BY <3>1, <3>2 DEF Bijection, Injection, Surjection, IsInjective
  <2>2. ExistsBijection(groups, B)
    BY <2>1 DEF ExistsBijection
  <2>. QED  BY <1>4, <2>2, FS_Bijection
<1>6. \A b \in B : b.value \in V /\ b.count = G(b.value) /\ b.count \in Nat /\ b.count > 0 /\ b = Of(b.value)
  <2>1. TAKE b \in B
  <2>2. PICK v \in groups : b = Of(v)
    BY <1>3
  <2>3. b.count > 0
    OBVIOUS
  <2>. HIDE DEF B, groups, V
  <2>. QED  BY <1>1, <1>2, <1>3, <2>2, <2>3
<1>7. Buckets(B)
  <2>. HIDE DEF B
  <2>. QED  BY <1>5, <1>6 DEF Buckets, Bucket
<1>8. IsTop(top, B)
  <2>. HIDE DEF B
  <2>. QED  BY <1>7, TopIs
<1>9. payload_field_breakdown(type, role) = list
  BY Zenon DEF payload_field_breakdown, GroupCount, G, Of
<1>. HIDE DEF B, top, groups
<1>10. top \in Seq(B) /\ Len(top) <= BucketLimit /\ Falling(top) /\ Len(top) \in Nat
       /\ (Cardinality(B) <= BucketLimit => ToSet(top) = B)
  BY <1>8 DEF IsTop
<1>11. /\ list \in Seq(B) /\ ToSet(list) = ToSet(top) \cap S /\ Len(list) <= Len(top)
  BY <1>10, FilteredItems, FilteredLength
<1>12. Falling(list)
  <2>. DEFINE falls == {x \in B \X B : x[1].count >= x[2].count /\ x[1].value # x[2].value}
  <2>1. \A i \in DOMAIN top : top[i] \in B
    BY <1>10
  <2>2. OrderedBy(top, falls)
    BY <1>10, <2>1 DEF OrderedBy, Falling
  <2>. HIDE DEF falls
  <2>3. OrderedBy(list, falls)
    BY <1>10, <2>2, FilteredOrder
  <2>. HIDE DEF list
  <2>. QED  BY <2>3 DEF OrderedBy, Falling, falls
<1>. HIDE DEF list
<1>13. ToSet(list) \subseteq B /\ (\A b \in ToSet(list) : b.value # "null")
       /\ (Cardinality(groups) <= BucketLimit => \A b \in B : b.value # "null" => b \in ToSet(list))
  <2>1. \A b \in ToSet(top) : b \in B
    BY <1>10 DEF ToSet
  <2>. QED  BY <1>5, <1>10, <1>11, <2>1
<1>14. IsFiniteSet(ToSet(list))
  BY <1>5, <1>13, FS_Subset
<1>15. Len(list) <= BucketLimit
  <2>1. Len(list) \in Nat /\ BucketLimit \in Nat
    BY <1>11, BreakdownsAssumption
  <2>. QED  BY <1>10, <1>11, <2>1
<1>16. list \in Seq(ToSet(list))
  <2>1. Len(list) \in Nat /\ DOMAIN list = 1..Len(list) /\ list = [k \in 1..Len(list) |-> list[k]]
    BY <1>11
  <2>2. \A k \in 1..Len(list) : list[k] \in ToSet(list)
    BY <2>1 DEF ToSet
  <2>. QED  BY <2>1, <2>2
<1>17. \A b \in ToSet(list) :
         /\ b.value \in Values /\ b.count \in Nat /\ b.count > 0
         /\ b.count = GroupCount(type, role, b.value)
         /\ \A c \in ToSet(list) : b.value = c.value => b = c
  BY <1>6, <1>13 DEF G
<1>18. Cardinality(groups) <= BucketLimit => {b.value : b \in ToSet(list)} = groups \ {"null"}
  <2>1. SUFFICES ASSUME Cardinality(groups) <= BucketLimit
                 PROVE  {b.value : b \in ToSet(list)} = groups \ {"null"}
    OBVIOUS
  <2>2. ASSUME NEW b \in ToSet(list) PROVE b.value \in groups \ {"null"}
    <3>1. PICK v \in groups : b = Of(v)
      BY <1>3, <1>13
    <3>2. b.value = v
      BY <1>2, <3>1
    <3>. QED  BY <1>13, <3>1, <3>2
  <2>3. ASSUME NEW v \in groups, v # "null" PROVE v \in {b.value : b \in ToSet(list)}
    <3>1. Of(v) \in B /\ Of(v).value = v
      BY <1>2, <1>3
    <3>2. Of(v) \in ToSet(list)
      BY <1>13, <2>1, <2>3, <3>1
    <3>. QED  BY <3>1, <3>2
  <2>. QED  BY <2>2, <2>3
<1>. QED  BY Zenon, <1>9, <1>12, <1>14, <1>15, <1>16, <1>17, <1>18 DEF Shows, groups
-----------------------------------------------------------------------------
(* What a list counts of a value, and so what the merged list counts.      *)
CountIn(list, v) ==
  SumOver({x \in ToSet(list) : x.value = v}, [x \in ToSet(list) |-> x.count])

LEMMA CountInIs ==
  ASSUME PlayedInv, NEW type, NEW role, NEW list, Shows(list, type, role), NEW v \in Values
  PROVE  /\ CountIn(list, v) \in Nat /\ CountIn(list, v) <= GroupCount(type, role, v)
         /\ GroupCount(type, role, v) \in Nat
         /\ Cardinality(GroupsOf(type, role)) <= BucketLimit =>
              CountIn(list, v) = GroupCount(type, role, v)
<1>. DEFINE S == {x \in ToSet(list) : x.value = v}
            count == [x \in ToSet(list) |-> x.count]
            g == GroupCount(type, role, v)
<1>1. g \in Nat
  <2>1. {r \in Selected(type, role) : r.value = v} \subseteq StatRow
    BY DEF Selected
  <2>. QED  BY <2>1, RowsAre DEF GroupCount
<1>2. CountIn(list, v) = SumOver(S, count)
  BY DEF CountIn
<1>3. CASE \E b \in ToSet(list) : b.value = v
  <2>1. PICK b \in ToSet(list) : b.value = v
    BY <1>3
  <2>2. S = {b} /\ count[b] = g
    BY <2>1 DEF Shows
  <2>. HIDE DEF S, count, g
  <2>3. SumOver({b}, count) = count[b]
    BY <1>1, <2>2, SumOfOne
  <2>. QED  BY <1>1, <1>2, <2>2, <2>3 DEF g
<1>4. CASE ~\E b \in ToSet(list) : b.value = v
  <2>1. S = {}
    BY <1>4
  <2>2. CountIn(list, v) = 0
    BY Zenon, <1>2, <2>1, SumOfNone
  <2>3. Cardinality(GroupsOf(type, role)) <= BucketLimit => g = 0
    <3>1. SUFFICES ASSUME Cardinality(GroupsOf(type, role)) <= BucketLimit PROVE g = 0
      OBVIOUS
    <3>2. v \notin GroupsOf(type, role) \ {"null"}
      BY <1>4, <3>1 DEF Shows
    <3>3. v # "null"
      BY GroupsFinite
    <3>4. ~(g > 0)
      BY <3>2, <3>3 DEF GroupsOf
    <3>. HIDE DEF g
    <3>. QED  BY <1>1, <3>4
  <2>. HIDE DEF g
  <2>4. CountIn(list, v) \in Nat /\ CountIn(list, v) <= g
    BY <1>1, <2>2
  <2>. QED  BY Zenon, <1>1, <2>2, <2>3, <2>4 DEF g
<1>. QED  BY <1>3, <1>4

(* The deaths of both formats, by zone.                                    *)
LEMMA ExactIs ==
  ASSUME PlayedInv, NEW v
  PROVE  /\ \A type \in CountedTypes :
              Exact(v, {type}) = GroupCount(type, "none", v)
         /\ Exact(v, {"actor_death", "player_death"})
              = GroupCount("actor_death", "victim", v) + GroupCount("player_death", "none", v)
<1>1. ASSUME NEW type \in CountedTypes
      PROVE  Exact(v, {type}) = GroupCount(type, "none", v)
  <2>1. {r \in StatRow : r.recent /\ r.role # "killer" /\ r.type \in {type} /\ r.value = v}
          = {r \in Selected(type, "none") : r.value = v}
    BY DEF Selected, StatRow, CountedTypes
  <2>. QED  BY Zenon, <2>1 DEF Exact, GroupCount
<1>2. Exact(v, {"actor_death", "player_death"})
        = GroupCount("actor_death", "victim", v) + GroupCount("player_death", "none", v)
  <2>. DEFINE S == {r \in Selected("actor_death", "victim") : r.value = v}
              T == {r \in Selected("player_death", "none") : r.value = v}
  <2>1. {r \in StatRow : r.recent /\ r.role # "killer"
           /\ r.type \in {"actor_death", "player_death"} /\ r.value = v} = S \cup T
    BY DEF Selected, StatRow, CountedTypes
  <2>2. S \subseteq StatRow /\ T \subseteq StatRow /\ S \cap T = {}
    BY DEF Selected
  <2>3. Exact(v, {"actor_death", "player_death"}) = Rows(S \cup T)
    BY Zenon, <2>1 DEF Exact
  <2>. HIDE DEF S, T
  <2>4. Rows(S \cup T) = Rows(S) + Rows(T)
    BY <2>2, RowsAre
  <2>. QED  BY Zenon, <2>3, <2>4 DEF GroupCount, S, T
<1>. QED  BY <1>1, <1>2

LEMMA DeathsAddUp ==
  ASSUME PlayedInv
  PROVE  stats_combat.kills + stats_combat.deaths
           = event_type_breakdown["actor_death"] + event_type_breakdown["player_death"]
<1>. DEFINE K == Selected("actor_death", "killer")
            D == Selected("actor_death", "victim")
            P == Selected("player_death", "none")
<1>1. {r \in StatRow : r.type = "actor_death" /\ r.recent} = K \cup D
  BY DEF Selected, StatRow, CountedTypes
<1>2. {r \in StatRow : r.type = "player_death" /\ r.recent} = P
  BY DEF Selected, StatRow, CountedTypes
<1>3. K \subseteq StatRow /\ D \subseteq StatRow /\ P \subseteq StatRow /\ K \cap D = {}
  BY DEF Selected
<1>4. stats_combat.kills = Rows(K) /\ stats_combat.deaths = Rows(D) + Rows(P)
  BY DEF stats_combat, count_event_type
<1>5. event_type_breakdown["actor_death"] = Rows(K \cup D) /\ event_type_breakdown["player_death"] = Rows(P)
  <2>1. \A t \in {"actor_death", "player_death"} :
          event_type_breakdown[t] = Rows({r \in StatRow : r.type = t /\ r.recent})
    BY DEF event_type_breakdown
  <2>2. "actor_death" \in {"actor_death", "player_death"} /\ "player_death" \in {"actor_death", "player_death"}
    OBVIOUS
  <2>. QED  BY Zenon, <1>1, <1>2, <2>1, <2>2
<1>. HIDE DEF K, D, P
<1>6. Rows(K \cup D) = Rows(K) + Rows(D) /\ Rows(K) \in Nat /\ Rows(D) \in Nat /\ Rows(P) \in Nat
  BY <1>3, RowsAre
<1>. QED  BY <1>4, <1>5, <1>6

LEMMA TopAsMeant ==
  ASSUME PlayedInv, NEW type \in CountedTypes
  PROVE  ListAsMeant(payload_field_breakdown(type, "none"), {type})
<1>. DEFINE list == payload_field_breakdown(type, "none")
            groups == {v \in Values \cup {"null"} : Exact(v, {type}) > 0}
<1>1. Shows(list, type, "none")
  BY BreakdownIs
<1>2. \A v : Exact(v, {type}) = GroupCount(type, "none", v)
  BY ExactIs
<1>3. groups = GroupsOf(type, "none")
  BY <1>2 DEF GroupsOf
<1>. HIDE DEF list, groups
<1>4. Len(list) <= BucketLimit /\ Falling(list)
  BY <1>1 DEF Shows
<1>5. \A b \in ToSet(list) : b.count = Exact(b.value, {type}) /\ b.count <= Exact(b.value, {type})
  <2>1. TAKE b \in ToSet(list)
  <2>2. PICK n \in Nat : n = b.count
    BY <1>1 DEF Shows
  <2>3. n = Exact(b.value, {type})
    BY <1>1, <1>2, <2>2 DEF Shows
  <2>4. n <= n
    OBVIOUS
  <2>. QED  BY Zenon, <2>2, <2>3, <2>4
<1>6. Cardinality(groups) <= BucketLimit => {b.value : b \in ToSet(list)} = groups \ {"null"}
  BY <1>1, <1>3 DEF Shows
<1>. QED  BY Zenon, <1>4, <1>5, <1>6 DEF ListAsMeant, Falling, list, groups

LEMMA ZonesAsMeant ==
  ASSUME PlayedInv
  PROVE  ListAsMeant(stats_combat.deaths_by_zone, {"actor_death", "player_death"})
<1>1. PICK a : a = payload_field_breakdown("actor_death", "victim") /\ Shows(a, "actor_death", "victim")
  BY BreakdownIs
<1>2. PICK d : d = payload_field_breakdown("player_death", "none") /\ Shows(d, "player_death", "none")
  BY BreakdownIs
<1>. DEFINE types == {"actor_death", "player_death"}
            GA(v) == GroupCount("actor_death", "victim", v)
            GD(v) == GroupCount("player_death", "none", v)
            groupsA == GroupsOf("actor_death", "victim")
            groupsD == GroupsOf("player_death", "none")
            groups == {v \in Values \cup {"null"} : Exact(v, types) > 0}
            V == {x.value : x \in ToSet(a \o d)}
            M(v) == [value |-> v, count |-> CountIn(a, v) + CountIn(d, v)]
            B == {M(v) : v \in V}
            list == Truncate(Ranked(B), BucketLimit)
            f == [v \in V |-> M(v)]
<1>3. stats_combat.deaths_by_zone = list
  BY Zenon, <1>1, <1>2 DEF stats_combat, merge_buckets, CountIn
<1>4. V = {x.value : x \in ToSet(a)} \cup {x.value : x \in ToSet(d)}
  <2>1. ToSet(a \o d) = ToSet(a) \cup ToSet(d)
    <3>. DEFINE A == ToSet(a) \cup ToSet(d)
    <3>1. \A S, T : S \subseteq T => Seq(S) \subseteq Seq(T)
      OBVIOUS
    <3>2. a \in Seq(A) /\ d \in Seq(A)
      <4>1. a \in Seq(ToSet(a)) /\ d \in Seq(ToSet(d))
        BY <1>1, <1>2 DEF Shows
      <4>2. ToSet(a) \subseteq A /\ ToSet(d) \subseteq A
        OBVIOUS
      <4>. HIDE DEF A
      <4>. QED  BY Zenon, <3>1, <4>1, <4>2
    <3>. QED  BY Zenon, <3>2, ConcatItems
  <2>. QED  BY <2>1
<1>. HIDE DEF V
<1>5. V \subseteq Values
  BY <1>1, <1>2, <1>4 DEF Shows
<1>6. \A v \in V : v \in Values \cup {"null"} /\ M(v).value = v /\ M(v).count \in Nat
                  /\ M(v).count <= GA(v) + GD(v) /\ GA(v) \in Nat /\ GD(v) \in Nat
  <2>1. TAKE v \in V
  <2>2. v \in Values
    BY <1>5
  <2>3. /\ CountIn(a, v) \in Nat /\ CountIn(a, v) <= GA(v) /\ GA(v) \in Nat
        /\ CountIn(d, v) \in Nat /\ CountIn(d, v) <= GD(v) /\ GD(v) \in Nat
    BY <1>1, <1>2, <2>2, CountInIs
  <2>. HIDE DEF GA, GD
  <2>. QED  BY <2>2, <2>3
<1>7. \A v \in V : Cardinality(groupsA) <= BucketLimit /\ Cardinality(groupsD) <= BucketLimit =>
                     M(v).count = GA(v) + GD(v)
  <2>1. TAKE v \in V
  <2>2. v \in Values
    BY <1>5
  <2>3. Cardinality(groupsA) <= BucketLimit /\ Cardinality(groupsD) <= BucketLimit =>
          CountIn(a, v) = GA(v) /\ CountIn(d, v) = GD(v)
    BY <1>1, <1>2, <2>2, CountInIs
  <2>. HIDE DEF GA, GD, groupsA, groupsD
  <2>. QED  BY <2>3
<1>8. \A v : Exact(v, types) = GA(v) + GD(v)
  BY ExactIs
<1>9. \A v : GA(v) \in Nat /\ GD(v) \in Nat
  <2>1. TAKE v
  <2>2. /\ {r \in Selected("actor_death", "victim") : r.value = v} \subseteq StatRow
        /\ {r \in Selected("player_death", "none") : r.value = v} \subseteq StatRow
    BY DEF Selected
  <2>. QED  BY <2>2, RowsAre DEF GroupCount
<1>. HIDE DEF M
<1>10. IsFiniteSet(V) /\ IsFiniteSet(B) /\ Cardinality(B) = Cardinality(V)
  <2>1. IsFiniteSet(Values)
    BY BreakdownsAssumption
  <2>2. IsFiniteSet(V)
    BY <1>5, <2>1, FS_Subset
  <2>3. f \in Bijection(V, B)
    <3>1. f \in [V -> B] /\ \A b \in B : \E v \in V : f[v] = b
      OBVIOUS
    <3>2. \A v, w \in V : f[v] = f[w] => v = w
      BY <1>6
    <3>. HIDE DEF f, B
    <3>. QED  BY <3>1, <3>2 DEF Bijection, Injection, Surjection, IsInjective
  <2>4. ExistsBijection(V, B)
    BY <2>3 DEF ExistsBijection
  <2>. HIDE DEF B
  <2>. QED  BY <2>2, <2>4, FS_Bijection
<1>11. \A b \in B : b.value \in V /\ b = M(b.value)
  BY <1>6
<1>12. Buckets(B)
  <2>. HIDE DEF B
  <2>. QED  BY <1>6, <1>10, <1>11 DEF Buckets, Bucket
<1>13. IsTop(list, B)
  <2>. HIDE DEF B
  <2>. QED  BY <1>12, TopIs
<1>14. groupsA \subseteq groups /\ groupsD \subseteq groups /\ groups \subseteq groupsA \cup groupsD
  <2>. HIDE DEF GA, GD
  <2>1. \A v : (v \in groupsA <=> v \in Values \cup {"null"} /\ GA(v) > 0)
               /\ (v \in groupsD <=> v \in Values \cup {"null"} /\ GD(v) > 0)
    BY DEF GroupsOf, GA, GD
  <2>2. \A v : v \in groups <=> v \in Values \cup {"null"} /\ GA(v) + GD(v) > 0
    BY <1>8
  <2>. HIDE DEF groupsA, groupsD, groups
  <2>. QED  BY <1>9, <2>1, <2>2
<1>15. ASSUME Cardinality(groups) <= BucketLimit
       PROVE  /\ Cardinality(groupsA) <= BucketLimit /\ Cardinality(groupsD) <= BucketLimit
              /\ V = groups \ {"null"} /\ ToSet(list) = B
  <2>1. IsFiniteSet(groups)
    <3>1. groups \subseteq Values \cup {"null"}
      OBVIOUS
    <3>. HIDE DEF groups
    <3>. QED  BY <3>1, GroupsFinite, FS_Subset
  <2>. HIDE DEF groups, groupsA, groupsD, B, list
  <2>2. Cardinality(groupsA) <= Cardinality(groups) /\ Cardinality(groupsA) \in Nat
    BY <1>14, <2>1, FS_Subset, FS_CardinalityType
  <2>3. Cardinality(groupsD) <= Cardinality(groups) /\ Cardinality(groupsD) \in Nat
    BY <1>14, <2>1, FS_Subset, FS_CardinalityType
  <2>4. Cardinality(groups) \in Nat /\ BucketLimit \in Nat
    BY <2>1, FS_CardinalityType, BreakdownsAssumption
  <2>5. Cardinality(groupsA) <= BucketLimit /\ Cardinality(groupsD) <= BucketLimit
    BY <1>15, <2>2, <2>3, <2>4
  <2>6. {x.value : x \in ToSet(a)} = groupsA \ {"null"} /\ {x.value : x \in ToSet(d)} = groupsD \ {"null"}
    BY Zenon, <1>1, <1>2, <2>5 DEF Shows, groupsA, groupsD
  <2>7. V = groups \ {"null"}
    BY <1>4, <1>14, <2>6
  <2>8. Cardinality(V) <= Cardinality(groups) /\ Cardinality(V) \in Nat
    <3>1. V \subseteq groups
      BY <2>7
    <3>. QED  BY <1>10, <2>1, <3>1, FS_Subset, FS_CardinalityType
  <2>9. Cardinality(B) <= BucketLimit
    BY <1>10, <1>15, <2>4, <2>8
  <2>. QED  BY Zenon, <1>13, <2>5, <2>7, <2>9 DEF IsTop
<1>. HIDE DEF list, GA, GD, groupsA, groupsD
<1>16. \A b \in ToSet(list) : b \in B
  BY <1>13 DEF IsTop, ToSet
<1>17. \A b \in ToSet(list) : b.count <= Exact(b.value, types)
  <2>1. TAKE b \in ToSet(list)
  <2>2. PICK v \in V : v = b.value /\ b = M(v)
    BY <1>11, <1>16
  <2>. QED  BY <1>6, <1>8, <2>2
<1>18. ASSUME Cardinality(groups) <= BucketLimit
       PROVE  /\ {b.value : b \in ToSet(list)} = groups \ {"null"}
              /\ \A b \in ToSet(list) : b.count = Exact(b.value, types)
  <2>1. ToSet(list) = B /\ V = groups \ {"null"}
    BY <1>15, <1>18
  <2>2. {b.value : b \in B} = V
    BY <1>6
  <2>3. \A b \in B : b.count = Exact(b.value, types)
    <3>1. TAKE b \in B
    <3>2. PICK v \in V : v = b.value /\ b = M(v)
      BY <1>11
    <3>. HIDE DEF B, groups, types
    <3>. QED  BY <1>7, <1>8, <1>15, <1>18, <3>2
  <2>. QED  BY Zenon, <2>1, <2>2, <2>3
<1>19. Len(list) <= BucketLimit /\ Falling(list)
  BY <1>13 DEF IsTop
<1>20. ListAsMeant(list, types)
  <2>. HIDE DEF B, types
  <2>. QED  BY Zenon, <1>17, <1>18, <1>19 DEF ListAsMeant, Falling, groups
<1>. QED  BY Zenon, <1>3, <1>20 DEF types

LEMMA TotalsAsMeant == PlayedInv => TotalsAgree
<1>. SUFFICES ASSUME PlayedInv PROVE TotalsAgree
  OBVIOUS
<1>1. /\ stats_travel.top = payload_field_breakdown("quantum_target_selected", "none")
      /\ stats_loadout.top = payload_field_breakdown("attachment_received", "none")
      /\ stats_stability.top = payload_field_breakdown("game_crash", "none")
  BY DEF stats_travel, stats_loadout, stats_stability, stats_of
<1>2. \A type \in CountedTypes : ListAsMeant(payload_field_breakdown(type, "none"), {type})
  BY TopAsMeant
<1>3. "quantum_target_selected" \in CountedTypes /\ "attachment_received" \in CountedTypes
      /\ "game_crash" \in CountedTypes
  BY DEF CountedTypes
<1>. QED  BY Zenon, <1>1, <1>2, <1>3, DeathsAddUp, ZonesAsMeant DEF TotalsAgree
-----------------------------------------------------------------------------
(* However many events come in or are hidden between the pages of a list   *)
(* or the statements of the shared summary, committed in any order: a      *)
(* client that pages back is given every event there was when it began,    *)
(* and none twice, and the summary counts no event that was hidden         *)
(* throughout (query.rs list_events, repo.rs list_filtered, summary).      *)
THEOREM PagesHold ==
  SharingPartsSpec => [](QueryTypeOK /\ PagesComplete /\ OnlyShownCounted)
<1>1. SharingPartsInit => QueryInv
  BY QueryInitially DEF SharingPartsInit
<1>2. QueryInv /\ [SharingPartsNext]_sharingVars => QueryInv'
  BY QueryInductive DEF SharingPartsNext, ReadsNext, reads, sharingVars
<1>. QED  BY <1>1, <1>2, PagesAsMeant, PTL DEF SharingPartsSpec

(* However many rows are added between the pages of an administrator's     *)
(* list, a reader who turns them to the end has had every row there was at *)
(* the beginning, if none was deleted, and is given a row twice only if    *)
(* one was added (the list handlers of the admin routes).                  *)
THEOREM ListsHold == SharingPartsSpec => []ListReadComplete
<1>1. SharingPartsInit => ListsInv
  BY ListsInitially DEF SharingPartsInit
<1>2. ListsInv /\ [SharingPartsNext]_sharingVars => ListsInv'
  BY ListsInductive DEF SharingPartsNext, ReadsNext, reads, sharingVars
<1>. QED  BY <1>1, <1>2, ListsAsMeant, PTL DEF SharingPartsSpec

(* The refresh of the reference data sleeps for the day only when every    *)
(* category was refreshed, and for the retry whenever one failed.          *)
THEOREM RetriesHold == SharingPartsSpec => []RetriedSoon
<1>1. SharingPartsInit => RoundKnown
  BY RoundBegins DEF SharingPartsInit
<1>2. RoundKnown /\ [SharingPartsNext]_sharingVars => RoundKnown'
  BY RoundStep DEF SharingPartsNext, ReadsNext, reads, sharingVars
<1>. QED  BY <1>1, <1>2, RoundAsMeant, PTL DEF SharingPartsSpec

(* What the query routes derive from a handle's events is what is meant,   *)
(* for a history of any length: sessions partition it at the idle gaps,    *)
(* the trace cuts it where the place changes, a place's dwell is the       *)
(* capped time until the next event, the current location is where the     *)
(* trace ends, a day of the timeline is a whole day's count, and the       *)
(* transactions are paired as the client pairs them (query.rs).            *)
THEOREM StatsHold == SharingPartsSpec => []StatsAsMeant
<1>1. SharingPartsInit => HistoryOK
  BY HistoryBegins DEF SharingPartsInit
<1>2. HistoryOK /\ [SharingPartsNext]_sharingVars => HistoryOK'
  BY HistoryStep DEF SharingPartsNext, ReadsNext, reads, sharingVars
<1>. QED  BY <1>1, <1>2, HistoryAsMeant, PTL DEF SharingPartsSpec

(* Whatever is shared, revoked, ends or is hidden, in any order: both ends *)
(* of a share list it with the same terms, a preview is what a viewer is   *)
(* shown, hidden and filtered events are on no page, and the moderators'   *)
(* numbers add up to the shares (sharing_routes.rs, share_metadata.rs,     *)
(* admin_sharing_routes.rs).                                               *)
THEOREM SharingPagesHold == SharingPartsSpec => []SharingPagesAgree
<1>1. SharingPartsInit => ViewsInv
  BY ViewsBegin DEF SharingPartsInit
<1>2. ViewsInv /\ [SharingPartsNext]_sharingVars => ViewsInv'
  BY ViewsStep DEF SharingPartsNext, SharesNext, shares, sharingVars
<1>. QED  BY <1>1, <1>2, ViewsAsMeant, PTL DEF SharingPartsSpec

(* Whatever events there are: deaths are counted once each, a top list is  *)
(* sorted and never counts what did not happen, and is complete and exact  *)
(* when no query had to cut it (query.rs stats routes, repo.rs).           *)
THEOREM TotalsHold == SharingPartsSpec => []TotalsAgree
<1>1. SharingPartsInit => PlayedInv
  BY PlayedBegins DEF SharingPartsInit
<1>2. PlayedInv /\ [SharingPartsNext]_sharingVars => PlayedInv'
  BY PlayedStep DEF SharingPartsNext, ReadsNext, reads, sharingVars
<1>. QED  BY <1>1, <1>2, TotalsAsMeant, PTL DEF SharingPartsSpec

(* Whenever the wiki is edited and whichever request or transaction of the *)
(* refresh fails: a category stored from a list that did not change        *)
(* meanwhile shows that list, whole, on each of its routes                 *)
(* (reference_data.rs, reference_store.rs, reference_routes.rs).           *)
THEOREM CatalogueHolds == SharingPartsSpec => []CatalogueWhole
<1>1. SharingPartsInit => CatalogueInv
  BY CatalogueBegins DEF SharingPartsInit
<1>2. CatalogueInv /\ [SharingPartsNext]_sharingVars => CatalogueInv'
  BY CatalogueStep DEF SharingPartsNext, ReadsNext, reads, sharingVars
<1>. QED  BY <1>1, <1>2, CatalogueAsMeant, PTL DEF SharingPartsSpec

(* All that the run asks of what is read: the pages, the lists, the        *)
(* statistics, the sharing pages and the catalogue.                        *)
THEOREM ReadsHold == SharingPartsSpec => []ReadsComplete
<1>1. /\ QueryTypeOK /\ PagesComplete /\ OnlyShownCounted
      /\ ListReadComplete /\ RetriedSoon /\ StatsAsMeant
      /\ SharingPagesAgree /\ TotalsAgree /\ CatalogueWhole
      => ReadsComplete
  BY DEF ReadsComplete
<1>. QED  BY <1>1, PagesHold, ListsHold, RetriesHold, StatsHold, SharingPagesHold, TotalsHold,
             CatalogueHolds, PTL
=============================================================================
