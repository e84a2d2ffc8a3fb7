---------------------------- MODULE ShareReports ----------------------------
(***************************************************************************)
(* Reports about shares in crates/starstats-server: report_share and its   *)
(* abuse signal (sharing_routes.rs), the table (share_reports.rs) and the  *)
(* moderators' resolve_report (admin_sharing_routes.rs).                   *)
(*                                                                         *)
(* report_share counts, inserts, and counts again, in statements of their  *)
(* own; any of them may fail.                                              *)
(***************************************************************************)
EXTENDS Integers, FiniteSets, Sequences

CONSTANTS
  Reporters, Owners,
  ReportCalls,        \* report_share requests in progress
  RateLimit,          \* RATE_LIMIT_PER_WINDOW
  ClusterThreshold,   \* CLUSTER_REPORT_THRESHOLD
  ListCap,            \* rows that share_reports::list returns at most
  MaxReports          \* bound on reports ever made (exploration only)

ASSUME ReportLimits ==
  /\ {RateLimit, ClusterThreshold, ListCap} \subseteq Nat \ {0} /\ MaxReports \in Nat
  /\ IsFiniteSet(ReportCalls)

Resolutions == {"dismissed", "share_revoked", "user_suspended"}

VARIABLES
  reports,        \* rows in order of created_at: [1..n -> Report]
  oldest,         \* reports up to this one are older than the windows
  sharesPaused,   \* owners with shares_paused_until in the future
  reportCall,     \* [ReportCalls -> progress]
  uncounted,      \* history: reporters whose count failed once
  pauseSet,       \* history: owners paused since the last report about them
  pauseFailed     \* history: owners about whom a count or a pause failed,
                  \* or the server died before it

reportVars == <<reports, oldest, sharesPaused, reportCall, uncounted, pauseSet, pauseFailed>>

ReportsInit ==
  /\ reports = << >> /\ oldest = 0
  /\ sharesPaused = {}
  /\ reportCall = [c \in ReportCalls |-> [at |-> "free"]]
  /\ uncounted = {} /\ pauseSet = {} /\ pauseFailed = {}

Recent(n) == oldest + 1..n

(* count_recent_by_reporter                                                *)
count_recent_by_reporter(r) ==
  Cardinality({k \in Recent(Len(reports)) : reports[k].reporter = r})
-----------------------------------------------------------------------------

(* report_share up to the rate limit, which a failed count lifts.          *)
ReportStart(c, r, o) ==
  /\ reportCall[c].at = "free"
  /\ \/ count_recent_by_reporter(r) < RateLimit /\ UNCHANGED uncounted
     \/ uncounted' = uncounted \cup {r}
  /\ reportCall' = [reportCall EXCEPT ![c] = [at |-> "create", reporter |-> r, owner |-> o]]
  /\ UNCHANGED <<reports, oldest, sharesPaused, pauseSet, pauseFailed>>

(* Mutant of ReportCreate: the cluster is counted before the insert.       *)
ReportCreateAfter(c) ==
  /\ reportCall[c].at = "create" /\ Len(reports) < MaxReports
  /\ reports' = Append(reports, [reporter |-> reportCall[c].reporter,
                                 owner |-> reportCall[c].owner, status |-> "open"])
  /\ reportCall' = [reportCall EXCEPT ![c] = [at |-> "free"]]
  /\ IF Cardinality({k \in Recent(Len(reports)) : reports[k].owner = reportCall[c].owner})
          >= ClusterThreshold
     THEN /\ sharesPaused' = sharesPaused \cup {reportCall[c].owner}
          /\ pauseSet' = pauseSet \cup {reportCall[c].owner}
     ELSE pauseSet' = pauseSet \ {reportCall[c].owner} /\ UNCHANGED sharesPaused
  /\ UNCHANGED <<oldest, uncounted, pauseFailed>>

(* ShareReportStore::create                                                *)
ReportCreate(c) ==
  /\ reportCall[c].at = "create" /\ Len(reports) < MaxReports
  /\ reports' = Append(reports, [reporter |-> reportCall[c].reporter,
                                 owner |-> reportCall[c].owner, status |-> "open"])
  /\ reportCall' = [reportCall EXCEPT ![c].at = "cluster"]
  /\ pauseSet' = pauseSet \ {reportCall[c].owner}
  /\ UNCHANGED <<oldest, sharesPaused, uncounted, pauseFailed>>

(* share_reports::list without a status: the newest rows, of any owner.    *)
Listed == {k \in 1..Len(reports) : k > Len(reports) - ListCap}

(* check_cross_report_cluster                                              *)
ReportCluster(c) ==
  /\ reportCall[c].at = "cluster"
  /\ reportCall' = [reportCall EXCEPT ![c] = [at |-> "free"]]
  /\ LET o == reportCall[c].owner
         n == Cardinality({k \in Listed \cap Recent(Len(reports)) : reports[k].owner = o})
     IN \/ /\ n >= ClusterThreshold
           /\ sharesPaused' = sharesPaused \cup {o} /\ pauseSet' = pauseSet \cup {o}
           /\ UNCHANGED pauseFailed
        \/ /\ n < ClusterThreshold
           /\ UNCHANGED <<sharesPaused, pauseSet, pauseFailed>>
        \/ /\ pauseFailed' = pauseFailed \cup {o}
           /\ UNCHANGED <<sharesPaused, pauseSet>>
  /\ UNCHANGED <<reports, oldest, uncounted>>

(* The insert fails, or the server dies.                                   *)
ReportDies(c) ==
  /\ reportCall[c].at # "free"
  /\ reportCall' = [reportCall EXCEPT ![c] = [at |-> "free"]]
  /\ pauseFailed' = IF reportCall[c].at = "cluster"
                    THEN pauseFailed \cup {reportCall[c].owner} ELSE pauseFailed
  /\ UNCHANGED <<reports, oldest, sharesPaused, uncounted, pauseSet>>

(* One UPDATE, of a row that is open.                                      *)
resolve(k, outcome) ==
  reports[k].status = "open" /\ reports' = [reports EXCEPT ![k].status = outcome]

resolve_report(k, outcome) ==
  /\ resolve(k, outcome)
  /\ UNCHANGED <<oldest, sharesPaused, reportCall, uncounted, pauseSet, pauseFailed>>

(* get_reports: the newest first, of one status or of all.                 *)
get_reports(statuses, limit, offset) ==
  LET rows == {k \in 1..Len(reports) : reports[k].status \in statuses}
      newer(k) == Cardinality({j \in rows : j > k})
  IN {k \in rows : newer(k) \in offset..(offset + limit - 1)}

(* get_user_sharing_context: reports by and about a handle, of those list  *)
(* returns.                                                                *)
reports_filed(h) == {k \in Listed : reports[k].reporter = h}
reports_against(h) == {k \in Listed : reports[k].owner = h}

(* Time: the windows move on, and a pause ends.                            *)
ReportAges ==
  /\ oldest < Len(reports) /\ oldest' = oldest + 1
  /\ UNCHANGED <<reports, sharesPaused, reportCall, uncounted, pauseSet, pauseFailed>>

PauseEnds(o) ==
  /\ o \in sharesPaused /\ sharesPaused' = sharesPaused \ {o}
  /\ UNCHANGED <<reports, oldest, reportCall, uncounted, pauseSet, pauseFailed>>
-----------------------------------------------------------------------------
ReportsNext ==
  \/ ReportAges
  \/ \E o \in Owners : PauseEnds(o)
  \/ \E k \in 1..Len(reports), outcome \in Resolutions : resolve_report(k, outcome)
  \/ \E c \in ReportCalls :
       \/ \E r \in Reporters, o \in Owners : ReportStart(c, r, o)
       \/ ReportCreate(c) \/ ReportCluster(c) \/ ReportDies(c)

ReportsSpec == ReportsInit /\ [][ReportsNext]_reportVars
-----------------------------------------------------------------------------
(* However many requests count at once, a reporter has at most as many     *)
(* reports in the window as the limit and the requests that raced for the  *)
(* last one, as long as the counts succeed (report_share checks, then      *)
(* inserts).                                                               *)
RateLimitHolds ==
  \A r \in Reporters \ uncounted :
    count_recent_by_reporter(r) <= RateLimit + Cardinality(ReportCalls) - 1

(* Once no report is half way, an owner with a cluster of reports in the   *)
(* window has been paused since the last of them: concurrent reporters     *)
(* count after they insert, so the last one sees all.  Beyond the rows     *)
(* that list returns the count is short.                                   *)
ClusterPauses ==
  \A o \in Owners \ pauseFailed :
    /\ \A c \in ReportCalls : reportCall[c].at = "free"
    /\ Len(reports) <= ListCap
    /\ Cardinality({k \in Recent(Len(reports)) : reports[k].owner = o}) >= ClusterThreshold
    => o \in pauseSet

(* A moderator who goes through the open reports page by page sees each    *)
(* once, with any page size, and while list holds them all a report is on  *)
(* the pages of both its handles.                                          *)
ReportsListed ==
  /\ \A limit \in 1..2 :
       LET pages == {get_reports({"open"}, limit, n * limit) : n \in 0..MaxReports}
       IN /\ UNION pages = {k \in 1..Len(reports) : reports[k].status = "open"}
          /\ \A p, q \in pages : p # q => p \cap q = {}
  /\ Len(reports) <= ListCap =>
       \A k \in 1..Len(reports) :
         k \in reports_filed(reports[k].reporter) /\ k \in reports_against(reports[k].owner)
=============================================================================
