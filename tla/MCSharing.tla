------------------------------ MODULE MCSharing ------------------------------
(***************************************************************************)
(* What members share and what they and the administrators read, for TLC:  *)
(* sharing, its pages and its reports, the event queries, breakdowns and   *)
(* statistics, the administrators' lists and the reference data.  A        *)
(* behaviour exercises one of them and leaves the others in their initial  *)
(* state.                                                                  *)
(***************************************************************************)
EXTENDS Sharing, ShareReports, SharingViews, EventQueries, Breakdowns, AdminLists,
        ReferenceData, EventStats

VARIABLE part

(* Two owners share with b; a's pages are looked at.                       *)
MCPairs == {<<"a", "b">>, <<"c", "b">>}

(* Catalogues of the wiki: plain; with an entry without a name and one     *)
(* with another identifier; with two identifiers in one entry.             *)
R(f, k, b) == [ids |-> (f :> k), body |-> b]
MCCatalogues ==
  {<<R("class_name", 1, {"maker"}), R("class_name", 2, {})>>,
   <<R("class_name", 2, {"x"}), [ids |-> <<>>, body |-> {}], R("code", 1, {})>>,
   <<[ids |-> ("class_name" :> 1 @@ "code" :> 2), body |-> {"x"}]>>}
-----------------------------------------------------------------------------
shares == <<shareVars, reportVars, viewVars>>
reads == <<queryVars, played, listVars, refVars, history>>
sharingVars == <<part, shares, reads>>

SharingPartsInit ==
  /\ part \in {"sharing", "reports", "views", "queries", "breakdowns", "lists", "reference",
              "stats"}
  /\ SharingInit /\ ReportsInit /\ ViewsInit
  /\ QueryInit /\ PlayedInit /\ ListsInit /\ ReferenceInit /\ HistoryInit
  /\ part # "reference" => wiki = [c \in Categories |-> CHOOSE k \in MCCatalogues : TRUE]

SharesNext ==
  \/ part = "sharing" /\ SharingNext /\ UNCHANGED <<reportVars, viewVars>>
  \/ part = "reports" /\ ReportsNext /\ UNCHANGED <<shareVars, viewVars>>
  \/ part = "views" /\ ViewsNext /\ UNCHANGED <<shareVars, reportVars>>

ReadsNext ==
  \/ part = "queries" /\ QueryNext /\ UNCHANGED <<played, listVars, refVars, history>>
  \/ part = "breakdowns" /\ PlayedNext /\ UNCHANGED <<queryVars, listVars, refVars, history>>
  \/ part = "lists" /\ ListsNext /\ UNCHANGED <<queryVars, played, refVars, history>>
  \/ part = "reference" /\ ReferenceNext /\ UNCHANGED <<queryVars, played, listVars, history>>
  \/ part = "stats" /\ HistoryNext /\ UNCHANGED <<queryVars, played, listVars, refVars>>

SharingPartsNext ==
  /\ part' = part
  /\ \/ SharesNext /\ UNCHANGED reads
     \/ ReadsNext /\ UNCHANGED shares

SharingPartsSpec == SharingPartsInit /\ [][SharingPartsNext]_sharingVars

(* Once every viewer is muddled nothing is claimed of sharing any more.    *)
SharingBound == muddled # Viewers

(* Requests in flight, and people: one set of model values for the parts,  *)
(* which are interchangeable in each of them.                              *)
SharingSymmetry == Permutations(ShareCalls \cup ReportCalls) \cup Permutations(Reporters)
-----------------------------------------------------------------------------
(* What others see is what the owner last asked for and no more: grants,   *)
(* scopes and expiry in the enforcement path (SharedAsAsked and            *)
(* ShownAsGranted name what the code leaves open).                         *)
SharingSafe == part = "sharing" => SharingTypeOK /\ SharedAsAsked /\ ShownAsGranted

(* Reports miss nothing: the limit on a reporter and the pause of an owner *)
(* that several people report hold with concurrent reporters, and the      *)
(* moderator's list shows what waits.                                      *)
ReportsSafe == part = "reports" => RateLimitHolds /\ ClusterPauses /\ ReportsListed

(* What is read page by page or statement by statement while rows come in  *)
(* is complete: the event pages, the shared summary, the breakdowns, the   *)
(* administrators' lists and the copies of the wiki's catalogues; what is  *)
(* derived from the events (sessions, places, transactions) is what the    *)
(* definitions mean; and the pages about sharing agree with what is shared *)
(* and with one another.                                                   *)
ReadsComplete ==
  CASE part = "queries" -> QueryTypeOK /\ PagesComplete /\ OnlyShownCounted
    [] part = "breakdowns" -> TotalsAgree
    [] part = "lists" -> ListReadComplete
    [] part = "views" -> SharingPagesAgree
    [] part = "stats" -> StatsAsMeant
    [] part = "reference" -> CatalogueWhole /\ RetriedSoon
    [] OTHER -> TRUE
=============================================================================
