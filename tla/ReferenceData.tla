--------------------------- MODULE ReferenceData ---------------------------
(***************************************************************************)
(* The catalogue of vehicles, weapons, items and locations in              *)
(* crates/starstats-server: the refresh task of main.rs, the paged fetch   *)
(* from the wiki (reference_data.rs), the table reference_registry         *)
(* (reference_store.rs) and its readers (reference_routes.rs,              *)
(* admin_reference_routes.rs).                                             *)
(*                                                                         *)
(* The wiki is external: it changes at any time, also between two pages of *)
(* one fetch, and any request may fail.  A wiki record is [ids, body]:     *)
(* the identifiers it has, and the rest of it.                             *)
(***************************************************************************)
EXTENDS Lists, SequencesExt, FiniteSetsExt

CONSTANTS
  Catalogues,     \* lists of records that the wiki may publish
  WikiPageLimit,  \* WIKI_PAGE_LIMIT
  MaxPages,       \* MAX_PAGE_REQUESTS
  MaxTotal        \* MAX_TOTAL_BODY_BYTES, in records

ASSUME ReferenceLimits == {WikiPageLimit, MaxPages, MaxTotal} \subseteq Nat \ {0}

(* Those that the model has; the code treats all four alike but for        *)
(* vehicles, which have routes of their own.                               *)
CategoryOrder == <<"vehicle", "item">>
Categories == Range(CategoryOrder)
IdFields == <<"class_name", "code", "slug", "ref">>

VARIABLES
  wiki,          \* [Categories -> list of records], external
  registry,      \* [Categories -> set of rows [class_name, body]]
  refresh,       \* the task: [at, cat, page, fetched, failed]
  wait,          \* the sleep it chose last: "none", "day" or "hour"
  fetchedFrom,   \* history: the list when the fetch began, or "changed"
  wholeOf,       \* history: [Categories -> the list last stored unchanged, or <<>>]
  missed         \* history: categories that failed in this round

refVars == <<wiki, registry, refresh, wait, fetchedFrom, wholeOf, missed>>

Fetching(cat) == [at |-> "fetch", cat |-> cat, page |-> 1, fetched |-> <<>>, failed |-> FALSE]

ReferenceInit ==
  /\ wiki \in [Categories -> Catalogues]
  /\ registry = [c \in Categories |-> {}]
  /\ refresh = Fetching(1) /\ wait = "none"
  /\ fetchedFrom = wiki[CategoryOrder[1]]
  /\ wholeOf = [c \in Categories |-> <<>>] /\ missed = {}
-----------------------------------------------------------------------------
(* string_field: the fields that hold something after trimming.            *)
string_field(rec, f) == f \in DOMAIN rec.ids

(* parse_category_page: the first identifier it has is the key; a record   *)
(* without one is dropped.                                                 *)
IdsOf(rec) == {k \in DOMAIN IdFields : string_field(rec, IdFields[k])}
Key(rec) == rec.ids[IdFields[Min(IdsOf(rec))]]
ASSUME ReferenceCatalogues ==
  \A list \in Catalogues :
    list \in Seq(ToSet(list)) /\ \A rec \in ToSet(list) : IdsOf(rec) # {} => Key(rec) \in Nat

parse_category_page(page) ==
  LET usable == Filtered(page, {rec \in ToSet(page) : IdsOf(rec) # {}})
  IN [k \in DOMAIN usable |-> [class_name |-> Key(usable[k]), body |-> usable[k].body]]

(* External: page n of a list, and the number of its pages.                *)
PageOf(list, n) ==
  SubSeq(list, (n - 1) * WikiPageLimit + 1, Min({n * WikiPageLimit, Len(list)}))
LastPage(list) == Max({1, (Len(list) + WikiPageLimit - 1) \div WikiPageLimit})

(* read_capped_body: the cumulative cap; a page past its own cap is one of *)
(* the failures of FetchFails.                                             *)
read_capped_body(page, soFar) == soFar + Len(page) <= MaxTotal

ThisCategory == CategoryOrder[refresh.cat]

(* What follows a category: the next one, or the sleep, shorter when any   *)
(* has failed.                                                             *)
NextCategory(failed) ==
  IF refresh.cat < Len(CategoryOrder)
  THEN /\ refresh' = [Fetching(refresh.cat + 1) EXCEPT !.failed = failed]
       /\ fetchedFrom' = wiki[CategoryOrder[refresh.cat + 1]]
       /\ UNCHANGED wait
  ELSE /\ refresh' = [refresh EXCEPT !.at = "sleep", !.fetched = <<>>, !.failed = failed]
       /\ wait' = IF failed THEN "hour" ELSE "day"
       /\ UNCHANGED fetchedFrom

(* One round of the loop of fetch_category.  It ends at the last page; an  *)
(* answer without meta counts as the only page.                            *)
fetch_category ==
  /\ refresh.at = "fetch" /\ refresh.page <= MaxPages
  /\ LET list == wiki[ThisCategory]
         page == PageOf(list, refresh.page)
         all == refresh.fetched \o page
     IN /\ read_capped_body(page, Len(refresh.fetched))
        /\ \/ /\ refresh.page >= LastPage(list)
              /\ refresh' = [refresh EXCEPT !.at = "store", !.fetched = all]
              /\ UNCHANGED fetchedFrom
           \/ /\ refresh.page < LastPage(list)
              /\ refresh' = [refresh EXCEPT !.page = @ + 1, !.fetched = all]
              /\ UNCHANGED fetchedFrom
           \/ /\ refresh.page < LastPage(list)      \* no meta in the answer
              /\ refresh' = [refresh EXCEPT !.at = "store", !.fetched = all]
              /\ fetchedFrom' = "changed"
  /\ UNCHANGED <<wiki, registry, wait, wholeOf, missed>>

(* UpstreamUnavailable: a request, a status, a body or the JSON, or more   *)
(* pages than the cap: nothing is stored, the cache stays.                 *)
FetchFails ==
  /\ refresh.at = "fetch" /\ NextCategory(TRUE)
  /\ missed' = missed \cup {ThisCategory}
  /\ UNCHANGED <<wiki, registry, wholeOf>>
-----------------------------------------------------------------------------
(* The rows after an INSERT ... ON CONFLICT for each entry in turn.        *)
Upserted(rows, entries) ==
  LET keys == {entries[k].class_name : k \in DOMAIN entries}
      last(key) == Max({k \in DOMAIN entries : entries[k].class_name = key})
  IN {r \in rows : r.class_name \notin keys} \cup {entries[last(key)] : key \in keys}

(* upsert_entries: one transaction.                                        *)
upsert_entries(entries, ok) ==
  IF ok THEN Upserted(registry[ThisCategory], entries) ELSE registry[ThisCategory]

Store ==
  /\ refresh.at = "store"
  /\ \E ok \in BOOLEAN :
       /\ registry' = [registry EXCEPT ![ThisCategory] =
                         upsert_entries(parse_category_page(refresh.fetched), ok)]
       /\ wholeOf' = IF ok THEN [wholeOf EXCEPT ![ThisCategory] =
                                   IF fetchedFrom = "changed" THEN <<>> ELSE fetchedFrom]
                     ELSE wholeOf
       /\ missed' = IF ok THEN missed ELSE missed \cup {ThisCategory}
       /\ NextCategory(refresh.failed \/ ~ok)
  /\ UNCHANGED wiki

(* The sleep ends, or the server starts again: a round begins.             *)
RefreshBegins ==
  /\ refresh' = Fetching(1) /\ wait' = "none"
  /\ fetchedFrom' = wiki[CategoryOrder[1]] /\ missed' = {}
  /\ UNCHANGED <<wiki, registry, wholeOf>>

(* External: the wiki is edited.                                           *)
WikiEdited(cat, list) ==
  /\ list # wiki[cat] /\ wiki' = [wiki EXCEPT ![cat] = list]
  /\ fetchedFrom' = IF refresh.at # "sleep" /\ cat = ThisCategory THEN "changed" ELSE fetchedFrom
  /\ UNCHANGED <<registry, refresh, wait, wholeOf, missed>>
-----------------------------------------------------------------------------
(* list_category, in the order of the key.                                 *)
list_category(cat) == SortedBy(registry[cat], [r \in registry[cat] |-> r.class_name])

(* The store's get_entry; the routes know a category or answer 404.        *)
stored_entry(cat, key) == {r \in registry[cat] : r.class_name = key}
NotFound == {"404"}
reference_entry(cat, key) ==
  IF cat \notin Categories \/ stored_entry(cat, key) = {} THEN NotFound ELSE stored_entry(cat, key)
reference_entries(cat) == IF cat \notin Categories THEN NotFound ELSE Range(list_category(cat))

(* entry_to_vehicle takes a manufacturer that is a string, not an object.  *)
entry_to_vehicle(r) ==
  [class_name |-> r.class_name, manufacturer |-> r.body \cap {"maker"} # {}]
list_vehicles == {entry_to_vehicle(r) : r \in registry["vehicle"]}
get_vehicle(key) == {entry_to_vehicle(r) : r \in stored_entry("vehicle", key)}

(* list_reference_entries: the list, filtered, then cut to a page.         *)
list_reference_entries(cat, q, limit, offset) ==
  LET found == Filtered(list_category(cat), {r \in registry[cat] : q \subseteq r.body})
  IN [total |-> Len(found),
      entries |-> SubSeq(found, offset + 1, Min({offset + limit, Len(found)}))]

(* category_summaries                                                      *)
category_summaries == [c \in Categories |-> Cardinality(registry[c])]
-----------------------------------------------------------------------------
ReferenceNext ==
  \/ fetch_category \/ FetchFails \/ Store \/ RefreshBegins
  \/ \E c \in Categories, list \in Catalogues : WikiEdited(c, list)

ReferenceSpec == ReferenceInit /\ [][ReferenceNext]_refVars
-----------------------------------------------------------------------------
(* A category that was stored from a list which did not change meanwhile   *)
(* shows that list until the next refresh of it succeeds, whatever failed  *)
(* since and half way through what: each record with a key is found, as it *)
(* was last listed, by its key, on the list and on the moderators' pages;  *)
(* the summaries count what the pages hold.                                *)
CatalogueWhole ==
  \A c \in Categories :
    LET shown == parse_category_page(wholeOf[c])
        listed == list_category(c)
    IN /\ \A k \in DOMAIN shown :
            (\A j \in DOMAIN shown : shown[j].class_name = shown[k].class_name => j <= k)
              => /\ reference_entry(c, shown[k].class_name) = {shown[k]}
                 /\ shown[k] \in reference_entries(c)
                 /\ c = "vehicle" => get_vehicle(shown[k].class_name) \subseteq list_vehicles
       /\ \A n \in DOMAIN listed : list_reference_entries(c, {}, 1, n - 1).entries = <<listed[n]>>
       /\ Len(listed) = list_reference_entries(c, {}, 1, 0).total
       /\ category_summaries[c] = Len(listed)
       /\ c = "vehicle" => Cardinality(list_vehicles) = category_summaries[c]

(* The refresh task sleeps a day only when every category of the round was *)
(* stored (any_failed survives the categories after the one that failed).  *)
RetriedSoon == refresh.at = "sleep" => (wait = "day" <=> missed = {})
=============================================================================
