------------------------------ MODULE Breakdowns ------------------------------
(***************************************************************************)
(* The counts and top lists of query.rs and repo.rs: kills, deaths and     *)
(* where they happened, travel, loadout and crashes, over a table of       *)
(* events that grows.  A row is its type, what the caller was in it, the   *)
(* value of the field a list is about, and whether it is in the window.    *)
(***************************************************************************)
EXTENDS Lists, FiniteSetsExt, SequencesExt

CONSTANTS
  Values,        \* values of payload fields, strings
  BucketLimit,   \* STATS_BUCKET_LIMIT
  MaxPlayed      \* bound on the rows (exploration only)

ASSUME BreakdownsAssumption ==
  /\ BucketLimit \in Nat \ {0} /\ MaxPlayed \in Nat
  /\ IsFiniteSet(Values) /\ {"null", "absent"} \cap Values = {}

(* "null": the field is there and JSON null; "absent": it is not.          *)
FieldValues == Values \cup {"null", "absent"}
CountedTypes == {"quantum_target_selected", "attachment_received", "game_crash"}
StatRow ==
  [type : {"actor_death"}, role : {"killer", "victim"}, value : Values, recent : {TRUE}]
    \cup [type : {"player_death"}, role : {"none"}, value : FieldValues, recent : BOOLEAN]
    \cup [type : CountedTypes, role : {"none"}, value : Values, recent : {TRUE}]

VARIABLE played    \* [StatRow -> number of such rows]

PlayedInit == played = [r \in StatRow |-> 0]

Rows(S) == SumOver(S, played)

(* A row of the caller is ingested.                                        *)
Play(r) ==
  /\ Rows(StatRow) < MaxPlayed
  /\ played' = [played EXCEPT ![r] = @ + 1]

PlayedNext == \E r \in StatRow : Play(r)
PlayedSpec == PlayedInit /\ [][PlayedNext]_played
-----------------------------------------------------------------------------
Selected(type, role) == {r \in StatRow : r.type = type /\ r.role = role /\ r.recent}

count_event_type(type, role) == Rows(Selected(type, role))

(* The values in an order the database and the sort agree on.              *)
Ordered == SetToSeq(Values)
Rank(v) == CHOOSE k \in DOMAIN Ordered : Ordered[k] = v

(* ORDER BY count DESC, value ASC; NULL sorts after the values.            *)
Ahead(a, b) ==
  \/ a.count > b.count
  \/ /\ a.count = b.count /\ a.value # "null"
     /\ b.value = "null" \/ Rank(a.value) < Rank(b.value)

Ranked(buckets) == SortedBy(buckets, [b \in buckets |-> Cardinality({a \in buckets : Ahead(a, b)})])
Truncate(list, limit) == SubSeq(list, 1, Min({limit, Len(list)}))

(* GROUP BY of the rows that have the field; the NULL group takes a place  *)
(* in the list and is dropped after the LIMIT.                             *)
payload_field_breakdown(type, role) ==
  LET sel == Selected(type, role)
      counts == {[value |-> v, count |-> Rows({r \in sel : r.value = v})] : v \in Values \cup {"null"}}
      list == Truncate(Ranked({b \in counts : b.count > 0}), BucketLimit)
  IN Filtered(list, {b \in ToSet(list) : b.value # "null"})

(* The counts of two lists summed by value, ranked and cut again.          *)
merge_buckets(a, b) ==
  LET Of(list, v) == SumOver({x \in ToSet(list) : x.value = v}, [x \in ToSet(list) |-> x.count])
  IN Truncate(Ranked({[value |-> v, count |-> Of(a, v) + Of(b, v)]
                        : v \in {x.value : x \in ToSet(a \o b)}}), BucketLimit)
-----------------------------------------------------------------------------
stats_combat ==
  [kills |-> count_event_type("actor_death", "killer"),
   deaths |-> count_event_type("actor_death", "victim") + count_event_type("player_death", "none"),
   top_weapons |-> payload_field_breakdown("actor_death", "killer"),
   deaths_by_zone |-> merge_buckets(payload_field_breakdown("actor_death", "victim"),
                                    payload_field_breakdown("player_death", "none"))]

stats_of(type) == [count |-> count_event_type(type, "none"), top |-> payload_field_breakdown(type, "none")]
stats_travel == stats_of("quantum_target_selected")
stats_loadout == stats_of("attachment_received")
stats_stability == stats_of("game_crash")

(* event_type_breakdown: rows per type, in the window.                     *)
event_type_breakdown ==
  [type \in {"actor_death", "player_death"} \cup CountedTypes |->
     Rows({r \in StatRow : r.type = type /\ r.recent})]
-----------------------------------------------------------------------------
Exact(value, types) ==
  Rows({r \in StatRow : r.recent /\ r.role # "killer" /\ r.type \in types /\ r.value = value})

(* A list is never too long, never counts what did not happen, is sorted,  *)
(* and is complete and exact when no query had to cut it.  Merging lists   *)
(* that were cut before may undercount a zone (stats_combat).              *)
ListAsMeant(list, types) ==
  LET groups == {v \in Values \cup {"null"} : Exact(v, types) > 0}
      exact(b) == b.count = Exact(b.value, types)
  IN /\ Len(list) =< BucketLimit
     /\ \A b \in ToSet(list) : b.count =< Exact(b.value, types)
     /\ \A i, j \in DOMAIN list : i < j => list[i].count >= list[j].count /\ list[i].value # list[j].value
     /\ Cardinality(groups) =< BucketLimit =>
          /\ {b.value : b \in ToSet(list)} = groups \ {"null"}
          /\ \A b \in ToSet(list) : exact(b)

(* The statistics pages agree with the events and with each other: deaths  *)
(* are counted once each, whichever line format reported them, and no list *)
(* shows more than its total.                                              *)
TotalsAgree ==
  /\ stats_combat.kills + stats_combat.deaths
       = event_type_breakdown["actor_death"] + event_type_breakdown["player_death"]
  /\ ListAsMeant(stats_combat.deaths_by_zone, {"actor_death", "player_death"})
  /\ ListAsMeant(stats_travel.top, {"quantum_target_selected"})
  /\ ListAsMeant(stats_loadout.top, {"attachment_received"})
  /\ ListAsMeant(stats_stability.top, {"game_crash"})
=============================================================================
