------------------------------ MODULE Inference ------------------------------
(***************************************************************************)
(* starstats-core/src/inference.rs: events that no log line reports,       *)
(* inferred from the ones around them, with the entities of metadata.rs.   *)
(*                                                                         *)
(* A logged event is [t, kind].  Besides the shop events of Transactions:  *)
(* "destroyed" a VehicleDestruction, "spawn" a ResolveSpawn, "death" a     *)
(* PlayerDeath, "planetA" and "planetB" a PlanetTerrainLoad, "inventory" a *)
(* LocationInventoryRequested.                                             *)
(***************************************************************************)
EXTENDS Transactions, FiniteSets

CONSTANTS
  InferWindow,       \* window_size, in events
  ReconcileSecs,     \* reconciliation_secs
  DeathSecs,         \* IMPLICIT_DEATH_WINDOW_SECS
  ShopSecs,          \* IMPLICIT_SHOP_REQUEST_TIMEOUT_SECS
  LoggedKinds,       \* kinds of the events of a log
  LoggedGaps,        \* time from an event to the next
  MaxLogged          \* bound on the events of a log (exploration only)

ASSUME InferenceAssumption ==
  /\ {InferWindow, ReconcileSecs, DeathSecs, ShopSecs, MaxLogged} \subseteq Nat
  /\ LoggedGaps \subseteq Int

VARIABLE logged    \* the classified events, in the order of the log

LoggedInit == logged = <<>>

(* The next line is logged; its timestamp may be earlier.                  *)
Logs(kind, gap) ==
  /\ Len(logged) < MaxLogged
  /\ logged' = Append(logged,
       [t |-> gap + (IF logged = <<>> THEN 0 ELSE Last(logged).t), kind |-> kind])

LoggedNext == \E kind \in LoggedKinds, gap \in LoggedGaps : Logs(kind, gap)
LoggedSpec == LoggedInit /\ [][LoggedNext]_logged
-----------------------------------------------------------------------------
(* event_type_key and primary_entity_for: what reconciliation compares.    *)
event_type_key(kind) ==
  IF kind \in {"planetA", "planetB"} THEN "planet_terrain_load" ELSE kind

primary_entity_for(kind) ==
  CASE kind = "death" -> <<"player", "unknown">>
    [] kind = "spawn" -> <<"player", "geid">>
    [] kind = "destroyed" -> <<"vehicle", "id">>
    [] kind \in {"planetA", "planetB", "inventory"} -> <<"location", kind>>
    [] kind = "location_changed" -> <<"location", "to">>
    [] OTHER -> <<"shop", "id">>

(* The events a rule scans after i: at most InferWindow, up to the first   *)
(* that is too late; those with an earlier timestamp are skipped.          *)
Scanned(i, secs) ==
  LET ahead == {j \in (i + 1)..Len(logged) : j <= i + InferWindow}
      late(j) == logged[j].t - logged[i].t > secs
  IN {j \in ahead : logged[j].t >= logged[i].t /\ \A k \in (i + 1)..j : ~late(k)}

Inferred(i, event, inputs, entity) ==
  [trigger |-> i, event |-> event, t |-> logged[i].t, inputs |-> inputs, entity |-> entity,
   superseded_by |-> 0]

First(S) == CHOOSE j \in S : \A k \in S : j <= k

rule_implicit_death_after_vehicle_destruction ==
  LET spawns(i) == {j \in Scanned(i, DeathSecs) : logged[j].kind = "spawn"}
  IN {Inferred(i, "death", <<i, First(spawns(i))>>, primary_entity_for("death"))
        : i \in {i \in DOMAIN logged : logged[i].kind = "destroyed" /\ spawns(i) # {}}}

(* The last terrain load (0: none), whether an inventory request has come  *)
(* since, and the moves, one event later.                                  *)
Travels(acc, i) ==
  CASE logged[i].kind \in {"planetA", "planetB"} ->
         [prev |-> i, anchored |-> FALSE,
          out |-> IF acc.prev # 0 /\ ~acc.anchored /\ logged[acc.prev].kind # logged[i].kind
                  THEN acc.out \cup {Inferred(i, "location_changed", <<acc.prev, i>>,
                                              primary_entity_for("location_changed"))}
                  ELSE acc.out]
    [] logged[i].kind = "inventory" -> [acc EXCEPT !.anchored = TRUE]
    [] OTHER -> acc

rule_implicit_location_change ==
  LET travel[n \in 0..Len(logged)] ==
        IF n = 0 THEN [prev |-> 0, anchored |-> FALSE, out |-> {}] ELSE Travels(travel[n - 1], n)
  IN travel[Len(logged)].out

rule_implicit_shop_request_timeout ==
  LET answered(i) == \E j \in Scanned(i, ShopSecs) :
                       logged[j].kind \in Responses /\ SameShop(logged[i].kind, logged[j].kind)
  IN {Inferred(i, "timed_out", <<i>>, primary_entity_for(logged[i].kind))
        : i \in {i \in DOMAIN logged : logged[i].kind \in Requests /\ ~answered(i)}}

(* The first observed event of the same type and entity, not before and    *)
(* not long after; 0: none.                                                *)
reconcile_supersedes(row) ==
  LET seen == {j \in DOMAIN logged :
                 /\ event_type_key(logged[j].kind) = row.event
                 /\ primary_entity_for(logged[j].kind) = row.entity
                 /\ logged[j].t - row.t \in 0..ReconcileSecs}
  IN IF seen = {} THEN 0 ELSE First(seen)

infer ==
  {[row EXCEPT !.superseded_by = reconcile_supersedes(row)]
     : row \in rule_implicit_death_after_vehicle_destruction
                 \cup rule_implicit_location_change
                 \cup rule_implicit_shop_request_timeout}
-----------------------------------------------------------------------------
InOrder == \A i \in 1..(Len(logged) - 1) : logged[i].t <= logged[i + 1].t

(* In a log in order: a purchase that the transaction list confirms in     *)
(* time is not also inferred to have timed out, and one inferred to have   *)
(* timed out is, once the window has passed, not pending in the list; a    *)
(* death that was logged is shown once, the inferred one being superseded; *)
(* and two inferred moves are never in a row from the same planet.         *)
InferenceAgrees ==
  LET rows == infer
      paired == pair_transactions(logged)
      timedOut == {row.trigger : row \in {r \in rows : r.event = "timed_out"}}
      moves == {row \in rows : row.event = "location_changed"}
  IN InOrder =>
       /\ \A q \in DOMAIN paired :
            /\ paired[q] \in (q + 1)..(q + InferWindow)
            /\ logged[paired[q]].t - logged[q].t <= ShopSecs
            => q \notin timedOut
       /\ \A q \in timedOut :
            age_status(logged, paired, q, logged[q].t + ShopSecs + 1, ShopSecs) # "pending"
       /\ \A row \in rows, j \in DOMAIN logged :
            /\ row.event = "death" /\ logged[j].kind = "death"
            /\ logged[j].t - row.t \in 0..ReconcileSecs
            => row.superseded_by # 0
       /\ \A a, b \in moves : a.trigger < b.trigger =>
            \E k \in a.trigger..(b.trigger - 1) :
              logged[k].kind \in {"planetA", "planetB"} /\ logged[k].kind # logged[b.trigger].kind
=============================================================================
