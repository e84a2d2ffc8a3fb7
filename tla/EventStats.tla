------------------------------ MODULE EventStats ------------------------------
(***************************************************************************)
(* What the server derives from the events of one handle: inferred play    *)
(* sessions (repo.rs), the location trace and dwell times, the timeline    *)
(* buckets (query.rs, validation.rs), and the shop transactions            *)
(* (Transactions).                                                         *)
(*                                                                         *)
(* An event is [t, kind]: its time and what the derivations tell apart.    *)
(* The kinds of LocationEvents carry a place.                              *)
(***************************************************************************)
EXTENDS Transactions, Lists, FiniteSetsExt

CONSTANTS
  IdleGap,         \* SESSION_IDLE_GAP_MINUTES
  DwellCap,        \* DWELL_CAP_MINUTES
  Staleness,       \* LOCATION_STALENESS_MINUTES
  DayLength,       \* ticks of a day
  TimelineDays,    \* the days parameter
  HistoryKinds,    \* kinds of the events of a history
  HistoryGaps,     \* time between an event and the next
  MaxHistory       \* bound on the events of a history (exploration only)

ASSUME EventStatsAssumption ==
  /\ {IdleGap, DwellCap, Staleness, MaxHistory} \subseteq Nat
  /\ {DayLength, TimelineDays} \subseteq Nat \ {0}
  /\ HistoryGaps \subseteq Nat

VARIABLE history   \* the events of the handle, by event_timestamp

At(i) == history[i].t
-----------------------------------------------------------------------------
(* sessions_for_handle: LAG marks the boundaries, a running SUM over the   *)
(* rows at or before the same timestamp numbers the sessions.              *)
Boundary(i) == i = 1 \/ At(i) - At(i - 1) > IdleGap
SessionId(i) == Cardinality({j \in DOMAIN history : At(j) =< At(i) /\ Boundary(j)})

sessions_for_handle ==
  {LET members == {i \in DOMAIN history : SessionId(i) = id}
   IN [start_at |-> Min({At(i) : i \in members}), end_at |-> Max({At(i) : i \in members}),
       event_count |-> Cardinality(members)]
   : id \in {SessionId(i) : i \in DOMAIN history}}
-----------------------------------------------------------------------------
(* LOCATION_EVENT_TYPES: an inventory request in a city, in one the table  *)
(* does not know or between places, a planet's terrain, a join of a shard. *)
LocationEvents == {"area18", "outpost", "transit", "arccorp", "join"}

None == "none"
Place(planet, city, system) == [planet |-> planet, city |-> city, system |-> system]

(* A space goes in front of an inner capital.                              *)
humanise == [ArcCorp |-> "Arc Corp", Outpost |-> "Outpost"]

(* Known cities have their labels in a table, others come from the key.    *)
parse_city_key(kind) ==
  IF kind = "area18" THEN Place("ArcCorp", "Area18", "Stanton")
  ELSE Place(None, humanise.Outpost, "Stanton")

parse_planet_key == Place(humanise.ArcCorp, None, "Stanton")

(* INVALID_LOCATION_ID, and join_pu, have no place; both are rows.         *)
resolve_place(kind) ==
  CASE kind \in {"area18", "outpost"} -> parse_city_key(kind)
    [] kind = "arccorp" -> parse_planet_key
    [] kind \in {"transit", "join"} -> Place(None, None, None)

Places == {resolve_place(kind) : kind \in LocationEvents}

(* location_event_stream, resolved                                         *)
location_event_stream(since) ==
  LET rows == Filtered(history, {e \in ToSet(history) : e.kind \in LocationEvents /\ e.t >= since})
  IN [i \in DOMAIN rows |-> [t |-> rows[i].t, place |-> resolve_place(rows[i].kind)]]

(* Adjacent events at one place become one entry.                          *)
Collapsed(out, e) ==
  IF out # <<>> /\ Last(out).place = e.place
  THEN [out EXCEPT ![Len(out)] = [place |-> e.place, started_at |-> Last(out).started_at,
                                  ended_at |-> e.t, event_count |-> Last(out).event_count + 1]]
  ELSE Append(out, [place |-> e.place, started_at |-> e.t, ended_at |-> e.t, event_count |-> 1])

collapse_to_trace(stream) ==
  LET out[n \in 0..Len(stream)] == IF n = 0 THEN <<>> ELSE Collapsed(out[n - 1], stream[n])
  IN out[Len(stream)]

(* location_trace shows the newest entries first.                          *)
location_trace(since) == Reverse(collapse_to_trace(location_event_stream(since)))

(* latest_location: the last row, and independently the last shard.        *)
latest_location ==
  LET rows == Filtered(history, {e \in ToSet(history) : e.kind \in LocationEvents})
  IN IF rows = <<>> THEN <<>> ELSE <<Last(rows)>>

(* location_current: nothing when the last row is too old.                 *)
location_current(now) ==
  LET last == latest_location
  IN IF last = <<>> THEN None
     ELSE IF last[1].t < now - Staleness THEN None ELSE resolve_place(last[1].kind)

(* aggregate_dwell: each event adds the capped time since the one before   *)
(* to that one's place; the last place gets a whole cap.                   *)
Capped(gap) == IF gap > DwellCap THEN DwellCap ELSE gap
AddDwell(sums, place, dwell) ==
  [sums EXCEPT ![place] = [dwell |-> @.dwell + dwell, visits |-> @.visits + 1]]

aggregate_dwell(since) ==
  LET stream == location_event_stream(since)
      sums[n \in 0..Len(stream)] ==
        IF n = 0 THEN [p \in Places |-> [dwell |-> 0, visits |-> 0]]
        ELSE IF n = 1 THEN sums[0]
        ELSE AddDwell(sums[n - 1], stream[n - 1].place, Capped(stream[n].t - stream[n - 1].t))
  IN IF stream = <<>> THEN sums[0] ELSE AddDwell(sums[Len(stream)], Last(stream).place, DwellCap)
-----------------------------------------------------------------------------
(* The timeline's query keeps the last TimelineDays * DayLength ticks, the *)
(* oldest day cut in its middle; the buckets are whole days up to today.   *)
Today(now) == now \div DayLength

timeline(now) ==
  LET recent == {i \in DOMAIN history : At(i) >= now - TimelineDays * DayLength}
  IN [d \in {At(i) \div DayLength : i \in recent} |->
        Cardinality({i \in recent : At(i) \div DayLength = d})]

build_timeline_buckets(now) ==
  LET rows == timeline(now)
  IN [d \in (Today(now) - TimelineDays + 1)..Today(now) |-> IF d \in DOMAIN rows THEN rows[d] ELSE 0]
-----------------------------------------------------------------------------
HistoryInit == history = <<>>

(* The next event of the handle is ingested.                               *)
Recorded(kind, gap) ==
  /\ Len(history) < MaxHistory
  /\ history' = Append(history,
       [t |-> gap + (IF history = <<>> THEN 0 ELSE Last(history).t), kind |-> kind])

HistoryNext == \E kind \in HistoryKinds, gap \in HistoryGaps : Recorded(kind, gap)

HistorySpec == HistoryInit /\ [][HistoryNext]_history
-----------------------------------------------------------------------------
(* Sessions partition the events: each is a stretch without an idle gap,   *)
(* bounded by idle gaps or the ends, and events of one instant stay in     *)
(* one session.                                                            *)
SessionsAsMeant ==
  LET Stretch(i, j) ==
        /\ \A k \in i..(j - 1) : At(k + 1) - At(k) =< IdleGap
        /\ i = 1 \/ At(i) - At(i - 1) > IdleGap
        /\ j = Len(history) \/ At(j + 1) - At(j) > IdleGap
  IN sessions_for_handle =
       {[start_at |-> At(ij[1]), end_at |-> At(ij[2]), event_count |-> ij[2] - ij[1] + 1]
          : ij \in {p \in (DOMAIN history) \X (DOMAIN history) : p[1] =< p[2] /\ Stretch(p[1], p[2])}}

(* The trace is the resolved stream cut where the place changes, and the   *)
(* dwell of a place is the capped time until the next resolved event,      *)
(* summed over the events there.                                           *)
JourneyFrom(since) ==
  LET r == location_event_stream(since)
      trace == Reverse(location_trace(since))
      Wait(i) == IF i = Len(r) THEN DwellCap ELSE Min({DwellCap, r[i + 1].t - r[i].t})
      upTo == Totals([n \in DOMAIN trace |-> trace[n].event_count], Len(trace))
      spent(p) == Totals([i \in DOMAIN r |-> IF r[i].place = p THEN Wait(i) ELSE 0], Len(r))
      dwell == aggregate_dwell(since)
  IN /\ upTo[Len(trace)] = Len(r)
     /\ \A n \in DOMAIN trace :
          /\ n > 1 => trace[n].place # trace[n - 1].place
          /\ trace[n].started_at = r[upTo[n - 1] + 1].t /\ trace[n].ended_at = r[upTo[n]].t
          /\ \A i \in (upTo[n - 1] + 1)..upTo[n] : r[i].place = trace[n].place
     /\ \A p \in Places :
          dwell[p] =
            [dwell |-> spent(p)[Len(r)], visits |-> Cardinality({i \in DOMAIN r : r[i].place = p})]

JourneyAsMeant == \A since \in {0} \cup {At(i) : i \in DOMAIN history} : JourneyFrom(since)

(* The current location is where the trace ends, unless that is stale.     *)
CurrentAsMeant ==
  LET trace == location_trace(0)
      now == IF history = <<>> THEN 0 ELSE Last(history).t
  IN location_current(now) =
       IF trace = <<>> THEN None
       ELSE IF trace[1].ended_at < now - Staleness THEN None ELSE trace[1].place

(* Every bucket of the timeline is a whole day's count, at any time of day.*)
TimelineAsMeant ==
  history # <<>> =>
    \A now \in Last(history).t..(Last(history).t + DayLength) :
      build_timeline_buckets(now) =
        [d \in (Today(now) - TimelineDays + 1)..Today(now) |->
           Cardinality({i \in DOMAIN history : At(i) \div DayLength = d})]

(* Whichever way the events are listed, a response confirms one request    *)
(* not after it, and no request stays open while a response it could have  *)
(* had is left over.                                                       *)
PairsAsMeant ==
  \A evs \in {history, Reverse(history)} :
    LET paired == pair_transactions(evs)
        used == {paired[q] : q \in DOMAIN paired}
    IN /\ Cardinality(used) = Cardinality(DOMAIN paired)
       /\ \A q \in DOMAIN paired : evs[q].t =< evs[paired[q]].t
       /\ \A q, r \in DOMAIN evs :
            evs[r].kind \in Responses /\ r \notin used => ~Fits(evs, paired, r, q)

(* The derived views are what they are meant to be.                        *)
StatsAsMeant ==
  SessionsAsMeant /\ JourneyAsMeant /\ CurrentAsMeant /\ TimelineAsMeant /\ PairsAsMeant
=============================================================================
