------------------------------ MODULE Donations ------------------------------
(***************************************************************************)
(* The donate flow of crates/starstats-server: checkout and webhook of     *)
(* revolut_routes.rs over the tables of orders.rs and supporters.rs, with  *)
(* Revolut (external) minting orders, taking payments and delivering its   *)
(* events at least once, in any order, several at a time.                  *)
(***************************************************************************)
EXTENDS Integers, FiniteSets

CONSTANTS
  Users,
  Orders,       \* local order ids
  Handlers,     \* webhook requests that may run at the same time
  MaxFaults,    \* bound on failed statements, lost answers, crashes (exploration only)
  NoUser, NoEvent

EventTypes == {"ORDER_AUTHORISED", "ORDER_COMPLETED", "ORDER_FAILED", "ORDER_CANCELLED"}
Events == [order : Orders, type : EventTypes]

ASSUME NoneAssumption == NoUser \notin Users /\ NoEvent \notin Events
ASSUME MaxFaultsAssumption == MaxFaults \in Nat

VARIABLES
  checkout,     \* [Orders -> step of its checkout request]
  owner,        \* [Orders -> user_id of the row, NoUser: no row]
  state,        \* [Orders -> state of the row]
  known,        \* orders whose row has its revolut_order_id
  remote,       \* [Orders -> Revolut's order]
  seen,         \* rows of revolut_webhook_events
  acked,        \* events Revolut has an answer of 200 for
  pc, event,    \* [Handlers -> step, event of its request]
  active,       \* users whose supporter_status is active
  credits,      \* history: [Orders -> payments recorded for it]
  faults

request == <<pc, event>>
vars == <<checkout, owner, state, known, remote, seen, acked, request, active, credits, faults>>

Init ==
  /\ checkout = [o \in Orders |-> "none"]
  /\ owner = [o \in Orders |-> NoUser] /\ state = [o \in Orders |-> "pending"]
  /\ known = {} /\ remote = [o \in Orders |-> "none"]
  /\ seen = {} /\ acked = {}
  /\ pc = [h \in Handlers |-> "idle"] /\ event = [h \in Handlers |-> NoEvent]
  /\ active = {} /\ credits = [o \in Orders |-> 0]
  /\ faults = 0

Fault == faults < MaxFaults /\ faults' = faults + 1
-----------------------------------------------------------------------------
(* checkout: the pending row first ...                                     *)

(* Mutant of CreatePending: the row does not say whose it is.              *)
CreatePendingAnonymous(u, o) ==
  /\ checkout[o] = "none"
  /\ checkout' = [checkout EXCEPT ![o] = "created"]
  /\ UNCHANGED <<owner, state, known, remote, seen, acked, request, active, credits, faults>>

CreatePending(u, o) ==
  /\ checkout[o] = "none"
  /\ checkout' = [checkout EXCEPT ![o] = "created"]
  /\ owner' = [owner EXCEPT ![o] = u]
  /\ UNCHANGED <<state, known, remote, seen, acked, request, active, credits, faults>>

(* ... then Revolut's order, whose answer carries its id and the URL ...   *)
CreateOrder(o) ==
  /\ checkout[o] = "created"
  /\ remote' = [remote EXCEPT ![o] = "open"]
  /\ checkout' = [checkout EXCEPT ![o] = "minted"]
  /\ UNCHANGED <<owner, state, known, seen, acked, request, active, credits, faults>>

(* (502: Revolut may have created the order all the same)                  *)
CreateOrderFails(o) ==
  /\ checkout[o] = "created" /\ Fault
  /\ \E r \in {"none", "open"} : remote' = [remote EXCEPT ![o] = r]
  /\ checkout' = [checkout EXCEPT ![o] = "failed"]
  /\ UNCHANGED <<owner, state, known, seen, acked, request, active, credits>>

(* ... which attach_revolut_details stores before the URL is answered.     *)
Attach(o) ==
  /\ checkout[o] = "minted"
  /\ known' = known \cup {o}
  /\ checkout' = [checkout EXCEPT ![o] = "answered"]
  /\ UNCHANGED <<owner, state, remote, seen, acked, request, active, credits, faults>>

(* Mutant of AttachFails: the URL is answered all the same.                *)
AttachFailsAnswers(o) ==
  /\ checkout[o] = "minted" /\ Fault
  /\ checkout' = [checkout EXCEPT ![o] = "answered"]
  /\ UNCHANGED <<owner, state, known, remote, seen, acked, request, active, credits>>

(* 500, no URL.                                                            *)
AttachFails(o) ==
  /\ checkout[o] = "minted" /\ Fault
  /\ checkout' = [checkout EXCEPT ![o] = "failed"]
  /\ UNCHANGED <<owner, state, known, remote, seen, acked, request, active, credits>>
-----------------------------------------------------------------------------
(* Revolut.  A customer who has the URL pays or fails to; an order nobody  *)
(* pays is cancelled.  Each of the three is final.                         *)
Settle(o, outcome) ==
  /\ remote[o] = "open"
  /\ outcome # "cancelled" => checkout[o] = "answered"
  /\ remote' = [remote EXCEPT ![o] = outcome]
  /\ UNCHANGED <<checkout, owner, state, known, seen, acked, request, active, credits, faults>>

Emits(outcome) ==
  CASE outcome = "paid" -> {"ORDER_AUTHORISED", "ORDER_COMPLETED"}
    [] outcome = "failed" -> {"ORDER_FAILED"}
    [] outcome = "cancelled" -> {"ORDER_CANCELLED"}
    [] OTHER -> {}

(* An event is delivered until it is answered with 200, and maybe again.   *)
Deliver(h, e) ==
  /\ pc[h] = "idle"
  /\ e.type \in Emits(remote[e.order])
  /\ pc' = [pc EXCEPT ![h] = "record"]
  /\ event' = [event EXCEPT ![h] = e]
  /\ UNCHANGED <<checkout, owner, state, known, remote, seen, acked, active, credits, faults>>
-----------------------------------------------------------------------------
(* webhook, from record_webhook_event on: what comes before it changes     *)
(* nothing and Revolut's own deliveries pass it.                           *)

Goto(h, step) == pc' = [pc EXCEPT ![h] = step] /\ UNCHANGED event

Return(h) == pc' = [pc EXCEPT ![h] = "idle"] /\ event' = [event EXCEPT ![h] = NoEvent]

(* The answer is 200, and Revolut receives it.                             *)
Ack(h) == Return(h) /\ acked' = acked \cup {event[h]}

(* Mutants of Seen: one row per order; no fence at all.                    *)
SeenByOrder(e) == \E f \in seen : f.order = e.order
SeenNever(e) == FALSE

Seen(e) == e \in seen

Record(h) ==
  /\ pc[h] = "record" /\ ~Seen(event[h])
  /\ seen' = seen \cup {event[h]}
  /\ Goto(h, "lookup")
  /\ UNCHANGED <<checkout, owner, state, known, remote, acked, active, credits, faults>>

Duplicate(h) ==
  /\ pc[h] = "record" /\ Seen(event[h])
  /\ Ack(h)
  /\ UNCHANGED <<checkout, owner, state, known, remote, seen, active, credits, faults>>

Actionable(e) == e.type # "ORDER_AUTHORISED"

(* find_by_revolut_id finds the row and the event is one to act on.        *)
Lookup(h) ==
  /\ pc[h] = "lookup"
  /\ event[h].order \in known /\ Actionable(event[h])
  /\ Goto(h, "mark")
  /\ UNCHANGED <<checkout, owner, state, known, remote, seen, acked, active, credits, faults>>

(* An unknown order or another event: 200.                                 *)
Ignore(h) ==
  /\ pc[h] = "lookup"
  /\ event[h].order \notin known \/ ~Actionable(event[h])
  /\ Ack(h)
  /\ UNCHANGED <<checkout, owner, state, known, remote, seen, active, credits, faults>>

Outcome(type) ==
  CASE type = "ORDER_COMPLETED" -> "completed"
    [] type = "ORDER_FAILED" -> "failed"
    [] type = "ORDER_CANCELLED" -> "cancelled"

(* mark_state, whatever the state was.                                     *)
Mark(h) ==
  /\ pc[h] = "mark"
  /\ state' = [state EXCEPT ![event[h].order] = Outcome(event[h].type)]
  /\ IF event[h].type = "ORDER_COMPLETED" THEN Goto(h, "credit") /\ UNCHANGED acked ELSE Ack(h)
  /\ UNCHANGED <<checkout, owner, known, remote, seen, active, credits, faults>>

(* Mutant of MarkPaymentReceived: for the user of whichever order is last. *)
MarkPaymentReceivedAnyUser(h) ==
  /\ pc[h] = "credit"
  /\ \E o \in known : active' = active \cup {owner[o]}
  /\ credits' = [credits EXCEPT ![event[h].order] = @ + 1]
  /\ Ack(h)
  /\ UNCHANGED <<checkout, owner, state, known, remote, seen, faults>>

MarkPaymentReceived(h) ==
  /\ pc[h] = "credit"
  /\ active' = active \cup {owner[event[h].order]}
  /\ credits' = [credits EXCEPT ![event[h].order] = @ + 1]
  /\ Ack(h)
  /\ UNCHANGED <<checkout, owner, state, known, remote, seen, faults>>

(* A statement fails (500) or the server dies: no answer of 200.           *)
HandlerFails(h) ==
  /\ pc[h] # "idle" /\ Fault
  /\ Return(h)
  /\ UNCHANGED <<checkout, owner, state, known, remote, seen, acked, active, credits>>

Handler(h) ==
  Record(h) \/ Duplicate(h) \/ Lookup(h) \/ Ignore(h) \/ Mark(h) \/ MarkPaymentReceived(h)

Next ==
  \/ \E o \in Orders :
       \/ \E u \in Users : CreatePending(u, o)
       \/ CreateOrder(o) \/ CreateOrderFails(o) \/ Attach(o) \/ AttachFails(o)
       \/ \E outcome \in {"paid", "failed", "cancelled"} : Settle(o, outcome)
  \/ \E h \in Handlers :
       \/ \E e \in Events : Deliver(h, e)
       \/ Handler(h) \/ HandlerFails(h)

Spec == Init /\ [][Next]_vars

Completed(o) == [order |-> o, type |-> "ORDER_COMPLETED"]

(* Handlers are polled, and Revolut delivers ORDER_COMPLETED until it is   *)
(* acked.                                                                  *)
FairSpec ==
  /\ Spec
  /\ \A h \in Handlers : WF_vars(Handler(h))
  /\ \A o \in Orders :
       SF_vars(Completed(o) \notin acked /\ \E h \in Handlers : Deliver(h, Completed(o)))
-----------------------------------------------------------------------------
(* Types; a row that exists has its user.                                  *)
TypeOK ==
  /\ checkout \in [Orders -> {"none", "created", "minted", "answered", "failed"}]
  /\ owner \in [Orders -> Users \cup {NoUser}]
  /\ \A o \in Orders : checkout[o] # "none" => owner[o] \in Users
  /\ state \in [Orders -> {"pending", "completed", "failed", "cancelled"}]
  /\ known \subseteq Orders
  /\ remote \in [Orders -> {"none", "open", "paid", "failed", "cancelled"}]
  /\ seen \subseteq Events /\ acked \subseteq Events
  /\ pc \in [Handlers -> {"idle", "record", "lookup", "mark", "credit"}]
  /\ event \in [Handlers -> Events \cup {NoEvent}]
  /\ active \subseteq Users
  /\ credits \in [Orders -> Nat]
  /\ faults \in Nat

(* However often, late or concurrently ORDER_COMPLETED is delivered, its   *)
(* payment is recorded once (supporters.rs, mark_payment_received: fenced  *)
(* by the primary key of revolut_webhook_events).                          *)
CreditedOnce == \A o \in Orders : credits[o] <= 1

(* Nobody becomes a supporter but through an order of their own that was   *)
(* paid and is marked completed.                                           *)
SupporterHasPaid ==
  \A u \in active : \E o \in Orders :
    owner[o] = u /\ remote[o] = "paid" /\ state[o] = "completed" /\ credits[o] > 0

(* An order that can be paid is one the webhook can find: its ORDER_       *)
(* COMPLETED is never dropped as that of an unknown order.                 *)
PaidOrderKnown == \A o \in Orders : remote[o] = "paid" => o \in known

(* As long as nothing fails, a paid order is credited in the end, although *)
(* events arrive out of order and a duplicate is acked while the first     *)
(* delivery is still being processed.                                      *)
PaidIsCredited ==
  \A o \in Orders :
    (remote[o] = "paid" /\ faults = 0) ~> (credits[o] = 1 \/ faults > 0)
=============================================================================
