----------------------------- MODULE Transactions -----------------------------
(***************************************************************************)
(* pair_transactions of starstats-core/src/transactions.rs: shop responses *)
(* are paired with requests, what is left ages.                            *)
(*                                                                         *)
(* An event is [t, kind].  "buy" and "buyAny" are requests with and        *)
(* without a shop id; "answer", "answerOther" and "answerAny" responses of *)
(* that shop, of another one and without an id.                            *)
(***************************************************************************)
EXTENDS Integers, SequencesExt

Requests == {"buy", "buyAny"}
Responses == {"answer", "answerOther", "answerAny"}

(* Same shop id, or one side without.                                      *)
SameShop(request, response) == request = "buyAny" \/ response # "answerOther"

Fits(evs, paired, resp, req) ==
  /\ evs[req].kind \in Requests /\ req \notin DOMAIN paired
  /\ evs[req].t =< evs[resp].t
  /\ SameShop(evs[req].kind, evs[resp].kind)

(* max_by on the timestamp: of equal ones the last in the list.            *)
Pick(evs, reqs) ==
  CHOOSE r \in reqs : \A s \in reqs :
    evs[s].t < evs[r].t \/ (evs[s].t = evs[r].t /\ s =< r)

(* pair_transactions: the responses in the order they come, each with the  *)
(* latest request not after it that is still free.                         *)
Confirm(evs, paired, resp) ==
  LET free == {r \in DOMAIN evs : Fits(evs, paired, resp, r)}
  IN IF evs[resp].kind \notin Responses \/ free = {} THEN paired
     ELSE LET req == Pick(evs, free) IN
          [r \in DOMAIN paired \cup {req} |-> IF r = req THEN resp ELSE paired[r]]

pair_transactions(evs) ==
  LET paired[n \in 0..Len(evs)] == IF n = 0 THEN <<>> ELSE Confirm(evs, paired[n - 1], n)
  IN paired[Len(evs)]

(* The status of a request, all responses being successes.                 *)
age_status(evs, paired, req, now, window) ==
  IF req \in DOMAIN paired THEN "confirmed"
  ELSE IF now - evs[req].t > window THEN "timed_out" ELSE "pending"
=============================================================================
