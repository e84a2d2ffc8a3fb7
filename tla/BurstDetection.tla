--------------------------- MODULE BurstDetection ---------------------------
(***************************************************************************)
(* detect_bursts of crates/starstats-core/src/templates.rs: collapse runs  *)
(* of like log lines.  A window maps the numbers of its lines to their     *)
(* kinds; a rule says which kind starts a burst, which kind counts, how    *)
(* many make a burst and how many other lines may stand between two        *)
(* members.                                                                *)
(***************************************************************************)
EXTENDS Integers, Sequences, FiniteSets, SequencesExt

LastLine(window) == Max(DOMAIN window \cup {0})

(* The walk w over one more line j; a line another burst has taken is not  *)
(* a member.  next is where the scan goes on.                              *)
Step(window, consumed, rule, w, j) ==
  CASE w.gap > rule.gap \/ j \notin DOMAIN window -> w
    [] w.gap <= rule.gap /\ j \in DOMAIN window \ consumed /\ window[j] = rule.member ->
         [members |-> w.members \cup {j}, gap |-> 0, next |-> j + 1]
    [] OTHER -> [w EXCEPT !.gap = @ + 1, !.next = IF w.gap >= rule.gap THEN j ELSE j + 1]

(* From an anchor at i, collect members until more than rule.gap lines in  *)
(* a row are not members.                                                  *)
Walk(window, consumed, rule, i) ==
  LET w[j \in i..LastLine(window)] ==
        IF j = i THEN [members |-> {i}, gap |-> 0, next |-> i + 1]
        ELSE Step(window, consumed, rule, w[j - 1], j)
  IN w[LastLine(window)]

IsBurst(members, rule) == Cardinality(members) >= rule.min

IsAnchor(window, consumed, rule, i) ==
  i \in DOMAIN window \ consumed /\ window[i] = rule.anchor

(* The bursts of one rule.                                                 *)
ScanRule(window, consumed, rule) ==
  LET scan[i \in 1..LastLine(window) + 1] ==
        IF i > LastLine(window) THEN {}
        ELSE IF ~IsAnchor(window, consumed, rule, i) THEN scan[i + 1]
        ELSE LET w == Walk(window, consumed, rule, i) IN
             IF IsBurst(w.members, rule)
             THEN {[rule |-> rule.id, members |-> w.members]} \cup scan[w.next]
             ELSE scan[i + 1]
  IN scan[1]

Consumed(hits) == UNION {h.members : h \in hits}

Anchor(hit) == CHOOSE i \in hit.members : \A j \in hit.members : i <= j

(* Rule after rule, each on what the rules before it have left.  The code  *)
(* sorts the bursts by their anchors at the end.                           *)
DetectBursts(window, rules) ==
  LET found[n \in 0..Len(rules)] ==
        IF n = 0 THEN {}
        ELSE found[n - 1] \cup ScanRule(window, Consumed(found[n - 1]), rules[n])
  IN found[Len(rules)]
-----------------------------------------------------------------------------
(* What the rules mean, without a scan.  Members are linked when the lines *)
(* between two of them fit the gap; a burst is a whole chain of links that *)
(* is long enough.  For rules whose anchor and member are the same.        *)
Chains(window, taken, rule) ==
  LET m == {i \in 1..Len(window) : window[i] = rule.member} \ taken
      linked(i, j) == \A k \in i..(j - 1) : m \cap (k..(k + rule.gap)) # {}
      chain(i) == {j \in m : IF i <= j THEN linked(i, j) ELSE linked(j, i)}
  IN {c \in {chain(i) : i \in m} : Cardinality(c) >= rule.min}

MeantBursts(window, rules) ==
  LET meant[n \in 0..Len(rules)] ==
        IF n = 0 THEN {}
        ELSE meant[n - 1] \cup {[rule |-> rules[n].id, members |-> c]
                                  : c \in Chains(window, Consumed(meant[n - 1]), rules[n])}
  IN meant[Len(rules)]
=============================================================================
