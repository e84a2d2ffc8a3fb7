----------------------- MODULE BurstDetection_proofs -----------------------
(***************************************************************************)
(* Proofs about BurstDetection for any window and any rules that share no  *)
(* lines: that its recursive functions exist, what a walk and a scan find, *)
(* that the bursts are walks of their rules and share no line, and that    *)
(* for rules whose anchor is a member the scan finds what the rules mean.  *)
(***************************************************************************)
EXTENDS BurstDetection, FiniteSetTheorems, SequenceTheorems, TLAPS

(* Induction over lines, steps of a walk and rules is done by least        *)
(* counterexample.                                                         *)
LEMMA LeastNat == ASSUME NEW T, T \subseteq Nat, T # {} PROVE \E n \in T : \A m \in T : n <= m
<1>. DEFINE R == {ss \in Nat \X Nat : ss[1] < ss[2]}
<1>1. IsWellFoundedOn(R, Nat)
  BY NatLessThanWellFounded DEF OpToRel
<1>2. PICK x \in T : \A y \in T : <<y, x>> \notin R
  BY <1>1, WFMin
<1>3. \A y \in T : x <= y
  <2>1. TAKE y \in T
  <2>2. <<y, x>> \notin R /\ x \in Nat /\ y \in Nat
    BY <1>2
  <2>3. ~(y < x)
    BY <2>2
  <2>. QED BY <2>2, <2>3
<1>. QED  BY <1>3

(* The recursive function of Walk, up to line e.                           *)
IsWalk(w, window, consumed, rule, i, e) ==
  w = [j \in i .. e |-> IF j = i THEN [members |-> {i}, gap |-> 0, next |-> i + 1]
                        ELSE Step(window, consumed, rule, w[j - 1], j)]

(* There is one, so that Walk is what it says.                             *)
LEMMA WalkExists ==
  ASSUME NEW window, NEW consumed, NEW rule, NEW i \in Nat, NEW e \in Nat, i <= e
  PROVE  \E w : IsWalk(w, window, consumed, rule, i, e)
<1>. DEFINE T == {m \in Nat : i <= m /\ ~\E w : IsWalk(w, window, consumed, rule, i, m)}
<1>1. SUFFICES ASSUME T # {} PROVE FALSE
  OBVIOUS
<1>2. PICK n \in T : \A m \in T : n <= m
  BY <1>1, LeastNat, Zenon
<1>3. n # i
  <2>. DEFINE f == [j \in i .. i |-> [members |-> {i}, gap |-> 0, next |-> i + 1]]
  <2>1. IsWalk(f, window, consumed, rule, i, i)
    BY DEF IsWalk
  <2>. QED  BY <2>1
<1>4. PICK f : IsWalk(f, window, consumed, rule, i, n - 1)
  BY <1>2, <1>3
<1>. DEFINE g == [j \in i .. n |-> IF j = n THEN Step(window, consumed, rule, f[n - 1], n) ELSE f[j]]
<1>5. \A j \in i .. n : g[j] = IF j = i THEN [members |-> {i}, gap |-> 0, next |-> i + 1]
                        ELSE Step(window, consumed, rule, g[j - 1], j)
  <2>1. n \in Nat /\ i < n
    BY <1>2, <1>3
  <2>2. \A j \in i .. n - 1 : f[j] = IF j = i THEN [members |-> {i}, gap |-> 0, next |-> i + 1]
                        ELSE Step(window, consumed, rule, f[j - 1], j)
    BY <1>4 DEF IsWalk
  <2>3. \A j \in i .. n - 1 : g[j] = f[j]
    BY <2>1
  <2>4. g[n] = Step(window, consumed, rule, g[n - 1], n)
    BY <2>1, <2>3
  <2>5. ASSUME NEW j \in i .. n - 1, j # i
        PROVE  g[j] = Step(window, consumed, rule, g[j - 1], j)
    <3>1. j - 1 \in i .. n - 1
      BY <2>1, <2>5
    <3>. QED  BY <2>2, <2>3, <2>5, <3>1
  <2>6. g[i] = [members |-> {i}, gap |-> 0, next |-> i + 1]
    <3>1. i \in i .. n - 1
      BY <2>1
    <3>2. f[i] = [members |-> {i}, gap |-> 0, next |-> i + 1]
      BY <2>2, <3>1, Zenon
    <3>3. g[i] = f[i]
      BY <2>3, <3>1, Zenon
    <3>. QED  BY <3>2, <3>3, Zenon
  <2>7. \A j \in i .. n : j = i \/ j = n \/ (j \in i .. n - 1 /\ j # i)
    BY <2>1
  <2>. HIDE DEF g
  <2>. QED  BY <2>1, <2>4, <2>5, <2>6, <2>7, Zenon
<1>6. IsWalk(g, window, consumed, rule, i, n)
  BY <1>5, Zenon DEF IsWalk
<1>. QED  BY <1>2, <1>6

LEMMA WalkIs ==
  ASSUME NEW window, NEW consumed, NEW rule, NEW i \in Nat, LastLine(window) \in Nat, i <= LastLine(window)
  PROVE  \E w : /\ IsWalk(w, window, consumed, rule, i, LastLine(window))
                /\ Walk(window, consumed, rule, i) = w[LastLine(window)]
<1>. DEFINE w == CHOOSE w : IsWalk(w, window, consumed, rule, i, LastLine(window))
<1>1. IsWalk(w, window, consumed, rule, i, LastLine(window))
  BY WalkExists, Zenon
<1>2. Walk(window, consumed, rule, i) = w[LastLine(window)]
  BY DEF Walk, IsWalk
<1>. QED  BY <1>1, <1>2
-----------------------------------------------------------------------------
(* A walk after line j, when it started at i.                              *)
Walking(v, window, consumed, rule, i, j) ==
  /\ v \in [members : SUBSET Nat, gap : Nat, next : Nat]
  /\ v.next \in i + 1 .. j + 1 /\ i \in v.members
  /\ \A k \in v.members : k \in i .. v.next - 1
  /\ \A k \in v.members : k # i => k \in DOMAIN window \ consumed /\ window[k] = rule.member

(* A step stays, takes line j, or passes it.                               *)
LEMMA StepIs ==
  ASSUME NEW window, NEW consumed, NEW rule, rule.gap \in Nat, NEW j \in Nat,
         NEW v \in [members : SUBSET Nat, gap : Nat, next : Nat]
  PROVE  \/ Step(window, consumed, rule, v, j) = v
         \/ /\ j \in DOMAIN window \ consumed /\ window[j] = rule.member
            /\ Step(window, consumed, rule, v, j) =
                 [members |-> v.members \cup {j}, gap |-> 0, next |-> j + 1]
         \/ /\ Step(window, consumed, rule, v, j).members = v.members
            /\ Step(window, consumed, rule, v, j) \in [members : SUBSET Nat, gap : Nat, next : {j, j + 1}]
<1>1. CASE v.gap > rule.gap \/ j \notin DOMAIN window
  BY <1>1 DEF Step
<1>2. CASE ~(v.gap > rule.gap \/ j \notin DOMAIN window) /\ j \notin consumed /\ window[j] = rule.member
  BY <1>2 DEF Step
<1>3. CASE ~(v.gap > rule.gap \/ j \notin DOMAIN window) /\ ~(j \notin consumed /\ window[j] = rule.member)
  <2>1. Step(window, consumed, rule, v, j) =
          [v EXCEPT !.gap = @ + 1, !.next = IF v.gap >= rule.gap THEN j ELSE j + 1]
    BY <1>3 DEF Step
  <2>2. (IF v.gap >= rule.gap THEN j ELSE j + 1) \in {j, j + 1} /\ v.gap + 1 \in Nat
    OBVIOUS
  <2>3. DOMAIN v = {"members", "gap", "next"} /\ v.members \in SUBSET Nat
    OBVIOUS
  <2>. QED  BY <2>1, <2>2, <2>3
<1>. QED  BY <1>1, <1>2, <1>3

LEMMA StepWalks ==
  ASSUME NEW window, NEW consumed, NEW rule, rule.gap \in Nat, NEW i \in Nat, NEW j \in Nat, i < j,
         NEW v, Walking(v, window, consumed, rule, i, j - 1)
  PROVE  /\ Walking(Step(window, consumed, rule, v, j), window, consumed, rule, i, j)
         /\ v.members \subseteq Step(window, consumed, rule, v, j).members
<1>. DEFINE s == Step(window, consumed, rule, v, j)
<1>1. v \in [members : SUBSET Nat, gap : Nat, next : Nat] /\ v.next <= j
  BY DEF Walking
<1>2. \/ s = v
      \/ j \in DOMAIN window \ consumed /\ window[j] = rule.member
         /\ s = [members |-> v.members \cup {j}, gap |-> 0, next |-> j + 1]
      \/ s.members = v.members /\ s \in [members : SUBSET Nat, gap : Nat, next : {j, j + 1}]
  BY <1>1, StepIs, Zenon
<1>. HIDE DEF s
<1>3. CASE s = v
  BY <1>3 DEF Walking, s
<1>4. CASE j \in DOMAIN window \ consumed /\ window[j] = rule.member
           /\ s = [members |-> v.members \cup {j}, gap |-> 0, next |-> j + 1]
  <2>1. Walking(s, window, consumed, rule, i, j)
    BY <1>4 DEF Walking
  <2>. QED  BY <1>4, <2>1 DEF s
<1>5. CASE s.members = v.members /\ s \in [members : SUBSET Nat, gap : Nat, next : {j, j + 1}]
  <2>1. Walking(s, window, consumed, rule, i, j)
    BY <1>5 DEF Walking
  <2>. QED  BY <1>5, <2>1 DEF s
<1>. QED  BY <1>2, <1>3, <1>4, <1>5

LEMMA WalksOn ==
  ASSUME NEW w, NEW window, NEW consumed, NEW rule, rule.gap \in Nat, NEW i \in Nat, NEW e \in Nat,
         i <= e, IsWalk(w, window, consumed, rule, i, e)
  PROVE  /\ \A j \in i .. e : Walking(w[j], window, consumed, rule, i, j)
         /\ \A j \in i .. e : \A k \in i .. j : w[k].members \subseteq w[j].members
<1>1. w[i] = [members |-> {i}, gap |-> 0, next |-> i + 1]
  <2>1. i \in i .. e
    OBVIOUS
  <2>. QED  BY <2>1, Zenon DEF IsWalk
<1>2. \A j \in i + 1 .. e : w[j] = Step(window, consumed, rule, w[j - 1], j)
  <2>1. ASSUME NEW j \in i + 1 .. e PROVE j \in i .. e /\ j # i
    OBVIOUS
  <2>. QED  BY <2>1, Zenon DEF IsWalk
<1>3. Walking(w[i], window, consumed, rule, i, i)
  BY <1>1 DEF Walking
<1>. DEFINE Good(j) == /\ Walking(w[j], window, consumed, rule, i, j)
                       /\ \A k \in i .. j : w[k].members \subseteq w[j].members
            T == {j \in Nat : j \in i .. e /\ ~Good(j)}
<1>4. SUFFICES ASSUME T # {} PROVE FALSE
  <2>1. \A j \in i .. e : j \in Nat
    OBVIOUS
  <2>. QED  BY <2>1
<1>5. PICK n \in T : \A m \in T : n <= m
  BY <1>4, LeastNat, Zenon
<1>6. n \in Nat /\ n \in i .. e /\ ~Good(n)
  OBVIOUS
<1>7. n # i
  <2>1. Good(i)
    BY <1>3
  <2>. QED  BY <1>6, <2>1
<1>8. n \in i + 1 .. e /\ n - 1 \in Nat /\ n - 1 \in i .. e
  BY <1>6, <1>7
<1>9. Good(n - 1)
  <2>1. n - 1 \notin T
    BY <1>5, <1>6
  <2>. QED  BY <1>8, <2>1, Zenon
<1>10. w[n] = Step(window, consumed, rule, w[n - 1], n)
  BY <1>2, <1>8, Zenon
<1>11. Walking(w[n], window, consumed, rule, i, n) /\ w[n - 1].members \subseteq w[n].members
  <2>1. i < n
    BY <1>6, <1>7
  <2>2. Walking(w[n - 1], window, consumed, rule, i, n - 1)
    BY <1>9
  <2>. QED  BY <1>6, <1>10, <2>1, <2>2, StepWalks, Zenon
<1>12. \A k \in i .. n : k = n \/ k \in i .. n - 1
  BY <1>6
<1>13. Good(n)
  BY <1>9, <1>11, <1>12, Zenon
<1>. QED  BY <1>6, <1>13

(* Walks from the same line over windows that look the same to the rule    *)
(* are the same as far as both go.                                         *)
LEMMA WalksAgree ==
  ASSUME NEW w, NEW v, NEW window, NEW other, NEW consumed, NEW taken, NEW rule, rule.gap \in Nat,
         NEW i \in Nat, NEW d \in Nat, NEW e \in Nat, i <= d, d <= e,
         IsWalk(w, window, consumed, rule, i, d), IsWalk(v, other, taken, rule, i, e),
         \A j \in i + 1 .. d :
           \A u : Step(window, consumed, rule, u, j) = Step(other, taken, rule, u, j)
  PROVE  \A j \in i .. d : w[j] = v[j]
<1>1. w[i] = v[i]
  <2>1. i \in i .. d /\ i \in i .. e
    OBVIOUS
  <2>. QED  BY <2>1, Zenon DEF IsWalk
<1>2. \A j \in i + 1 .. d : /\ w[j] = Step(window, consumed, rule, w[j - 1], j)
                            /\ v[j] = Step(other, taken, rule, v[j - 1], j)
  <2>1. ASSUME NEW j \in i + 1 .. d PROVE j \in i .. d /\ j \in i .. e /\ j # i
    OBVIOUS
  <2>. QED  BY <2>1, Zenon DEF IsWalk
<1>. DEFINE T == {j \in Nat : j \in i .. d /\ w[j] # v[j]}
<1>3. SUFFICES ASSUME T # {} PROVE FALSE
  <2>1. \A j \in i .. d : j \in Nat
    OBVIOUS
  <2>. QED  BY <2>1
<1>4. PICK n \in T : \A m \in T : n <= m
  BY <1>3, LeastNat, Zenon
<1>5. n \in Nat /\ n \in i + 1 .. d /\ n - 1 \in Nat /\ n - 1 \in i .. d
  BY <1>1
<1>6. n - 1 \notin T
  BY <1>4, <1>5
<1>7. w[n - 1] = v[n - 1]
  BY <1>5, <1>6, Zenon
<1>8. w[n] = v[n]
  BY <1>2, <1>5, <1>7, Zenon
<1>. QED  BY <1>8
-----------------------------------------------------------------------------
(* One step of the scan of a rule, from what it finds after i.             *)
ScanAt(window, consumed, rule, f, i) ==
  IF i > LastLine(window) THEN {}
  ELSE IF ~IsAnchor(window, consumed, rule, i) THEN f[i + 1]
  ELSE LET w == Walk(window, consumed, rule, i) IN
       IF IsBurst(w.members, rule)
       THEN {[rule |-> rule.id, members |-> w.members]} \cup f[w.next]
       ELSE f[i + 1]

IsScan(f, window, consumed, rule, i) ==
  f = [j \in i .. LastLine(window) + 1 |-> ScanAt(window, consumed, rule, f, j)]

LEMMA WalkEnds ==
  ASSUME NEW window, NEW consumed, NEW rule, rule.gap \in Nat,
         LastLine(window) \in Nat, NEW i \in 1 .. LastLine(window)
  PROVE  Walking(Walk(window, consumed, rule, i), window, consumed, rule, i, LastLine(window))
<1>1. i \in Nat /\ i <= LastLine(window)
  OBVIOUS
<1>2. PICK w : /\ IsWalk(w, window, consumed, rule, i, LastLine(window))
               /\ Walk(window, consumed, rule, i) = w[LastLine(window)]
  BY <1>1, WalkIs
<1>3. LastLine(window) \in i .. LastLine(window)
  BY <1>1
<1>. QED  BY <1>1, <1>2, <1>3, WalksOn, Zenon

(* The scan looks ahead only.                                              *)
LEMMA ScanAhead ==
  ASSUME NEW window, NEW consumed, NEW rule, rule.gap \in Nat, LastLine(window) \in Nat,
         NEW i \in 1 .. LastLine(window) + 1, NEW f, NEW g,
         \A j \in i + 1 .. LastLine(window) + 1 : f[j] = g[j]
  PROVE  ScanAt(window, consumed, rule, f, i) = ScanAt(window, consumed, rule, g, i)
<1>1. CASE i > LastLine(window)
  BY <1>1, Zenon DEF ScanAt
<1>2. CASE ~(i > LastLine(window))
  <2>1. i \in 1 .. LastLine(window) /\ i + 1 \in i + 1 .. LastLine(window) + 1
    BY <1>2
  <2>2. Walk(window, consumed, rule, i).next \in i + 1 .. LastLine(window) + 1
    BY <2>1, WalkEnds DEF Walking
  <2>. QED  BY <1>2, <2>1, <2>2, Zenon DEF ScanAt
<1>. QED  BY <1>1, <1>2

(* The recursive function of ScanRule exists, built from its end.          *)
LEMMA ScanExists ==
  ASSUME NEW window, NEW consumed, NEW rule, rule.gap \in Nat, LastLine(window) \in Nat
  PROVE  \E f : IsScan(f, window, consumed, rule, 1)
<1>. DEFINE L == LastLine(window)
            T == {m \in Nat : m <= L /\ ~\E f : IsScan(f, window, consumed, rule, L + 1 - m)}
<1>1. SUFFICES ASSUME T # {} PROVE FALSE
  <2>1. L \in Nat /\ L <= L /\ L + 1 - L = 1
    OBVIOUS
  <2>2. L \notin T
    BY <1>1
  <2>. QED  BY <2>1, <2>2
<1>2. PICK n \in T : \A m \in T : n <= m
  BY <1>1, LeastNat, Zenon
<1>3. n # 0
  <2>. DEFINE f == [j \in L + 1 .. L + 1 |-> {}]
  <2>1. \A g : \A j \in L + 1 .. L + 1 : ScanAt(window, consumed, rule, g, j) = {}
    BY DEF ScanAt
  <2>2. f = [j \in L + 1 .. L + 1 |-> ScanAt(window, consumed, rule, f, j)]
    BY <2>1, Zenon
  <2>3. L + 1 - 0 = L + 1
    OBVIOUS
  <2>4. \E g : IsScan(g, window, consumed, rule, L + 1 - 0)
    BY <2>2, <2>3, Zenon DEF IsScan
  <2>. QED  BY <2>4
<1>. DEFINE a == L + 1 - n
<1>4. /\ n \in Nat /\ n <= L /\ n - 1 \in Nat /\ n - 1 <= L /\ L + 1 - (n - 1) = a + 1
      /\ a \in 1 .. L + 1 /\ a + 1 <= L + 1
  BY <1>2, <1>3
<1>5. n - 1 \notin T
  BY <1>2, <1>4
<1>6. PICK f : IsScan(f, window, consumed, rule, a + 1)
  BY <1>4, <1>5, Zenon
<1>. DEFINE g == [j \in a .. L + 1 |-> IF j = a THEN ScanAt(window, consumed, rule, f, a) ELSE f[j]]
<1>7. \A j \in a + 1 .. L + 1 : g[j] = f[j]
  BY <1>4
<1>8. \A j \in a .. L + 1 : j = a \/ j \in a + 1 .. L + 1
  BY <1>4
<1>9. \A j \in a + 1 .. L + 1 : f[j] = ScanAt(window, consumed, rule, f, j)
  BY <1>6, Zenon DEF IsScan
<1>10. ASSUME NEW j \in a .. L + 1
       PROVE  ScanAt(window, consumed, rule, f, j) = ScanAt(window, consumed, rule, g, j)
  <2>1. \A k \in j + 1 .. L + 1 : f[k] = g[k]
    BY <1>4, <1>7
  <2>2. j \in 1 .. L + 1
    BY <1>4
  <2>. HIDE DEF g, a
  <2>. QED  BY <2>1, <2>2, ScanAhead, Zenon
<1>11. g = [j \in a .. L + 1 |-> ScanAt(window, consumed, rule, g, j)]
  <2>1. \A j \in a .. L + 1 : g[j] = ScanAt(window, consumed, rule, f, j)
    BY <1>7, <1>8, <1>9, Zenon
  <2>. HIDE DEF g
  <2>2. \A j \in a .. L + 1 : g[j] = ScanAt(window, consumed, rule, g, j)
    BY <1>10, <2>1, Zenon
  <2>3. g = [j \in a .. L + 1 |-> g[j]]
    BY Zenon DEF g
  <2>. QED  BY <2>2, <2>3, Zenon
<1>12. IsScan(g, window, consumed, rule, L + 1 - n)
  BY <1>11, Zenon DEF IsScan
<1>. QED  BY <1>2, <1>12

LEMMA ScanIs ==
  ASSUME NEW window, NEW consumed, NEW rule, rule.gap \in Nat, LastLine(window) \in Nat
  PROVE  \E f : IsScan(f, window, consumed, rule, 1) /\ ScanRule(window, consumed, rule) = f[1]
<1>. DEFINE f == CHOOSE f : IsScan(f, window, consumed, rule, 1)
<1>1. IsScan(f, window, consumed, rule, 1)
  BY ScanExists, Zenon
<1>2. ScanRule(window, consumed, rule) = f[1]
  BY DEF ScanRule, IsScan, ScanAt
<1>. QED  BY <1>1, <1>2
-----------------------------------------------------------------------------
(* A window of numbered lines; a rule and the bursts it may find in it.    *)
WindowOK(window) ==
  /\ DOMAIN window \subseteq Nat \ {0} /\ LastLine(window) \in Nat
  /\ \A k \in DOMAIN window : k <= LastLine(window)

(* The members of the walk from i to e.  What earlier rules have taken      *)
(* does not matter: no line counts for two rules.                          *)
Chain(window, rule, i, e, members) ==
  \E w : IsWalk(w, window, {}, rule, i, e) /\ members = w[e].members

IsHit(m, window, rule) ==
  \E i \in DOMAIN window :
    /\ i \in m /\ \A k \in m : i <= k
    /\ \A k \in m : k \in DOMAIN window /\ window[k] \in {rule.anchor, rule.member}
    /\ Chain(window, rule, i, LastLine(window), m)

Apart(hits) == \A g, h \in hits : g # h => g.members \cap h.members = {}

LEMMA WalkHits ==
  ASSUME NEW window, WindowOK(window), NEW consumed, NEW rule, rule.gap \in Nat,
         \A k \in DOMAIN window \cap consumed : window[k] # rule.member,
         NEW i \in Nat, IsAnchor(window, consumed, rule, i)
  PROVE  /\ IsHit(Walk(window, consumed, rule, i).members, window, rule)
         /\ \A k \in Walk(window, consumed, rule, i).members :
              k \in DOMAIN window \ consumed /\ k \in i .. Walk(window, consumed, rule, i).next - 1
<1>. DEFINE L == LastLine(window) s == Walk(window, consumed, rule, i)
<1>1. i \in DOMAIN window \ consumed /\ window[i] = rule.anchor /\ i <= L /\ L \in Nat /\ i \in 1 .. L
  BY DEF IsAnchor, WindowOK
<1>2. Walking(s, window, consumed, rule, i, L)
  BY <1>1, WalkEnds
<1>3. /\ i \in s.members /\ \A k \in s.members : k \in i .. s.next - 1
      /\ \A k \in s.members : k # i => k \in DOMAIN window \ consumed /\ window[k] = rule.member
  BY <1>2 DEF Walking
<1>4. PICK v : IsWalk(v, window, {}, rule, i, L)
  BY <1>1, WalkExists
<1>5. PICK w : IsWalk(w, window, consumed, rule, i, L) /\ s = w[L]
  BY <1>1, WalkIs
<1>6. ASSUME NEW j \in i + 1 .. L, NEW u
      PROVE  Step(window, consumed, rule, u, j) = Step(window, {}, rule, u, j)
  <2>1. j \in DOMAIN window \ consumed /\ window[j] = rule.member <=>
          j \in DOMAIN window \ {} /\ window[j] = rule.member
    OBVIOUS
  <2>. QED  BY <2>1 DEF Step
<1>7. \A j \in i .. L : w[j] = v[j]
  <2>1. L <= L
    BY <1>1
  <2>2. \A j \in i + 1 .. L : \A u : Step(window, consumed, rule, u, j) = Step(window, {}, rule, u, j)
    BY <1>6, Zenon
  <2>. HIDE DEF L
  <2>. QED  BY <1>1, <1>4, <1>5, <2>1, <2>2, WalksAgree
<1>8. s = v[L]
  BY <1>1, <1>5, <1>7
<1>. HIDE DEF s, L
<1>9. Chain(window, rule, i, L, s.members)
  BY <1>4, <1>8 DEF Chain
<1>10. \A k \in s.members : i <= k
  BY <1>1, <1>2, <1>3 DEF Walking
<1>. QED  BY <1>1, <1>3, <1>9, <1>10 DEF IsHit, s, L

LEMMA ScanHits ==
  ASSUME NEW window, WindowOK(window), NEW consumed, NEW rule, rule.gap \in Nat,
         \A k \in DOMAIN window \cap consumed : window[k] # rule.member
  PROVE  /\ \A h \in ScanRule(window, consumed, rule) :
              /\ h.rule = rule.id /\ IsHit(h.members, window, rule)
              /\ \A k \in h.members : k \notin consumed
         /\ Apart(ScanRule(window, consumed, rule))
<1>. DEFINE L == LastLine(window)
<1>1. L \in Nat
  BY DEF WindowOK
<1>2. PICK f : IsScan(f, window, consumed, rule, 1) /\ ScanRule(window, consumed, rule) = f[1]
  BY <1>1, ScanIs
<1>. DEFINE Good(i) == /\ \A h \in f[i] : /\ h.rule = rule.id /\ IsHit(h.members, window, rule)
                                          /\ \A k \in h.members : k \notin consumed /\ i <= k
                       /\ Apart(f[i])
            T == {m \in Nat : m <= L /\ ~Good(L + 1 - m)}
<1>3. SUFFICES Good(1)
  BY <1>2
<1>4. SUFFICES ASSUME T # {} PROVE FALSE
  <2>1. L \in Nat /\ L <= L /\ L + 1 - L = 1
    BY <1>1
  <2>2. L \notin T
    BY <1>4
  <2>. HIDE DEF Good
  <2>. QED  BY <2>1, <2>2
<1>. HIDE DEF Good
<1>5. PICK n \in T : \A m \in T : n <= m
  BY <1>4, LeastNat, Zenon
<1>. DEFINE i == L + 1 - n
<1>6. n \in Nat /\ n <= L /\ i \in 1 .. L + 1 /\ ~Good(i)
  BY <1>1, <1>5
<1>7. f[i] = ScanAt(window, consumed, rule, f, i)
  BY <1>2, <1>6, Zenon DEF IsScan
<1>8. \A j \in i + 1 .. L + 1 : Good(j)
  <2>1. TAKE j \in i + 1 .. L + 1
  <2>2. L + 1 - j \in Nat /\ L + 1 - j < n /\ L + 1 - j <= L /\ L + 1 - (L + 1 - j) = j
    BY <1>1, <1>6
  <2>3. L + 1 - j \notin T
    BY <1>5, <2>2
  <2>. QED  BY <2>2, <2>3
<1>. HIDE DEF i, T
<1>9. i \in Nat /\ i + 1 \in Nat /\ \A j \in i + 1 .. L + 1 : j \in Nat
  BY <1>6
<1>10. CASE i > L
  <2>1. f[i] = {}
    BY <1>7, <1>10, Zenon DEF ScanAt
  <2>. QED  BY <1>6, <2>1 DEF Good, Apart
<1>11. ASSUME i <= L, f[i] = f[i + 1] PROVE FALSE
  <2>1. i + 1 \in i + 1 .. L + 1
    BY <1>1, <1>9, <1>11
  <2>2. Good(i + 1)
    BY <1>8, <2>1
  <2>3. \A h \in f[i] : \A k \in h.members : k \in Nat
    BY <1>11, <2>2 DEF Good, IsHit, WindowOK
  <2>4. Good(i)
    BY <1>9, <1>11, <2>2, <2>3 DEF Good
  <2>. QED  BY <1>6, <2>4
<1>. DEFINE w == Walk(window, consumed, rule, i)
            h == [rule |-> rule.id, members |-> w.members]
<1>12. ASSUME i <= L, IsAnchor(window, consumed, rule, i), f[i] = {h} \cup f[w.next]
       PROVE  FALSE
  <2>1. i \in 1 .. L
    BY <1>6, <1>9, <1>12
  <2>2. /\ IsHit(w.members, window, rule)
        /\ \A k \in w.members : k \in DOMAIN window \ consumed /\ k \in i .. w.next - 1
    BY <1>9, <1>12, WalkHits
  <2>3. w.next \in i + 1 .. L + 1
    BY <1>1, <2>1, WalkEnds DEF Walking
  <2>4. Good(w.next)
    BY <1>8, <2>3
  <2>10. h.members = w.members /\ h.rule = rule.id
    OBVIOUS
  <2>. HIDE DEF h, w
  <2>5. \A g \in f[w.next] : \A k \in g.members : k \in Nat /\ w.next <= k /\ i <= k /\ k \notin h.members
    <3>1. TAKE g \in f[w.next]
    <3>2. TAKE k \in g.members
    <3>3. k \in Nat /\ w.next <= k
      BY <2>4 DEF Good, IsHit, WindowOK
    <3>. QED  BY <1>9, <2>2, <2>3, <2>10, <3>3
  <2>6. \A k \in h.members : k \notin consumed /\ i <= k
    BY <1>9, <2>2, <2>3, <2>10
  <2>7. \A g \in f[i] : g.rule = rule.id /\ IsHit(g.members, window, rule) /\ \A k \in g.members : k \notin consumed /\ i <= k
    BY <1>12, <2>2, <2>4, <2>5, <2>6, <2>10 DEF Good
  <2>8. Apart(f[i])
    BY <1>12, <2>4, <2>5 DEF Good, Apart
  <2>. QED  BY <1>6, <2>7, <2>8 DEF Good
<1>. QED
  <2>1. CASE ~(i > L) /\ ~IsAnchor(window, consumed, rule, i)
    BY <1>1, <1>7, <1>9, <1>11, <2>1 DEF ScanAt
  <2>2. CASE ~(i > L) /\ IsAnchor(window, consumed, rule, i)
    BY <1>1, <1>7, <1>9, <1>11, <1>12, <2>2 DEF ScanAt
  <2>. QED  BY <1>10, <2>1, <2>2
-----------------------------------------------------------------------------
IsFound(f, window, rules, n) ==
  f = [k \in 0 .. n |-> IF k = 0 THEN {}
                        ELSE f[k - 1] \cup ScanRule(window, Consumed(f[k - 1]), rules[k])]

LEMMA FoundExists ==
  ASSUME NEW window, NEW rules, NEW N \in Nat
  PROVE  \E f : IsFound(f, window, rules, N)
<1>. DEFINE T == {m \in Nat : ~\E f : IsFound(f, window, rules, m)}
<1>1. SUFFICES ASSUME T # {} PROVE FALSE
  OBVIOUS
<1>2. PICK n \in T : \A m \in T : n <= m
  BY <1>1, LeastNat, Zenon
<1>3. n # 0
  <2>. DEFINE f == [k \in 0 .. 0 |-> {}]
  <2>1. f = [k \in 0 .. 0 |-> IF k = 0 THEN {}
                              ELSE f[k - 1] \cup ScanRule(window, Consumed(f[k - 1]), rules[k])]
    OBVIOUS
  <2>. HIDE DEF f
  <2>2. IsFound(f, window, rules, 0)
    BY <2>1, Zenon DEF IsFound
  <2>. QED  BY <2>2
<1>4. n \in Nat /\ n - 1 \in Nat /\ n - 1 \notin T
  BY <1>2, <1>3
<1>5. PICK f : IsFound(f, window, rules, n - 1)
  BY <1>4
<1>. DEFINE next(k, u) == u \cup ScanRule(window, Consumed(u), rules[k])
            g == [k \in 0 .. n |-> IF k = n THEN next(n, f[n - 1]) ELSE f[k]]
<1>6. \A k \in 0 .. n - 1 : f[k] = IF k = 0 THEN {} ELSE next(k, f[k - 1])
  BY <1>5, Zenon DEF IsFound
<1>7. \A k \in 0 .. n - 1 : g[k] = f[k]
  BY <1>4
<1>. HIDE DEF next
<1>8. g[n] = next(n, g[n - 1])
  <2>1. n - 1 \in 0 .. n - 1 /\ n \in 0 .. n
    BY <1>4
  <2>. QED  BY <1>7, <2>1
<1>9. ASSUME NEW k \in 0 .. n - 1, k # 0
      PROVE  g[k] = next(k, g[k - 1])
  <2>1. k - 1 \in 0 .. n - 1
    BY <1>4, <1>9
  <2>. QED  BY <1>6, <1>7, <1>9, <2>1
<1>10. g[0] = {}
  <2>1. 0 \in 0 .. n - 1
    BY <1>4
  <2>. QED  BY <1>6, <1>7, <2>1
<1>11. \A k \in 0 .. n : k = 0 \/ k = n \/ (k \in 0 .. n - 1 /\ k # 0)
  BY <1>4
<1>12. g = [k \in 0 .. n |-> g[k]]
  BY Zenon
<1>. HIDE DEF g
<1>13. \A k \in 0 .. n : g[k] = IF k = 0 THEN {} ELSE next(k, g[k - 1])
  BY <1>3, <1>8, <1>9, <1>10, <1>11, Zenon
<1>14. g = [k \in 0 .. n |-> IF k = 0 THEN {} ELSE next(k, g[k - 1])]
  BY <1>12, <1>13, Zenon
<1>15. IsFound(g, window, rules, n)
  BY <1>14, Zenon DEF IsFound, next
<1>. QED  BY <1>2, <1>15

LEMMA DetectIs ==
  ASSUME NEW window, NEW rules, Len(rules) \in Nat
  PROVE  \E f : IsFound(f, window, rules, Len(rules)) /\ DetectBursts(window, rules) = f[Len(rules)]
<1>. DEFINE f == CHOOSE f : IsFound(f, window, rules, Len(rules))
<1>1. IsFound(f, window, rules, Len(rules))
  BY FoundExists, Zenon
<1>2. DetectBursts(window, rules) = f[Len(rules)]
  BY DEF DetectBursts, IsFound
<1>. QED  BY <1>1, <1>2

RulesOK(rules) ==
  /\ Len(rules) \in Nat
  /\ \A n \in 1 .. Len(rules) : rules[n].gap \in Nat
  /\ \A m, n \in 1 .. Len(rules) :
       m # n => {rules[m].anchor, rules[m].member} \cap {rules[n].anchor, rules[n].member} = {}

(* The bursts detect_bursts finds in a window are of its rules, each is    *)
(* the walk of its rule from its first line over lines the rule takes, and *)
(* no two share a line: what a rule has consumed no later one counts again *)
(* (templates.rs 269-341).                                                 *)
THEOREM DetectHits ==
  ASSUME NEW window, WindowOK(window), NEW rules, RulesOK(rules)
  PROVE  /\ \A h \in DetectBursts(window, rules) : \E n \in 1 .. Len(rules) :
              h.rule = rules[n].id /\ IsHit(h.members, window, rules[n])
         /\ Apart(DetectBursts(window, rules))
<1>. DEFINE N == Len(rules)
<1>1. N \in Nat
  BY DEF RulesOK
<1>2. PICK f : IsFound(f, window, rules, N) /\ DetectBursts(window, rules) = f[N]
  BY <1>1, DetectIs
<1>. DEFINE Good(k) == /\ \A h \in f[k] : \E n \in 1 .. k : h.rule = rules[n].id /\ IsHit(h.members, window, rules[n])
                       /\ Apart(f[k])
            T == {k \in Nat : k <= N /\ ~Good(k)}
<1>3. SUFFICES Good(N)
  BY <1>2
<1>4. SUFFICES ASSUME T # {} PROVE FALSE
  <2>1. N \in Nat /\ N <= N /\ N \notin T
    BY <1>1, <1>4
  <2>. HIDE DEF Good
  <2>. QED  BY <2>1
<1>. HIDE DEF Good
<1>5. PICK k \in T : \A m \in T : k <= m
  BY <1>4, LeastNat, Zenon
<1>6. k \in Nat /\ k <= N /\ ~Good(k) /\ k \in 0 .. N
  BY <1>1, <1>5
<1>7. f[k] = IF k = 0 THEN {} ELSE f[k - 1] \cup ScanRule(window, Consumed(f[k - 1]), rules[k])
  BY <1>2, <1>6, Zenon DEF IsFound
<1>8. k # 0
  <2>1. ASSUME f[k] = {} PROVE Good(k)
    BY <2>1 DEF Good, Apart
  <2>. QED  BY <1>6, <1>7, <2>1
<1>9. k - 1 \in Nat /\ k - 1 <= N /\ k \in 1 .. N
  BY <1>1, <1>6, <1>8
<1>10. Good(k - 1)
  <2>1. k - 1 \notin T
    BY <1>5, <1>6
  <2>. QED  BY <1>9, <2>1
<1>. DEFINE old == f[k - 1] new == ScanRule(window, Consumed(f[k - 1]), rules[k])
<1>11. \A i \in DOMAIN window \cap Consumed(old) : window[i] # rules[k].member
  <2>1. SUFFICES ASSUME NEW i \in DOMAIN window, NEW h \in old, i \in h.members
                 PROVE  window[i] # rules[k].member
    BY DEF Consumed
  <2>2. PICK n \in 1 .. k - 1 : IsHit(h.members, window, rules[n])
    BY <1>10 DEF Good
  <2>3. n # k /\ n \in 1 .. N
    BY <1>9
  <2>4. window[i] \in {rules[n].anchor, rules[n].member}
    BY <2>1, <2>2 DEF IsHit
  <2>. QED  BY <1>9, <2>3, <2>4 DEF RulesOK
<1>12. rules[k].gap \in Nat
  BY <1>9 DEF RulesOK
<1>13. /\ \A h \in new : /\ h.rule = rules[k].id /\ IsHit(h.members, window, rules[k])
                         /\ \A i \in h.members : i \notin Consumed(old)
       /\ Apart(new)
  BY <1>11, <1>12, ScanHits
<1>14. f[k] = old \cup new
  BY <1>7, <1>8
<1>. HIDE DEF old, new
<1>15. \A h \in f[k] : \E n \in 1 .. k : h.rule = rules[n].id /\ IsHit(h.members, window, rules[n])
  <2>1. ASSUME NEW h \in old PROVE \E n \in 1 .. k : h.rule = rules[n].id /\ IsHit(h.members, window, rules[n])
    <3>1. PICK n \in 1 .. k - 1 : h.rule = rules[n].id /\ IsHit(h.members, window, rules[n])
      BY <1>10 DEF Good, old
    <3>2. n \in 1 .. k
      BY <1>9
    <3>. QED  BY <3>1, <3>2
  <2>2. k \in 1 .. k
    BY <1>9
  <2>. QED  BY <1>13, <1>14, <2>1, <2>2, Zenon
<1>16. Apart(f[k])
  <2>1. \A g \in old, h \in new : g.members \cap h.members = {}
    BY <1>13 DEF Consumed
  <2>2. Apart(old) /\ Apart(new)
    BY <1>10, <1>13 DEF Good, old
  <2>. QED  BY <1>14, <2>1, <2>2 DEF Apart
<1>. QED  BY <1>6, <1>15, <1>16 DEF Good
-----------------------------------------------------------------------------
(* What the rules mean, for a sequence of lines and rules whose anchor is  *)
(* their member.  m are the lines that count, g the gap that may stand     *)
(* between two of them.                                                    *)
Marked(window, taken, rule) == {i \in 1 .. Len(window) : window[i] = rule.member} \ taken
Linked(m, g, i, j) == \A k \in i .. (j - 1) : m \cap (k .. (k + g)) # {}
From(m, g, i) == {j \in m : i <= j /\ Linked(m, g, i, j)}

(* Those at i or later that continue no burst begun there.                 *)
Heads(m, g, i) == {p \in m : i <= p /\ \A q \in m : i <= q /\ q < p => ~Linked(m, g, q, p)}

(* The chain from i ends at l.                                             *)
Reaches(m, g, i, l) ==
  l \in m /\ i <= l /\ Linked(m, g, i, l) /\ m \cap ((l + 1) .. (l + 1 + g)) = {}

LEMMA LinkedParts ==
  ASSUME NEW m, NEW g \in Nat, NEW i \in Nat, NEW j \in Nat, NEW k \in Nat, i <= j, j <= k
  PROVE  Linked(m, g, i, k) <=> Linked(m, g, i, j) /\ Linked(m, g, j, k)
<1>1. i .. (k - 1) = (i .. (j - 1)) \cup (j .. (k - 1))
  OBVIOUS
<1>. QED  BY <1>1, Zenon DEF Linked

LEMMA ReachIs ==
  ASSUME NEW m, m \subseteq Nat, NEW g \in Nat, NEW i \in m, NEW l, Reaches(m, g, i, l)
  PROVE  /\ From(m, g, i) = {j \in m : i <= j /\ j <= l}
         /\ \A q, p \in m : q <= l /\ l < p => ~Linked(m, g, q, p)
<1>1. l \in Nat /\ i \in Nat /\ i <= l /\ Linked(m, g, i, l) /\ l + 1 \in Nat
  BY DEF Reaches
<1>2. ASSUME NEW q \in m, NEW p \in m, q <= l, l < p, Linked(m, g, q, p) PROVE FALSE
  <2>1. q \in Nat /\ p \in Nat
    OBVIOUS
  <2>2. p \notin (l + 1) .. (l + 1 + g)
    BY DEF Reaches
  <2>3. l + 1 \in q .. (p - 1)
    BY <1>1, <1>2, <2>1, <2>2
  <2>4. m \cap ((l + 1) .. ((l + 1) + g)) # {}
    BY <1>2, <2>3 DEF Linked
  <2>. QED  BY <2>4 DEF Reaches
<1>3. ASSUME NEW j \in m, i <= j, j <= l PROVE Linked(m, g, i, j)
  <2>1. j \in Nat
    OBVIOUS
  <2>. QED  BY <1>1, <1>3, <2>1, LinkedParts
<1>4. \A j \in m : j <= l \/ l < j
  BY <1>1
<1>. QED  BY <1>1, <1>2, <1>3, <1>4 DEF From

LEMMA LastOf ==
  ASSUME NEW window, NEW n \in Nat, DOMAIN window = 1 .. n
  PROVE  LastLine(window) = n /\ WindowOK(window)
<1>1. \E x \in (1 .. n) \cup {0} : \A y \in (1 .. n) \cup {0} : x >= y
  <2>1. n \in (1 .. n) \cup {0} /\ \A y \in (1 .. n) \cup {0} : n >= y
    OBVIOUS
  <2>. QED  BY <2>1
<1>2. /\ LastLine(window) \in (1 .. n) \cup {0}
      /\ \A y \in (1 .. n) \cup {0} : LastLine(window) >= y
  <2>1. LastLine(window) = CHOOSE x \in (1 .. n) \cup {0} : \A y \in (1 .. n) \cup {0} : x >= y
    BY DEF LastLine, Max
  <2>. QED  BY <1>1, <2>1
<1>3. LastLine(window) = n
  <2>1. n \in (1 .. n) \cup {0}
    OBVIOUS
  <2>. QED  BY <1>2, <2>1
<1>. QED  BY <1>3 DEF WindowOK

(* What a walk from i has found at line j: the lines of the chain so far,  *)
(* and whether it goes on.                                                 *)
Found(v, m, g, i, j, l) ==
  /\ l \in m /\ i <= l /\ l <= j /\ Linked(m, g, i, l) /\ v.members = {k \in m : i <= k /\ k <= l}
  /\ \/ /\ v.gap = j - l /\ v.gap <= g /\ v.next = j + 1
        /\ \A k \in m : k <= l \/ j < k
     \/ /\ v.gap > g /\ v.next = l + g + 1 /\ l + g + 1 <= j
        /\ \A k \in m : k <= l \/ l + g + 1 < k

FoundBy(v, m, g, i, j) ==
  /\ v.gap \in Nat /\ v = [members |-> v.members, gap |-> v.gap, next |-> v.next]
  /\ \E l \in Nat : Found(v, m, g, i, j, l)

LEMMA FoundStep ==
  ASSUME NEW window, NEW n \in Nat, DOMAIN window = 1 .. n, NEW consumed, NEW rule, rule.gap \in Nat,
         NEW m, m = {k \in 1 .. n : window[k] = rule.member} \ consumed,
         NEW i \in m, NEW j \in 1 .. n, i < j,
         NEW v, FoundBy(v, m, rule.gap, i, j - 1)
  PROVE  FoundBy(Step(window, consumed, rule, v, j), m, rule.gap, i, j)
<1>. DEFINE g == rule.gap
            s == Step(window, consumed, rule, v, j)
<1>0. PICK l \in Nat : Found(v, m, g, i, j - 1, l)
  BY DEF FoundBy
<1>9. v.gap \in Nat /\ v = [members |-> v.members, gap |-> v.gap, next |-> v.next]
  BY DEF FoundBy
<1>1. /\ m \subseteq 1 .. n /\ l \in m /\ i <= l /\ l <= j - 1 /\ i \in Nat /\ l \in Nat /\ g \in Nat
      /\ Linked(m, g, i, l) /\ v.members = {k \in m : i <= k /\ k <= l}
  BY <1>0 DEF Found
<1>2. j \in m <=> j \in DOMAIN window \ consumed /\ window[j] = rule.member
  OBVIOUS
<1>3. CASE v.gap > g
  <2>1. s = v
    BY <1>3, <1>9 DEF Step
  <2>2. Found(v, m, g, i, j, l)
    BY <1>0, <1>1, <1>3 DEF Found
  <2>. QED  BY <1>1, <1>9, <2>1, <2>2 DEF FoundBy
<1>4. CASE v.gap <= g /\ j \in m
  <2>1. s = [members |-> v.members \cup {j}, gap |-> 0, next |-> j + 1]
    BY <1>2, <1>4 DEF Step
  <2>. HIDE DEF s
  <2>2. s.members = v.members \cup {j} /\ s.gap = 0 /\ s.next = j + 1
    BY <2>1
  <2>3. v.gap = j - 1 - l /\ \A k \in m : k <= l \/ j - 1 < k
    BY <1>0, <1>1, <1>4, <1>9 DEF Found
  <2>4. Linked(m, g, l, j)
    <3>1. ASSUME NEW k \in l .. (j - 1) PROVE m \cap (k .. (k + g)) # {}
      <4>1. j \in k .. (k + g) \/ l \in k .. (k + g)
        BY <1>1, <1>4, <2>3
      <4>. QED  BY <1>1, <1>4, <4>1
    <3>. QED  BY <3>1 DEF Linked
  <2>5. Linked(m, g, i, j)
    BY <1>1, <2>4, LinkedParts
  <2>6. s.members = {k \in m : i <= k /\ k <= j}
    BY <1>1, <1>4, <2>2, <2>3
  <2>7. Found(s, m, g, i, j, j)
    <3>1. s.gap = j - j /\ s.gap <= g /\ \A k \in m : k <= j \/ j < k
      BY <1>1, <2>2
    <3>. QED  BY <1>1, <1>4, <2>2, <2>5, <2>6, <3>1 DEF Found
  <2>8. s.gap \in Nat /\ s = [members |-> s.members, gap |-> s.gap, next |-> s.next]
    BY <2>1
  <2>9. FoundBy(s, m, g, i, j)
    <3>1. j \in Nat
      OBVIOUS
    <3>. QED  BY <2>7, <2>8, <3>1, Zenon DEF FoundBy
  <2>. QED  BY <2>9 DEF s
<1>5. CASE v.gap <= g /\ j \notin m
  <2>1. s = [v EXCEPT !.gap = @ + 1, !.next = IF v.gap >= g THEN j ELSE j + 1]
    BY <1>2, <1>5, <1>9 DEF Step
  <2>. HIDE DEF s
  <2>2. /\ s = [members |-> v.members, gap |-> v.gap + 1, next |-> IF v.gap >= g THEN j ELSE j + 1]
        /\ s.members = v.members /\ s.gap = v.gap + 1 /\ s.next = IF v.gap >= g THEN j ELSE j + 1
    BY <1>9, <2>1
  <2>3. v.gap = j - 1 - l /\ \A k \in m : k <= l \/ j - 1 < k
    BY <1>0, <1>1, <1>5, <1>9 DEF Found
  <2>4. \A k \in m : k <= l \/ j < k
    BY <1>1, <1>5, <2>3
  <2>5. Found(s, m, g, i, j, l)
    <3>1. CASE v.gap >= g
      <4>0. j = l + g + 1 /\ s.next = j
        BY <1>1, <1>5, <1>9, <2>2, <2>3, <3>1
      <4>1. s.gap > g /\ s.next = l + g + 1 /\ l + g + 1 <= j /\ \A k \in m : k <= l \/ l + g + 1 < k
        BY <1>1, <1>5, <1>9, <2>2, <2>4, <3>1, <4>0
      <4>. QED  BY <1>1, <2>2, <4>1 DEF Found
    <3>2. CASE ~(v.gap >= g)
      <4>1. s.gap = j - l /\ s.gap <= g /\ s.next = j + 1
        BY <1>1, <1>9, <2>2, <2>3, <3>2
      <4>. QED  BY <1>1, <2>2, <2>4, <4>1 DEF Found
    <3>. QED  BY <3>1, <3>2
  <2>6. s.gap \in Nat /\ s = [members |-> s.members, gap |-> s.gap, next |-> s.next]
    BY <1>9, <2>2
  <2>7. FoundBy(s, m, g, i, j)
    BY <2>5, <2>6 DEF FoundBy
  <2>. QED  BY <2>7 DEF s
<1>. QED  BY <1>1, <1>3, <1>4, <1>5, <1>9

(* What a walk from i to the last line n comes back with.                  *)
WalksTo(s, m, g, i, n) ==
  \E l \in Nat : /\ Reaches(m, g, i, l) /\ l <= n /\ s.members = From(m, g, i)
                 /\ s.next \in l + 1 .. n + 1 /\ \A k \in m : k <= l \/ s.next <= k

LEMMA FoundAll ==
  ASSUME NEW m, NEW g \in Nat, NEW n \in Nat, m \subseteq 1 .. n, NEW i \in m, NEW s, FoundBy(s, m, g, i, n)
  PROVE  WalksTo(s, m, g, i, n)
<1>1. m \subseteq Nat
  OBVIOUS
<1>7. PICK l \in Nat : Found(s, m, g, i, n, l)
  BY DEF FoundBy
<1>8. /\ l \in m /\ i <= l /\ l <= n /\ Linked(m, g, i, l) /\ s.members = {k \in m : i <= k /\ k <= l}
      /\ g \in Nat
  BY <1>7 DEF Found
<1>9. /\ s.next \in l + 1 .. n + 1 /\ \A k \in m : k <= l \/ s.next <= k
      /\ \A k \in m : k \notin (l + 1) .. (l + 1 + g)
  <2>1. CASE s.gap = n - l /\ s.gap <= g /\ s.next = n + 1 /\ \A k \in m : k <= l \/ n < k
    <3>1. n + 1 \in l + 1 .. n + 1
      BY <1>8
    <3>2. \A k \in m : k \in Nat /\ k <= l
      BY <2>1
    <3>3. \A k \in m : k \notin (l + 1) .. (l + 1 + g)
      BY <1>8, <3>2
    <3>. QED  BY <2>1, <3>1, <3>2, <3>3
  <2>2. CASE s.gap > g /\ s.next = l + g + 1 /\ l + g + 1 <= n /\ \A k \in m : k <= l \/ l + g + 1 < k
    BY <1>1, <1>8, <2>2
  <2>. QED  BY <1>7, <2>1, <2>2 DEF Found
<1>10. Reaches(m, g, i, l)
  BY <1>8, <1>9 DEF Reaches
<1>11. s.members = From(m, g, i)
  <2>1. /\ From(m, g, i) = {j \in m : i <= j /\ j <= l}
        /\ \A q, p \in m : q <= l /\ l < p => ~Linked(m, g, q, p)
    BY <1>1, <1>10, ReachIs, Zenon
  <2>. QED  BY <1>8, <2>1, Zenon
<1>. QED  BY <1>8, <1>9, <1>10, <1>11 DEF WalksTo

LEMMA WalkReaches ==
  ASSUME NEW window, NEW n \in Nat, DOMAIN window = 1 .. n, NEW consumed, NEW rule, rule.gap \in Nat,
         NEW m, m = {k \in 1 .. n : window[k] = rule.member} \ consumed, NEW i \in m
  PROVE  WalksTo(Walk(window, consumed, rule, i), m, rule.gap, i, n)
<1>. DEFINE g == rule.gap
<1>1. LastLine(window) = n /\ i \in 1 .. n /\ i \in Nat /\ i <= n /\ m \subseteq Nat /\ m \subseteq 1 .. n
  BY LastOf
<1>2. PICK w : IsWalk(w, window, consumed, rule, i, n) /\ Walk(window, consumed, rule, i) = w[n]
  BY <1>1, WalkIs
<1>. DEFINE T == {j \in Nat : j \in i .. n /\ ~FoundBy(w[j], m, g, i, j)}
<1>3. w[i] = [members |-> {i}, gap |-> 0, next |-> i + 1]
  <2>1. i \in i .. n
    BY <1>1
  <2>. QED  BY <1>2, <2>1, Zenon DEF IsWalk
<1>4. FoundBy(w[i], m, g, i, i)
  <2>1. Linked(m, g, i, i)
    BY <1>1 DEF Linked
  <2>2. {k \in m : i <= k /\ k <= i} = {i}
    BY <1>1
  <2>3. Found(w[i], m, g, i, i, i)
    BY <1>1, <1>3, <2>1, <2>2 DEF Found
  <2>4. w[i].gap \in Nat /\ w[i] = [members |-> w[i].members, gap |-> w[i].gap, next |-> w[i].next]
    BY <1>3
  <2>. QED  BY <1>1, <2>3, <2>4, Zenon DEF FoundBy
<1>5. T = {}
  <2>1. SUFFICES ASSUME T # {} PROVE FALSE
    OBVIOUS
  <2>2. PICK j \in T : \A k \in T : j <= k
    BY <2>1, LeastNat, Zenon
  <2>3. j \in Nat /\ j \in i .. n /\ ~FoundBy(w[j], m, g, i, j)
    OBVIOUS
  <2>4. j # i
    BY <1>4, <2>3
  <2>5. j - 1 \in Nat /\ j - 1 \in i .. n /\ i < j /\ j \in 1 .. n /\ ~(j <= j - 1)
    BY <1>1, <2>3, <2>4
  <2>6. FoundBy(w[j - 1], m, g, i, j - 1)
    <3>1. j - 1 \notin T
      BY <2>2, <2>5
    <3>. QED  BY <2>5, <3>1, Zenon
  <2>7. w[j] = Step(window, consumed, rule, w[j - 1], j)
    BY <1>2, <2>3, <2>4, Zenon DEF IsWalk
  <2>8. FoundBy(Step(window, consumed, rule, w[j - 1], j), m, g, i, j)
    BY <2>5, <2>6, FoundStep
  <2>. QED  BY <2>3, <2>7, <2>8
<1>6. FoundBy(w[n], m, g, i, n)
  <2>1. n \in i .. n
    BY <1>1
  <2>. HIDE DEF g
  <2>. QED  BY <1>5, <2>1
<1>. QED  BY <1>1, <1>2, <1>6, FoundAll

(* A burst ends before the next head, and what is left of it after its     *)
(* first line is no longer than it was.                                    *)
LEMMA HeadsAfter ==
  ASSUME NEW m, NEW g \in Nat, NEW n \in Nat, m \subseteq 1 .. n, NEW i \in m, NEW s, WalksTo(s, m, g, i, n)
  PROVE  /\ Heads(m, g, i) = {i} \cup Heads(m, g, s.next)
         /\ Heads(m, g, s.next) \subseteq Heads(m, g, i + 1)
         /\ \A p \in Heads(m, g, i + 1) \ Heads(m, g, s.next) : From(m, g, p) \subseteq From(m, g, i)
<1>1. PICK l \in Nat : /\ Reaches(m, g, i, l) /\ l <= n
                       /\ s.next \in l + 1 .. n + 1 /\ \A k \in m : k <= l \/ s.next <= k
  BY DEF WalksTo
<1>. DEFINE t == s.next
<1>2. /\ m \subseteq Nat /\ i \in Nat /\ l \in m /\ i <= l /\ t \in Nat /\ l < t /\ i < t
      /\ Linked(m, g, i, l)
  BY <1>1 DEF Reaches
<1>3. /\ From(m, g, i) = {j \in m : i <= j /\ j <= l}
      /\ \A q, p \in m : q <= l /\ l < p => ~Linked(m, g, q, p)
  BY <1>1, <1>2, ReachIs
<1>4. \A k \in m : k <= l \/ t <= k
  BY <1>1
<1>. HIDE DEF t
<1>5. Heads(m, g, t) \subseteq Heads(m, g, i)
  <2>1. SUFFICES ASSUME NEW p \in Heads(m, g, t), NEW q \in m, i <= q, q < p
                 PROVE  ~Linked(m, g, q, p)
    <3>1. \A p \in Heads(m, g, t) : p \in m /\ i <= p
      BY <1>2 DEF Heads
    <3>. QED  BY <3>1, Zenon DEF Heads
  <2>2. p \in m /\ t <= p /\ l < p
    BY <1>2 DEF Heads
  <2>3. CASE t <= q
    BY <2>1, <2>3 DEF Heads
  <2>4. CASE q <= l
    BY <1>3, <2>2, <2>4
  <2>. QED  BY <1>4, <2>3, <2>4
<1>6. i \in Heads(m, g, i)
  BY <1>2 DEF Heads
<1>7. ASSUME NEW p \in Heads(m, g, i), p # i PROVE p \in Heads(m, g, t)
  <2>1. p \in m /\ i <= p /\ i < p
    BY <1>2, <1>7 DEF Heads
  <2>2. ~Linked(m, g, i, p)
    BY <1>2, <2>1 DEF Heads
  <2>3. ~(p <= l)
    BY <1>3, <2>1, <2>2 DEF From
  <2>4. t <= p
    BY <1>4, <2>1, <2>3
  <2>. QED  BY <1>2, <2>1, <2>4 DEF Heads
<1>8. Heads(m, g, t) \subseteq Heads(m, g, i + 1)
  <2>1. SUFFICES ASSUME NEW p \in Heads(m, g, t) PROVE p \in Heads(m, g, i + 1)
    OBVIOUS
  <2>2. p \in m /\ t <= p /\ i + 1 <= p /\ \A q \in m : i + 1 <= q => i <= q
    BY <1>2 DEF Heads
  <2>3. \A q \in m : i <= q /\ q < p => ~Linked(m, g, q, p)
    BY <1>5 DEF Heads
  <2>. QED  BY <2>2, <2>3 DEF Heads
<1>9. ASSUME NEW p \in Heads(m, g, i + 1), p \notin Heads(m, g, t) PROVE From(m, g, p) \subseteq From(m, g, i)
  <2>1. p \in m /\ i + 1 <= p /\ \A q \in m : i + 1 <= q /\ q < p => ~Linked(m, g, q, p)
    BY DEF Heads
  <2>2. p <= l
    <3>1. SUFFICES ASSUME t <= p PROVE FALSE
      BY <1>4, <2>1
    <3>2. \A q \in m : t <= q => i + 1 <= q
      BY <1>2
    <3>. QED  BY <1>9, <2>1, <3>1, <3>2 DEF Heads
  <2>3. ASSUME NEW j \in From(m, g, p) PROVE j \in From(m, g, i)
    <3>1. j \in m /\ p <= j /\ Linked(m, g, p, j)
      BY DEF From
    <3>2. j <= l
      BY <1>2, <1>3, <2>1, <2>2, <3>1
    <3>3. i <= j
      BY <1>2, <2>1, <3>1
    <3>. QED  BY <1>3, <3>1, <3>2, <3>3
  <2>. QED  BY <2>3
<1>. QED  BY <1>5, <1>6, <1>7, <1>8, <1>9 DEF t

(* The bursts that begin at line i or later.                               *)
MeantFrom(m, rule, i) ==
  {[rule |-> rule.id, members |-> From(m, rule.gap, p)]
     : p \in {p \in Heads(m, rule.gap, i) : Cardinality(From(m, rule.gap, p)) >= rule.min}}

RuleOK(rule) == rule.gap \in Nat /\ rule.min \in Nat /\ rule.anchor = rule.member

StepMeant(m, rule, i, s) ==
  MeantFrom(m, rule, i) =
    IF IsBurst(s.members, rule)
    THEN {[rule |-> rule.id, members |-> s.members]} \cup MeantFrom(m, rule, s.next)
    ELSE MeantFrom(m, rule, i + 1)

LEMMA MeantSteps ==
  ASSUME NEW rule, RuleOK(rule), NEW n \in Nat, NEW m, m \subseteq 1 .. n, NEW i \in m,
         NEW s, WalksTo(s, m, rule.gap, i, n)
  PROVE  StepMeant(m, rule, i, s)
<1>. DEFINE g == rule.gap
            Long(p) == Cardinality(From(m, rule.gap, p)) >= rule.min
<1>1. /\ Heads(m, g, i) = {i} \cup Heads(m, g, s.next)
      /\ Heads(m, g, s.next) \subseteq Heads(m, g, i + 1)
      /\ \A p \in Heads(m, g, i + 1) \ Heads(m, g, s.next) : From(m, g, p) \subseteq From(m, g, i)
  BY HeadsAfter DEF RuleOK
<1>2. s.members = From(m, g, i)
  BY DEF WalksTo
<1>3. IsBurst(s.members, rule) <=> Long(i)
  BY <1>2 DEF IsBurst
<1>4. CASE Long(i)
  <2>1. {p \in Heads(m, g, i) : Long(p)} = {i} \cup {p \in Heads(m, g, s.next) : Long(p)}
    BY <1>1, <1>4
  <2>. QED  BY <1>2, <1>3, <1>4, <2>1 DEF MeantFrom, StepMeant
<1>5. CASE ~Long(i)
  <2>1. ASSUME NEW p \in Heads(m, g, i + 1), p \notin Heads(m, g, s.next) PROVE ~Long(p)
    <3>1. From(m, g, p) \subseteq From(m, g, i)
      BY <1>1, <2>1
    <3>2. IsFiniteSet(From(m, g, i))
      <4>1. IsFiniteSet(1 .. n)
        <5>1. 1 \in Int /\ n \in Int
          OBVIOUS
        <5>. QED  BY <5>1, FS_Interval, Zenon
      <4>2. From(m, g, i) \subseteq 1 .. n
        BY DEF From
      <4>. QED  BY <4>1, <4>2, FS_Subset, Zenon
    <3>3. Cardinality(From(m, g, p)) <= Cardinality(From(m, g, i))
      BY <3>1, <3>2, FS_Subset, Zenon
    <3>4. Cardinality(From(m, g, p)) \in Nat /\ Cardinality(From(m, g, i)) \in Nat
      BY <3>1, <3>2, FS_Subset, FS_CardinalityType, Zenon
    <3>. QED  BY <1>5, <3>3, <3>4 DEF RuleOK
  <2>2. {p \in Heads(m, g, i) : Long(p)} = {p \in Heads(m, g, i + 1) : Long(p)}
    BY <1>1, <1>5, <2>1, Zenon
  <2>. QED  BY <1>3, <1>5, <2>2, Zenon DEF MeantFrom, StepMeant
<1>. QED  BY <1>4, <1>5

LEMMA HeadsSkip ==
  ASSUME NEW m, NEW g, NEW n \in Nat, m \subseteq 1 .. n, NEW i \in Nat, i \notin m
  PROVE  Heads(m, g, i) = Heads(m, g, i + 1)
<1>1. \A q \in m : i <= q <=> i + 1 <= q
  OBVIOUS
<1>. QED  BY <1>1, Zenon DEF Heads

LEMMA ScanMeans ==
  ASSUME NEW window, NEW n \in Nat, DOMAIN window = 1 .. n, NEW consumed, NEW rule, RuleOK(rule),
         NEW m, m = {k \in 1 .. n : window[k] = rule.member} \ consumed
  PROVE  ScanRule(window, consumed, rule) = MeantFrom(m, rule, 1)
<1>1. LastLine(window) = n /\ m \subseteq 1 .. n /\ rule.gap \in Nat
  BY LastOf DEF RuleOK
<1>2. PICK f : IsScan(f, window, consumed, rule, 1) /\ ScanRule(window, consumed, rule) = f[1]
  BY <1>1, ScanIs
<1>. DEFINE Good(i) == f[i] = MeantFrom(m, rule, i)
            T == {k \in Nat : k <= n /\ ~Good(n + 1 - k)}
<1>3. SUFFICES Good(1)
  BY <1>2
<1>. HIDE DEF Good
<1>4. SUFFICES ASSUME T # {} PROVE FALSE
  <2>1. n <= n /\ n + 1 - n = 1
    OBVIOUS
  <2>2. n \notin T
    BY <1>4
  <2>. QED  BY <2>1, <2>2
<1>5. PICK k \in T : \A j \in T : k <= j
  BY <1>4, LeastNat, Zenon
<1>. DEFINE i == n + 1 - k
<1>6. k \in Nat /\ k <= n /\ i \in 1 .. n + 1 /\ ~Good(i)
  BY <1>5
<1>7. f[i] = ScanAt(window, consumed, rule, f, i)
  BY <1>1, <1>2, <1>6, Zenon DEF IsScan
<1>8. \A j \in i + 1 .. n + 1 : Good(j)
  <2>1. TAKE j \in i + 1 .. n + 1
  <2>2. n + 1 - j \in Nat /\ n + 1 - j < k /\ n + 1 - j <= n /\ n + 1 - (n + 1 - j) = j
    BY <1>6
  <2>3. n + 1 - j \notin T
    <3>. HIDE DEF T
    <3>1. n + 1 - j \in T => k <= n + 1 - j
      BY <1>5, Zenon
    <3>. QED  BY <1>6, <2>2, <3>1
  <2>. QED  BY <2>2, <2>3
<1>. HIDE DEF i, T
<1>9. i \in Nat /\ i + 1 \in Nat
  BY <1>6
<1>10. CASE i > n
  <2>1. f[i] = {}
    BY <1>1, <1>7, <1>10, Zenon DEF ScanAt
  <2>2. Heads(m, rule.gap, i) = {}
    BY <1>1, <1>9, <1>10 DEF Heads
  <2>. QED  BY <1>6, <2>1, <2>2 DEF Good, MeantFrom
<1>11. CASE i <= n
  <2>1. i \in 1 .. n /\ i + 1 \in i + 1 .. n + 1 /\ ~(i > n)
    BY <1>6, <1>9, <1>11
  <2>2. IsAnchor(window, consumed, rule, i) <=> i \in m
    BY <2>1 DEF IsAnchor, RuleOK
  <2>3. Good(i + 1)
    BY <1>8, <2>1
  <2>4. CASE i \notin m
    <3>1. f[i] = f[i + 1]
      BY <1>1, <1>7, <2>1, <2>2, <2>4, Zenon DEF ScanAt
    <3>2. Heads(m, rule.gap, i) = Heads(m, rule.gap, i + 1)
      BY <1>1, <1>9, <2>4, HeadsSkip
    <3>. QED  BY <1>6, <2>3, <3>1, <3>2, Zenon DEF Good, MeantFrom
  <2>5. CASE i \in m
    <3>. DEFINE w == Walk(window, consumed, rule, i)
    <3>1. WalksTo(w, m, rule.gap, i, n)
      BY <1>1, <2>5, WalkReaches
    <3>2. f[i] = IF IsBurst(w.members, rule)
                 THEN {[rule |-> rule.id, members |-> w.members]} \cup f[w.next] ELSE f[i + 1]
      BY <1>1, <1>7, <2>1, <2>2, <2>5, Zenon DEF ScanAt
    <3>. HIDE DEF w
    <3>3. StepMeant(m, rule, i, w)
      BY <1>1, <2>5, <3>1, MeantSteps
    <3>4. w.next \in i + 1 .. n + 1
      <4>1. PICK l \in Nat : i <= l /\ w.next \in l + 1 .. n + 1
        BY <3>1 DEF WalksTo, Reaches
      <4>. QED  BY <1>9, <4>1
    <3>5. Good(w.next)
      BY <1>8, <3>4
    <3>. QED  BY <1>6, <2>3, <3>2, <3>3, <3>5, Zenon DEF Good, StepMeant
  <2>. QED  BY <2>4, <2>5
<1>. QED  BY <1>6, <1>9, <1>10, <1>11

(* Every line that counts is of the burst of one head.                     *)
ChainOf(m, g, i) == {j \in m : IF i <= j THEN Linked(m, g, i, j) ELSE Linked(m, g, j, i)}

LEMMA ChainsAre ==
  ASSUME NEW m, m \subseteq Nat \ {0}, NEW g \in Nat
  PROVE  /\ \A p \in Heads(m, g, 1) : p \in m /\ ChainOf(m, g, p) = From(m, g, p)
         /\ \A i \in m : \E p \in Heads(m, g, 1) : ChainOf(m, g, i) = From(m, g, p)
<1>1. ASSUME NEW p \in Heads(m, g, 1) PROVE p \in m /\ ChainOf(m, g, p) = From(m, g, p)
  <2>1. p \in m /\ \A q \in m : q < p => ~Linked(m, g, q, p)
    BY DEF Heads
  <2>2. \A j \in m : p <= j \/ j < p
    BY <2>1
  <2>. QED  BY <2>1, <2>2, Zenon DEF ChainOf, From
<1>2. ASSUME NEW i \in m PROVE \E p \in Heads(m, g, 1) : ChainOf(m, g, i) = From(m, g, p)
  <2>. DEFINE T == {q \in m : q <= i /\ Linked(m, g, q, i)}
  <2>1. i \in T
    BY DEF Linked
  <2>2. PICK p \in T : \A q \in T : p <= q
    <3>1. T \subseteq Nat /\ T # {}
      BY <2>1
    <3>. HIDE DEF T
    <3>. QED  BY <3>1, LeastNat, Zenon
  <2>3. p \in m /\ p \in Nat /\ 1 <= p /\ p <= i /\ i \in Nat /\ Linked(m, g, p, i)
    OBVIOUS
  <2>4. \A j \in m : j \in Nat /\ 1 <= j
    OBVIOUS
  <2>5. p \in Heads(m, g, 1)
    <3>1. SUFFICES ASSUME NEW q \in m, q < p, Linked(m, g, q, p) PROVE FALSE
      BY <2>3 DEF Heads
    <3>2. q \in Nat /\ q <= i /\ q <= p
      BY <2>3, <3>1
    <3>3. Linked(m, g, q, i)
      BY <2>3, <3>1, <3>2, LinkedParts
    <3>. QED  BY <2>2, <2>3, <3>1, <3>2, <3>3
  <2>6. ASSUME NEW j \in m PROVE j \in ChainOf(m, g, i) <=> j \in From(m, g, p)
    <3>1. j \in Nat
      OBVIOUS
    <3>2. CASE i <= j
      <4>1. p <= j /\ (Linked(m, g, p, j) <=> Linked(m, g, p, i) /\ Linked(m, g, i, j))
        BY <2>3, <3>1, <3>2, LinkedParts
      <4>. QED  BY <2>3, <3>2, <4>1 DEF ChainOf, From
    <3>3. CASE j < i
      <4>1. CASE p <= j
        <5>1. Linked(m, g, p, i) <=> Linked(m, g, p, j) /\ Linked(m, g, j, i)
          BY <2>3, <3>1, <3>3, <4>1, LinkedParts
        <5>. QED  BY <2>3, <3>1, <3>3, <4>1, <5>1 DEF ChainOf, From
      <4>2. CASE j < p
        <5>1. ~Linked(m, g, j, i)
          BY <2>2, <2>3, <3>1, <3>3, <4>2
        <5>. QED  BY <2>3, <3>1, <3>3, <4>2, <5>1 DEF ChainOf, From
      <4>. QED  BY <2>3, <3>1, <4>1, <4>2
    <3>. QED  BY <2>3, <3>1, <3>2, <3>3
  <2>7. ChainOf(m, g, i) = From(m, g, p)
    BY <2>6, Zenon DEF ChainOf, From
  <2>. QED  BY <2>5, <2>7
<1>. QED  BY <1>1, <1>2

LEMMA ScanMeant ==
  ASSUME NEW window, NEW n \in Nat, DOMAIN window = 1 .. n, Len(window) = n, NEW consumed,
         NEW rule, RuleOK(rule)
  PROVE  ScanRule(window, consumed, rule) =
           {[rule |-> rule.id, members |-> c] : c \in Chains(window, consumed, rule)}
<1>. DEFINE m == {k \in 1 .. n : window[k] = rule.member} \ consumed
            g == rule.gap
            Long(c) == Cardinality(c) >= rule.min
<1>1. ScanRule(window, consumed, rule) = MeantFrom(m, rule, 1)
  BY ScanMeans
<1>2. Chains(window, consumed, rule) = {c \in {ChainOf(m, g, i) : i \in m} : Long(c)}
  BY DEF Chains, ChainOf, Linked
<1>3. m \subseteq Nat \ {0} /\ g \in Nat
  BY DEF RuleOK
<1>. HIDE DEF m, g
<1>4. /\ \A p \in Heads(m, g, 1) : p \in m /\ ChainOf(m, g, p) = From(m, g, p)
      /\ \A i \in m : \E p \in Heads(m, g, 1) : ChainOf(m, g, i) = From(m, g, p)
  BY <1>3, ChainsAre
<1>5. {ChainOf(m, g, i) : i \in m} = {From(m, g, p) : p \in Heads(m, g, 1)}
  BY <1>4
<1>. QED  BY <1>1, <1>2, <1>5 DEF MeantFrom, g

IsMeant(f, window, rules, n) ==
  f = [k \in 0 .. n |-> IF k = 0 THEN {}
                        ELSE f[k - 1] \cup {[rule |-> rules[k].id, members |-> c]
                                              : c \in Chains(window, Consumed(f[k - 1]), rules[k])}]

RulesMean(rules) == Len(rules) \in Nat /\ \A k \in 1 .. Len(rules) : RuleOK(rules[k])

(* For rules whose anchor is their member, detect_bursts finds what the    *)
(* rules mean: the scan, with its gap budget, its resumption after a burst *)
(* and its bookkeeping of consumed lines, comes out as the chains that are *)
(* long enough (templates.rs 269-341).                                     *)
THEOREM DetectMeans ==
  ASSUME NEW window, NEW n \in Nat, DOMAIN window = 1 .. n, Len(window) = n,
         NEW rules, RulesMean(rules)
  PROVE  DetectBursts(window, rules) = MeantBursts(window, rules)
<1>. DEFINE N == Len(rules)
<1>1. N \in Nat /\ \A k \in 1 .. N : RuleOK(rules[k])
  BY DEF RulesMean
<1>2. PICK f : IsFound(f, window, rules, N) /\ DetectBursts(window, rules) = f[N]
  BY <1>1, DetectIs
<1>3. ASSUME NEW k \in 1 .. N, NEW u
      PROVE  ScanRule(window, u, rules[k]) =
               {[rule |-> rules[k].id, members |-> c] : c \in Chains(window, u, rules[k])}
  <2>1. RuleOK(rules[k])
    BY <1>1
  <2>. QED  BY <2>1, ScanMeant
<1>. DEFINE next(k, u) == u \cup {[rule |-> rules[k].id, members |-> c] : c \in Chains(window, Consumed(u), rules[k])}
<1>4. \A k \in 0 .. N : f[k] = IF k = 0 THEN {} ELSE next(k, f[k - 1])
  <2>1. TAKE k \in 0 .. N
  <2>2. f[k] = IF k = 0 THEN {} ELSE f[k - 1] \cup ScanRule(window, Consumed(f[k - 1]), rules[k])
    BY <1>2, Zenon DEF IsFound
  <2>3. CASE k = 0
    BY <2>2, <2>3
  <2>4. CASE k # 0
    <3>1. k \in 1 .. N
      BY <1>1, <2>4
    <3>. QED  BY <1>3, <2>2, <2>4, <3>1, Zenon
  <2>. QED  BY <2>3, <2>4
<1>5. f = [k \in 0 .. N |-> f[k]]
  BY <1>2, Zenon DEF IsFound
<1>6. IsMeant(f, window, rules, N)
  <2>1. f = [k \in 0 .. N |-> IF k = 0 THEN {} ELSE next(k, f[k - 1])]
    <3>. HIDE DEF next
    <3>. QED  BY <1>4, <1>5, Zenon
  <2>. QED  BY <2>1, Zenon DEF IsMeant
<1>. DEFINE h == CHOOSE h : IsMeant(h, window, rules, N)
<1>7. IsMeant(h, window, rules, N)
  BY <1>6, Zenon
<1>8. MeantBursts(window, rules) = h[N]
  BY DEF MeantBursts, IsMeant
<1>9. \A k \in 0 .. N : h[k] = IF k = 0 THEN {} ELSE next(k, h[k - 1])
  BY <1>7, Zenon DEF IsMeant
<1>. HIDE DEF h, next
<1>. DEFINE T == {k \in Nat : k <= N /\ f[k] # h[k]}
<1>10. T = {}
  <2>1. SUFFICES ASSUME T # {} PROVE FALSE
    OBVIOUS
  <2>2. PICK k \in T : \A j \in T : k <= j
    BY <2>1, LeastNat, Zenon
  <2>3. k \in Nat /\ k <= N /\ f[k] # h[k] /\ k \in 0 .. N
    BY <1>1
  <2>4. k # 0
    BY <1>4, <1>9, <2>3
  <2>5. k - 1 \in Nat /\ k - 1 <= N /\ ~(k <= k - 1)
    BY <1>1, <2>3, <2>4
  <2>6. f[k - 1] = h[k - 1]
    <3>1. k - 1 \notin T
      BY <2>2, <2>5, Zenon
    <3>. QED  BY <2>5, <3>1, Zenon
  <2>. QED  BY <1>4, <1>9, <2>3, <2>4, <2>6, Zenon
<1>11. f[N] = h[N]
  <2>1. N <= N
    BY <1>1
  <2>. QED  BY <1>1, <1>10, <2>1, Zenon
<1>. QED  BY <1>2, <1>8, <1>11, Zenon
-----------------------------------------------------------------------------
(* For rules that share no kind of line either, what one rule has consumed *)
(* is nothing to another: the bursts are those of each rule by itself.     *)
BurstOf(h, window, n, rule) ==
  LET m == {i \in 1 .. n : window[i] = rule.member} IN
  \E p \in Heads(m, rule.gap, 1) :
    /\ Cardinality(From(m, rule.gap, p)) >= rule.min
    /\ h = [rule |-> rule.id, members |-> From(m, rule.gap, p)]

LEMMA DetectApart ==
  ASSUME NEW window, NEW n \in Nat, DOMAIN window = 1 .. n, NEW rules, RulesOK(rules), RulesMean(rules)
  PROVE  \A h : h \in DetectBursts(window, rules) <=>
                  \E k \in 1 .. Len(rules) : BurstOf(h, window, n, rules[k])
<1>. DEFINE N == Len(rules)
<1>1. N \in Nat /\ \A k \in 1 .. N : RuleOK(rules[k])
  BY DEF RulesMean
<1>2. PICK f : IsFound(f, window, rules, N) /\ DetectBursts(window, rules) = f[N]
  BY <1>1, DetectIs
<1>. DEFINE Good(k) == \A h : h \in f[k] <=> \E j \in 1 .. k : BurstOf(h, window, n, rules[j])
            T == {k \in Nat : k <= N /\ ~Good(k)}
<1>3. T = {}
  <2>1. SUFFICES ASSUME T # {} PROVE FALSE
    OBVIOUS
  <2>. HIDE DEF Good
  <2>2. PICK k \in T : \A j \in T : k <= j
    BY <2>1, LeastNat, Zenon
  <2>3. k \in Nat /\ k <= N /\ ~Good(k) /\ k \in 0 .. N
    BY <1>1
  <2>4. f[k] = IF k = 0 THEN {} ELSE f[k - 1] \cup ScanRule(window, Consumed(f[k - 1]), rules[k])
    BY <1>2, <2>3, Zenon DEF IsFound
  <2>5. k # 0
    <3>1. ASSUME k = 0 PROVE Good(k)
      <4>1. f[k] = {} /\ 1 .. k = {}
        BY <2>4, <3>1
      <4>. QED  BY <4>1 DEF Good
    <3>. QED  BY <2>3, <3>1
  <2>6. k - 1 \in Nat /\ k - 1 <= N /\ ~(k <= k - 1) /\ k \in 1 .. N
    BY <1>1, <2>3, <2>5
  <2>7. Good(k - 1)
    <3>1. k - 1 \notin T
      BY <2>2, <2>6, Zenon
    <3>. QED  BY <2>6, <3>1, Zenon
  <2>. DEFINE u == Consumed(f[k - 1])
              m == {i \in 1 .. n : window[i] = rules[k].member}
  <2>8. m \cap u = {}
    <3>1. SUFFICES ASSUME NEW i \in m, NEW h \in f[k - 1], i \in h.members PROVE FALSE
      BY DEF Consumed
    <3>2. PICK j \in 1 .. k - 1 : BurstOf(h, window, n, rules[j])
      BY <2>7 DEF Good
    <3>3. window[i] = rules[j].member
      BY <3>1, <3>2 DEF BurstOf, From
    <3>4. j # k /\ j \in 1 .. N
      BY <1>1, <2>6
    <3>5. rules[j].member # rules[k].member
      BY <2>6, <3>4 DEF RulesOK
    <3>. QED  BY <3>3, <3>5
  <2>9. ScanRule(window, u, rules[k]) = MeantFrom(m, rules[k], 1)
    <3>1. m = {i \in 1 .. n : window[i] = rules[k].member} \ u
      BY <2>8
    <3>2. RuleOK(rules[k])
      BY <1>1, <2>6
    <3>. HIDE DEF u
    <3>. QED  BY <3>1, <3>2, ScanMeans
  <2>10. \A h : h \in MeantFrom(m, rules[k], 1) <=> BurstOf(h, window, n, rules[k])
    BY DEF MeantFrom, BurstOf
  <2>11. \A h : h \in f[k] <=> h \in f[k - 1] \/ BurstOf(h, window, n, rules[k])
    BY <2>4, <2>5, <2>9, <2>10
  <2>12. 1 .. k = (1 .. (k - 1)) \cup {k}
    BY <2>6
  <2>13. Good(k)
    BY <2>7, <2>11, <2>12, Zenon DEF Good
  <2>. QED  BY <2>3, <2>13
<1>4. Good(N)
  <2>. HIDE DEF Good
  <2>1. N <= N
    BY <1>1
  <2>. QED  BY <1>1, <1>3, <2>1
<1>. QED  BY <1>2, <1>4

LEMMA HeadIsAnchor ==
  ASSUME NEW m, m \subseteq Nat, NEW g, NEW p \in m, NEW h, h.members = From(m, g, p), g \in Nat
  PROVE  Anchor(h) = p
<1>1. p \in h.members /\ \A j \in h.members : p <= j
  BY DEF From, Linked
<1>2. \A i \in h.members : i \in Nat
  BY DEF From
<1>3. \A i \in h.members : (\A j \in h.members : i <= j) => i = p
  BY <1>1, <1>2
<1>. QED  BY <1>1, <1>3, Zenon DEF Anchor

(* A longer window: what is linked in the shorter one is linked in it, and *)
(* the other way round between its own lines.                              *)
LEMMA LinksStay ==
  ASSUME NEW n \in Nat, NEW m, NEW big, m = {i \in big : i <= n}, big \subseteq Nat, NEW g \in Nat,
         NEW q \in m, NEW p \in m, q <= p
  PROVE  Linked(m, g, q, p) <=> Linked(big, g, q, p)
<1>1. SUFFICES ASSUME NEW k \in q .. (p - 1)
               PROVE  m \cap (k .. (k + g)) # {} <=> big \cap (k .. (k + g)) # {}
  BY Zenon DEF Linked
<1>2. p \in Nat /\ q \in Nat /\ k \in Nat /\ k < p /\ p <= n
  OBVIOUS
<1>3. ASSUME NEW x \in big, x \in k .. (k + g) PROVE m \cap (k .. (k + g)) # {}
  <2>1. x \in Nat
    OBVIOUS
  <2>2. CASE x <= n
    BY <1>3, <2>2
  <2>3. CASE n < x
    <3>1. p \in k .. (k + g)
      BY <1>2, <1>3, <2>1, <2>3
    <3>. QED  BY <3>1
  <2>. QED  BY <2>1, <2>2, <2>3
<1>. QED  BY <1>3

GrownIn(h, window, n, rule) ==
  \E g : /\ BurstOf(g, window, n, rule) /\ g.rule = h.rule
         /\ Anchor(g) = Anchor(h) /\ h.members \subseteq g.members

LEMMA BurstGrows ==
  ASSUME NEW small, NEW window, NEW n \in Nat, NEW l \in Nat, n <= l, DOMAIN small = 1 .. n,
         DOMAIN window = 1 .. l, \A i \in 1 .. n : small[i] = window[i],
         NEW rule, RuleOK(rule), NEW h, BurstOf(h, small, n, rule)
  PROVE  GrownIn(h, window, l, rule)
<1>. DEFINE m == {i \in 1 .. n : small[i] = rule.member}
            big == {i \in 1 .. l : window[i] = rule.member}
            gap == rule.gap
<1>1. m = {i \in big : i <= n} /\ big \subseteq Nat /\ gap \in Nat /\ big \subseteq 1 .. l /\ m \subseteq big
  BY DEF RuleOK
<1>2. PICK p \in Heads(m, gap, 1) :
        /\ Cardinality(From(m, gap, p)) >= rule.min
        /\ h = [rule |-> rule.id, members |-> From(m, gap, p)]
  BY DEF BurstOf
<1>. DEFINE g == [rule |-> rule.id, members |-> From(big, gap, p)]
<1>3. /\ g.rule = rule.id /\ g.members = From(big, gap, p)
      /\ h.rule = rule.id /\ h.members = From(m, gap, p)
  BY <1>2
<1>. HIDE DEF m, big, gap, g
<1>4. p \in m /\ p \in big /\ p \in Nat /\ p <= n /\ 1 <= p /\ \A q \in m : 1 <= q /\ q < p => ~Linked(m, gap, q, p)
  BY <1>1, <1>2 DEF Heads
<1>5. p \in Heads(big, gap, 1)
  <2>1. SUFFICES ASSUME NEW q \in big, 1 <= q, q < p PROVE ~Linked(big, gap, q, p)
    BY <1>4 DEF Heads
  <2>2. q \in m /\ q <= p
    BY <1>1, <1>4, <2>1
  <2>3. Linked(m, gap, q, p) <=> Linked(big, gap, q, p)
    BY <1>1, <1>4, <2>2, LinksStay
  <2>. QED  BY <1>4, <2>1, <2>2, <2>3
<1>6. From(m, gap, p) \subseteq From(big, gap, p)
  <2>1. SUFFICES ASSUME NEW j \in m, p <= j, Linked(m, gap, p, j) PROVE Linked(big, gap, p, j)
    BY <1>1 DEF From
  <2>. QED  BY <1>1, <1>4, <2>1, LinksStay
<1>7. Cardinality(From(big, gap, p)) >= rule.min
  <2>1. IsFiniteSet(From(big, gap, p))
    <3>1. IsFiniteSet(1 .. l)
      <4>1. 1 \in Int /\ l \in Int
        OBVIOUS
      <4>. QED  BY <4>1, FS_Interval, Zenon
    <3>2. From(big, gap, p) \subseteq 1 .. l
      BY <1>1 DEF From
    <3>. QED  BY <3>1, <3>2, FS_Subset, Zenon
  <2>2. Cardinality(From(m, gap, p)) <= Cardinality(From(big, gap, p))
    BY <1>6, <2>1, FS_Subset, Zenon
  <2>3. Cardinality(From(m, gap, p)) \in Nat /\ Cardinality(From(big, gap, p)) \in Nat
    BY <1>6, <2>1, FS_Subset, FS_CardinalityType, Zenon
  <2>. QED  BY <1>2, <2>2, <2>3 DEF RuleOK
<1>8. Anchor(g) = p
  <2>1. big \subseteq Nat /\ p \in big /\ gap \in Nat /\ g.members = From(big, gap, p)
    BY <1>1, <1>3, <1>4
  <2>. QED  BY <2>1, HeadIsAnchor, Zenon
<1>9. Anchor(h) = p
  <2>1. m \subseteq Nat
    BY <1>1
  <2>. QED  BY <1>1, <1>3, <1>4, <2>1, HeadIsAnchor
<1>10. BurstOf(g, window, l, rule)
  BY <1>5, <1>7 DEF BurstOf, g, big, gap
<1>. QED  BY <1>3, <1>6, <1>8, <1>9, <1>10, Zenon DEF GrownIn

BurstsStay(small, window, rules) ==
  \A h \in DetectBursts(small, rules) : \E g \in DetectBursts(window, rules) :
    g.rule = h.rule /\ Anchor(g) = Anchor(h) /\ h.members \subseteq g.members

(* A longer window keeps each burst, with its anchor and maybe with more   *)
(* members, so that detect_bursts may run on every drain of a log that is  *)
(* being written (templates.rs 269-341).                                   *)
THEOREM DetectGrows ==
  ASSUME NEW small, NEW window, NEW n \in Nat, NEW l \in Nat, n <= l, DOMAIN small = 1 .. n,
         DOMAIN window = 1 .. l, \A i \in 1 .. n : small[i] = window[i],
         NEW rules, RulesOK(rules), RulesMean(rules)
  PROVE  BurstsStay(small, window, rules)
<1>. USE DEF BurstsStay
<1>1. TAKE h \in DetectBursts(small, rules)
<1>2. PICK k \in 1 .. Len(rules) : BurstOf(h, small, n, rules[k])
  BY DetectApart
<1>3. RuleOK(rules[k])
  BY DEF RulesMean
<1>4. PICK g : BurstOf(g, window, l, rules[k]) /\ g.rule = h.rule
               /\ Anchor(g) = Anchor(h) /\ h.members \subseteq g.members
  <2>1. GrownIn(h, window, l, rules[k])
    BY <1>2, <1>3, BurstGrows, Zenon
  <2>. QED  BY <2>1, Zenon DEF GrownIn
<1>5. g \in DetectBursts(window, rules)
  BY <1>4, DetectApart
<1>. QED  BY <1>4, <1>5
=============================================================================
