---------------------------- MODULE Lists_proofs ----------------------------
(***************************************************************************)
(* Lemmas about lists: recursion and induction along a list, what a filter *)
(* keeps, and the parts of a list that is cut in two; and what             *)
(* pair_transactions finds in a list of events, which client and server    *)
(* use.                                                                    *)
(***************************************************************************)
EXTENDS Lists, Transactions, SequencesExt, FiniteSetTheorems, SequenceTheorems, NaturalsInduction, TLAPS

(* Induction up to n, for a set of numbers.                                *)
LEMMA UpTo ==
  ASSUME NEW n \in Nat, NEW P, 0 \in P, \A k \in 1..n : k - 1 \in P => k \in P
  PROVE  \A k \in 0..n : k \in P
<1>. DEFINE R == {ss \in Nat \X Nat : ss[1] < ss[2]}
            T == {k \in 0..n : k \notin P}
<1>1. SUFFICES ASSUME T # {} PROVE FALSE
  OBVIOUS
<1>2. IsWellFoundedOn(R, Nat)
  BY NatLessThanWellFounded DEF OpToRel
<1>3. T \subseteq Nat
  OBVIOUS
<1>4. PICK k \in T : \A m \in T : <<m, k>> \notin R
  BY <1>1, <1>2, <1>3, WFMin
<1>5. k \in 1..n /\ k - 1 \in 0..n
  BY <1>4
<1>6. <<k - 1, k>> \in R
  BY <1>3, <1>5
<1>7. k - 1 \notin T
  BY <1>4, <1>6
<1>. QED  BY <1>4, <1>5, <1>7

(* The values of a function defined by recursion, up to n.                 *)
Recursion(f, A, n, base, step) ==
  f \in [0..n -> A] /\ f[0] = base /\ \A k \in 1..n : f[k] = step[<<k, f[k - 1]>>]

(* There are some.                                                         *)
LEMMA RecursionIs ==
  ASSUME NEW A, NEW n \in Nat, NEW base \in A, NEW step \in [(1..n) \X A -> A]
  PROVE  \E f : Recursion(f, A, n, base, step)
<1>. DEFINE Is(f, m) == f \in [0..m -> A] /\ f[0] = base /\ \A k \in 1..m : f[k] = step[<<k, f[k - 1]>>]
            P == {m \in 0..n : \E f : Is(f, m)}
<1>1. 0 \in P
  <2>1. Is([k \in 0..0 |-> base], 0)
    OBVIOUS
  <2>. HIDE DEF Is
  <2>2. \E f : Is(f, 0)
    BY <2>1
  <2>. QED  BY <2>2
<1>2. ASSUME NEW m \in 1..n, m - 1 \in P
      PROVE  m \in P
  <2>1. PICK f : Is(f, m - 1)
    BY <1>2
  <2>. DEFINE g == [k \in 0..m |-> IF k = m THEN step[<<m, f[m - 1]>>] ELSE f[k]]
  <2>2. m - 1 \in Nat /\ 0..m = (0..(m - 1)) \cup {m} /\ m \notin 0..(m - 1)
    OBVIOUS
  <2>3. f \in [0..(m - 1) -> A] /\ f[0] = base /\ \A k \in 1..(m - 1) : f[k] = step[<<k, f[k - 1]>>]
    BY <2>1
  <2>4. f[m - 1] \in A /\ step[<<m, f[m - 1]>>] \in A
    <3>1. m - 1 \in 0..(m - 1)
      OBVIOUS
    <3>2. f[m - 1] \in A
      BY <2>3, <3>1
    <3>3. <<m, f[m - 1]>> \in (1..n) \X A
      BY <3>2
    <3>. QED  BY <3>2, <3>3
  <2>5. g \in [0..m -> A]
    BY <2>2, <2>3, <2>4
  <2>6. g[m] = step[<<m, f[m - 1]>>] /\ \A k \in 0..(m - 1) : g[k] = f[k]
    BY <2>2
  <2>. HIDE DEF g
  <2>7. g[0] = base
    <3>1. 0 \in 0..(m - 1)
      OBVIOUS
    <3>. QED  BY <3>1, <2>3, <2>6
  <2>8. \A k \in 1..m : g[k] = step[<<k, g[k - 1]>>]
    <3>1. TAKE k \in 1..m
    <3>2. CASE k = m
      <4>1. m - 1 \in 0..(m - 1)
        OBVIOUS
      <4>2. g[m - 1] = f[m - 1]
        BY <4>1, <2>6
      <4>. QED  BY <3>2, <4>2, <2>6
    <3>3. CASE k # m
      <4>1. k \in 1..(m - 1) /\ k \in 0..(m - 1) /\ k - 1 \in 0..(m - 1)
        BY <3>3
      <4>. QED  BY <4>1, <2>3, <2>6
    <3>. QED  BY <3>2, <3>3
  <2>9. Is(g, m)
    BY <2>5, <2>7, <2>8
  <2>. HIDE DEF Is
  <2>10. \E h : Is(h, m)
    BY <2>9
  <2>. QED  BY <2>10
<1>3. n \in P
  <2>. HIDE DEF P
  <2>. QED  BY <1>1, <1>2, UpTo
<1>4. PICK f : Is(f, n)
  BY <1>3
<1>5. Recursion(f, A, n, base, step)
  BY <1>4 DEF Recursion
<1>. QED  BY <1>5, Zenon
-----------------------------------------------------------------------------
(* What the basic operations leave in a list.                              *)
LEMMA AppendItems ==
  ASSUME NEW A, NEW s \in Seq(A), NEW x \in A
  PROVE  /\ Append(s, x) \in Seq(A) /\ Len(Append(s, x)) = Len(s) + 1
         /\ ToSet(Append(s, x)) = ToSet(s) \cup {x}
         /\ IsInjective(s) /\ x \notin ToSet(s) => IsInjective(Append(s, x))
<1>. DEFINE t == Append(s, x)
<1>1. /\ t \in Seq(A) /\ Len(t) = Len(s) + 1 /\ DOMAIN t = 1..(Len(s) + 1) /\ DOMAIN s = 1..Len(s)
      /\ \A k \in 1..Len(s) : t[k] = s[k]
      /\ t[Len(s) + 1] = x /\ Len(s) \in Nat
  OBVIOUS
<1>. HIDE DEF t
<1>2. \A k \in 1..(Len(s) + 1) : k \in 1..Len(s) \/ k = Len(s) + 1
  BY <1>1
<1>3. ToSet(t) = ToSet(s) \cup {x}
  BY <1>1, <1>2 DEF ToSet
<1>4. ASSUME IsInjective(s), x \notin ToSet(s) PROVE IsInjective(t)
  BY <1>1, <1>2, <1>4 DEF IsInjective, ToSet
<1>. QED  BY <1>1, <1>3, <1>4 DEF t

LEMMA PrependItems ==
  ASSUME NEW A, NEW s \in Seq(A), NEW x \in A
  PROVE  /\ <<x>> \o s \in Seq(A) /\ Len(<<x>> \o s) = Len(s) + 1
         /\ ToSet(<<x>> \o s) = {x} \cup ToSet(s)
         /\ IsInjective(s) /\ x \notin ToSet(s) => IsInjective(<<x>> \o s)
<1>. DEFINE t == <<x>> \o s
<1>1. /\ t \in Seq(A) /\ Len(t) = Len(s) + 1 /\ DOMAIN t = 1..(Len(s) + 1) /\ DOMAIN s = 1..Len(s)
      /\ t[1] = x /\ \A k \in 2..(Len(s) + 1) : t[k] = s[k - 1]
      /\ Len(s) \in Nat
  OBVIOUS
<1>. HIDE DEF t
<1>2. \A k \in 1..(Len(s) + 1) : k = 1 \/ (k \in 2..(Len(s) + 1) /\ k - 1 \in 1..Len(s))
  BY <1>1
<1>3. \A k \in 1..Len(s) : k + 1 \in 2..(Len(s) + 1) /\ (k + 1) - 1 = k
  BY <1>1
<1>4. ToSet(t) = {x} \cup ToSet(s)
  <2>1. \A y \in ToSet(t) : y = x \/ y \in ToSet(s)
    BY <1>1, <1>2 DEF ToSet
  <2>2. \A y \in ToSet(s) : y \in ToSet(t)
    <3>1. TAKE y \in ToSet(s)
    <3>2. PICK k \in 1..Len(s) : s[k] = y
      BY <1>1 DEF ToSet
    <3>3. t[k + 1] = y /\ k + 1 \in 1..(Len(s) + 1)
      BY <1>1, <1>3, <3>2
    <3>. QED  BY <1>1, <3>3 DEF ToSet
  <2>3. x \in ToSet(t)
    BY <1>1 DEF ToSet
  <2>. QED  BY <2>1, <2>2, <2>3
<1>5. ASSUME IsInjective(s), x \notin ToSet(s) PROVE IsInjective(t)
  <2>1. SUFFICES ASSUME NEW j \in 1..(Len(s) + 1), NEW k \in 1..(Len(s) + 1), t[j] = t[k]
                 PROVE  j = k
    BY <1>1 DEF IsInjective
  <2>2. \A i \in 1..Len(s) : s[i] # x
    BY <1>1, <1>5 DEF ToSet
  <2>3. CASE j = 1 \/ k = 1
    BY <1>1, <1>2, <2>1, <2>2, <2>3
  <2>4. CASE j # 1 /\ k # 1
    <3>1. s[j - 1] = s[k - 1] /\ j - 1 \in 1..Len(s) /\ k - 1 \in 1..Len(s)
      BY <1>1, <1>2, <2>1, <2>4
    <3>2. j - 1 = k - 1
      BY <1>1, <1>5, <3>1 DEF IsInjective
    <3>. QED  BY <3>2
  <2>. QED  BY <2>3, <2>4
<1>. QED  BY <1>1, <1>4, <1>5 DEF t

(* t is the part of s from place m to place n.                             *)
IsPart(t, A, s, m, n) ==
  /\ t \in Seq(A) /\ Len(t) = n - m + 1
  /\ \A k \in 1..(n - m + 1) : t[k] = s[m + k - 1]
  /\ ToSet(t) = {s[k] : k \in m..n}
  /\ IsInjective(s) => IsInjective(t)

LEMMA PartItems ==
  ASSUME NEW A, NEW s \in Seq(A), NEW m \in 1..(Len(s) + 1), NEW n \in (m - 1)..Len(s)
  PROVE  IsPart(SubSeq(s, m, n), A, s, m, n)
<1>. DEFINE t == SubSeq(s, m, n)
<1>1. /\ t \in Seq(A) /\ Len(t) = n - m + 1 /\ DOMAIN t = 1..(n - m + 1) /\ DOMAIN s = 1..Len(s)
      /\ \A k \in 1..(n - m + 1) : t[k] = s[m + k - 1]
  BY SubSeqProperties
<1>. HIDE DEF t
<1>2. \A k \in 1..(n - m + 1) : m + k - 1 \in m..n
  OBVIOUS
<1>3. \A k \in m..n : k - m + 1 \in 1..(n - m + 1) /\ m + (k - m + 1) - 1 = k
  OBVIOUS
<1>4. \A y \in ToSet(t) : y \in {s[k] : k \in m..n}
  BY <1>1, <1>2 DEF ToSet
<1>5. \A k \in m..n : s[k] \in ToSet(t)
  <2>1. TAKE k \in m..n
  <2>2. t[k - m + 1] = s[k] /\ k - m + 1 \in DOMAIN t
    BY <1>1, <1>3
  <2>. QED  BY <2>2 DEF ToSet
<1>6. ASSUME IsInjective(s), NEW j \in 1..(n - m + 1), NEW k \in 1..(n - m + 1), t[j] = t[k]
      PROVE  j = k
  <2>1. m + j - 1 \in DOMAIN s /\ m + k - 1 \in DOMAIN s /\ s[m + j - 1] = s[m + k - 1]
    BY <1>1, <1>6
  <2>2. m + j - 1 = m + k - 1
    BY <1>6, <2>1 DEF IsInjective
  <2>. QED  BY <2>2
<1>7. IsInjective(s) => IsInjective(t)
  BY <1>1, <1>6 DEF IsInjective
<1>. QED  BY <1>1, <1>4, <1>5, <1>7 DEF t, IsPart
-----------------------------------------------------------------------------
(* The items a filter keeps of the first k, for every k.                   *)
IsFilter(f, A, list, S) ==
  /\ f \in [0..Len(list) -> Seq(A)] /\ f[0] = <<>>
  /\ \A k \in 1..Len(list) :
       f[k] = IF list[k] \in S THEN Append(f[k - 1], list[k]) ELSE f[k - 1]

LEMMA FilteredIs ==
  ASSUME NEW A, NEW list \in Seq(A), NEW S
  PROVE  \E f : IsFilter(f, A, list, S) /\ Filtered(list, S) = f[Len(list)]
<1>. DEFINE n == Len(list)
            step == [x \in (1..n) \X Seq(A) |-> IF list[x[1]] \in S THEN Append(x[2], list[x[1]]) ELSE x[2]]
            Is(f) == f = [k \in 0..n |-> IF k = 0 THEN <<>>
                                        ELSE IF list[k] \in S THEN Append(f[k - 1], list[k]) ELSE f[k - 1]]
            some == CHOOSE f : Is(f)
<1>1. n \in Nat /\ <<>> \in Seq(A) /\ \A k \in 1..n : list[k] \in A
  OBVIOUS
<1>2. \A k \in 1..n, s \in Seq(A) :
        /\ step[<<k, s>>] = IF list[k] \in S THEN Append(s, list[k]) ELSE s
        /\ Append(s, list[k]) \in Seq(A)
  BY <1>1
<1>3. step \in [(1..n) \X Seq(A) -> Seq(A)]
  <2>1. \A x \in (1..n) \X Seq(A) : x[2] \in Seq(A) /\ Append(x[2], list[x[1]]) \in Seq(A)
    BY <1>1
  <2>. QED  BY <2>1
<1>. HIDE DEF step, n
<1>4. PICK g : Recursion(g, Seq(A), n, <<>>, step)
  BY <1>1, <1>3, RecursionIs, Zenon
<1>5. \A k \in 1..n : k - 1 \in 0..n /\ k \in 0..n /\ k # 0
  BY <1>1
<1>6. \A k \in 1..n : g[k] = IF list[k] \in S THEN Append(g[k - 1], list[k]) ELSE g[k - 1]
  BY <1>2, <1>4, <1>5 DEF Recursion
<1>7. Is(g)
  <2>1. \A k \in 0..n :
          g[k] = IF k = 0 THEN <<>>
                 ELSE IF list[k] \in S THEN Append(g[k - 1], list[k]) ELSE g[k - 1]
    <3>1. \A k \in 0..n : k = 0 \/ k \in 1..n
      BY <1>1
    <3>. QED  BY <1>4, <1>5, <1>6, <3>1, Zenon DEF Recursion
  <2>2. g = [k \in 0..n |-> g[k]]
    BY <1>4 DEF Recursion
  <2>. QED  BY <2>1, <2>2, Zenon
<1>8. Is(some)
  BY <1>7, Zenon
<1>9. Filtered(list, S) = some[n]
  BY DEF Filtered, n
<1>. HIDE DEF some
<1>10. /\ some[0] = <<>> /\ DOMAIN some = 0..n /\ some = [k \in 0..n |-> some[k]]
       /\ \A k \in 1..n : some[k] = IF list[k] \in S THEN Append(some[k - 1], list[k]) ELSE some[k - 1]
  <2>1. 0 \in 0..n
    BY <1>1
  <2>. QED  BY <1>5, <1>8, <2>1
<1>11. \A k \in 0..n : k \in {j \in 0..n : some[j] \in Seq(A)}
  <2>. DEFINE P == {j \in 0..n : some[j] \in Seq(A)}
  <2>1. 0 \in P
    <3>1. some[0] \in Seq(A)
      BY <1>1, <1>10, Zenon
    <3>2. 0 \in 0..n
      BY <1>1
    <3>. QED  BY <3>1, <3>2
  <2>2. ASSUME NEW k \in 1..n, k - 1 \in P PROVE k \in P
    BY <2>2, <1>1, <1>2, <1>5, <1>10
  <2>. HIDE DEF P
  <2>3. \A k \in 0..n : k \in P
    BY <1>1, <2>1, <2>2, UpTo
  <2>. QED  BY <2>3 DEF P
<1>12. IsFilter(some, A, list, S)
  BY <1>10, <1>11 DEF n, IsFilter
<1>. QED  BY <1>9, <1>12, Zenon DEF n

(* What a filter keeps: the items that pass, and of a list without doubles *)
(* one without doubles.                                                    *)
LEMMA FilteredItems ==
  ASSUME NEW A, NEW list \in Seq(A), NEW S
  PROVE  /\ Filtered(list, S) \in Seq(A)
         /\ ToSet(Filtered(list, S)) = ToSet(list) \cap S
         /\ IsInjective(list) => IsInjective(Filtered(list, S))
<1>. DEFINE n == Len(list)
            To(k) == {list[j] : j \in 1..k}
<1>1. PICK f : IsFilter(f, A, list, S) /\ Filtered(list, S) = f[n]
  BY FilteredIs, Zenon
<1>. DEFINE P == {k \in 0..n : /\ ToSet(f[k]) = To(k) \cap S
                               /\ IsInjective(list) => IsInjective(f[k])}
<1>2. /\ n \in Nat /\ DOMAIN list = 1..n
      /\ \A k \in 1..n : k - 1 \in 0..n /\ k \in 0..n /\ list[k] \in A
      /\ \A k \in 0..n : f[k] \in Seq(A)
      /\ f[0] = <<>>
      /\ \A k \in 1..n : f[k] = IF list[k] \in S THEN Append(f[k - 1], list[k]) ELSE f[k - 1]
  BY <1>1 DEF IsFilter
<1>3. 0 \in P
  <2>1. ToSet(<<>>) = {} /\ IsInjective(<<>>) /\ To(0) = {}
    BY DEF ToSet, IsInjective
  <2>. QED  BY <1>1, <1>2, <2>1
<1>4. ASSUME NEW k \in 1..n, k - 1 \in P PROVE k \in P
  <2>1. To(k) = To(k - 1) \cup {list[k]}
    <3>1. 1..k = 1..(k - 1) \cup {k}
      OBVIOUS
    <3>. QED  BY <3>1
  <2>2. IsInjective(list) => list[k] \notin To(k - 1)
    <3>1. \A j \in 1..(k - 1) : j \in 1..n /\ j # k
      BY <1>2
    <3>. QED  BY <1>2, <3>1 DEF IsInjective
  <2>3. ToSet(f[k - 1]) = To(k - 1) \cap S /\ (IsInjective(list) => IsInjective(f[k - 1]))
    BY <1>4
  <2>. HIDE DEF To
  <2>4. CASE list[k] \in S
    <3>1. f[k] = Append(f[k - 1], list[k])
      BY <1>2, <2>4
    <3>2. /\ ToSet(f[k]) = ToSet(f[k - 1]) \cup {list[k]}
          /\ IsInjective(f[k - 1]) /\ list[k] \notin ToSet(f[k - 1]) => IsInjective(f[k])
      BY <1>2, <3>1, AppendItems
    <3>. QED  BY <1>2, <2>1, <2>2, <2>3, <2>4, <3>2
  <2>5. CASE list[k] \notin S
    <3>1. f[k] = f[k - 1]
      BY <1>2, <2>5
    <3>. QED  BY <1>2, <2>1, <2>3, <2>5, <3>1
  <2>. QED  BY <2>4, <2>5
<1>5. n \in P
  <2>. HIDE DEF P
  <2>1. \A k \in 0..n : k \in P
    BY <1>2, <1>3, <1>4, UpTo
  <2>. QED  BY <1>2, <2>1
<1>6. To(n) = ToSet(list)
  BY <1>2 DEF ToSet
<1>. HIDE DEF To
<1>. QED  BY <1>1, <1>2, <1>5, <1>6

(* And it leaves them in their order, whatever that is.                    *)
OrderedBy(list, R) == \A j, k \in DOMAIN list : j < k => <<list[j], list[k]>> \in R

LEMMA FilteredOrder ==
  ASSUME NEW A, NEW list \in Seq(A), NEW S, NEW R, OrderedBy(list, R)
  PROVE  OrderedBy(Filtered(list, S), R)
<1>. DEFINE n == Len(list)
            To(k) == {list[j] : j \in 1..k}
<1>1. PICK f : IsFilter(f, A, list, S) /\ Filtered(list, S) = f[n]
  BY FilteredIs, Zenon
<1>. DEFINE P == {k \in 0..n : ToSet(f[k]) \subseteq To(k) /\ OrderedBy(f[k], R)}
<1>2. /\ n \in Nat /\ DOMAIN list = 1..n
      /\ \A k \in 1..n : k - 1 \in 0..n /\ k \in 0..n /\ list[k] \in A
      /\ \A k \in 0..n : f[k] \in Seq(A)
      /\ f[0] = <<>>
      /\ \A k \in 1..n : f[k] = IF list[k] \in S THEN Append(f[k - 1], list[k]) ELSE f[k - 1]
  BY <1>1 DEF IsFilter
<1>3. 0 \in P
  <2>1. ToSet(<<>>) = {} /\ OrderedBy(<<>>, R)
    BY DEF ToSet, OrderedBy
  <2>. QED  BY <1>2, <2>1
<1>4. ASSUME NEW k \in 1..n, k - 1 \in P PROVE k \in P
  <2>1. To(k) = To(k - 1) \cup {list[k]}
    <3>1. 1..k = 1..(k - 1) \cup {k}
      OBVIOUS
    <3>. QED  BY <3>1
  <2>2. \A x \in To(k - 1) : <<x, list[k]>> \in R
    <3>1. \A j \in 1..(k - 1) : j \in 1..n /\ j < k
      BY <1>2
    <3>. QED  BY <1>2, <3>1 DEF OrderedBy
  <2>3. ToSet(f[k - 1]) \subseteq To(k - 1) /\ OrderedBy(f[k - 1], R)
    BY <1>4
  <2>. HIDE DEF To
  <2>4. CASE list[k] \in S
    <3>. DEFINE s == f[k - 1]
                t == Append(s, list[k])
    <3>1. f[k] = t /\ s \in Seq(A)
      BY <1>2, <2>4
    <3>2. /\ Len(s) \in Nat /\ DOMAIN s = 1..Len(s) /\ DOMAIN t = 1..(Len(s) + 1)
          /\ \A j \in 1..Len(s) : t[j] = s[j] /\ s[j] \in ToSet(s)
          /\ t[Len(s) + 1] = list[k]
      BY <1>2, <3>1 DEF ToSet
    <3>3. ToSet(t) = ToSet(s) \cup {list[k]}
      BY <1>2, <3>1, AppendItems
    <3>. HIDE DEF s, t
    <3>4. OrderedBy(t, R)
      <4>1. SUFFICES ASSUME NEW i \in 1..(Len(s) + 1), NEW j \in 1..(Len(s) + 1), i < j
                     PROVE  <<t[i], t[j]>> \in R
        BY <3>2 DEF OrderedBy
      <4>2. i \in 1..Len(s)
        BY <3>2, <4>1
      <4>3. CASE j = Len(s) + 1
        BY <2>2, <2>3, <3>2, <4>2, <4>3 DEF s
      <4>4. CASE j # Len(s) + 1
        <5>1. j \in 1..Len(s)
          BY <3>2, <4>4
        <5>2. <<s[i], s[j]>> \in R
          BY <2>3, <3>2, <4>1, <4>2, <5>1 DEF OrderedBy, s
        <5>. QED  BY <3>2, <4>2, <5>1, <5>2
      <4>. QED  BY <4>3, <4>4
    <3>5. ToSet(f[k]) \subseteq To(k) /\ OrderedBy(f[k], R)
      BY <2>1, <2>3, <3>1, <3>3, <3>4 DEF s
    <3>. QED  BY <1>2, <3>5
  <2>5. CASE list[k] \notin S
    <3>1. f[k] = f[k - 1]
      BY <1>2, <2>5
    <3>2. ToSet(f[k]) \subseteq To(k) /\ OrderedBy(f[k], R)
      BY <2>1, <2>3, <3>1
    <3>. QED  BY <1>2, <3>2
  <2>. QED  BY <2>4, <2>5
<1>5. n \in P
  <2>. HIDE DEF P
  <2>1. \A k \in 0..n : k \in P
    BY <1>2, <1>3, <1>4, UpTo
  <2>. QED  BY <1>2, <2>1
<1>. QED  BY <1>1, <1>5
-----------------------------------------------------------------------------
(* Pages of L items: where they begin, and that each place is in one.      *)
LEMMA PagesGrow ==
  ASSUME NEW L \in Nat, NEW j \in Nat, NEW k \in Nat, j < k
  PROVE  j * L \in Nat /\ k * L \in Nat /\ j * L + L <= k * L
<1>1. PICK d \in Nat : k = j + 1 + d
  <2>1. k - j - 1 \in Nat /\ k = j + 1 + (k - j - 1)
    OBVIOUS
  <2>. QED  BY <2>1
<1>2. k * L = j * L + L + d * L
  BY <1>1
<1>3. j * L \in Nat /\ d * L \in Nat
  OBVIOUS
<1>. QED  BY <1>2, <1>3

LEMMA PageHas ==
  ASSUME NEW L \in Nat \ {0}, NEW p \in Nat
  PROVE  \E k \in 0..p : k * L \in Nat /\ k * L <= p /\ p < k * L + L
<1>. DEFINE In(q, k) == k * L \in Nat /\ k * L <= q /\ q < k * L + L
            P == {q \in 0..p : \E k \in 0..q : In(q, k)}
<1>1. 0 \in P
  <2>1. In(0, 0)
    OBVIOUS
  <2>. HIDE DEF In
  <2>. QED  BY <2>1
<1>2. ASSUME NEW q \in 1..p, q - 1 \in P PROVE q \in P
  <2>1. PICK k \in 0..(q - 1) : In(q - 1, k)
    BY <1>2
  <2>2. CASE q < k * L + L
    <3>1. In(q, k) /\ k \in 0..q
      BY <2>1, <2>2
    <3>. HIDE DEF In
    <3>. QED  BY <3>1
  <2>3. CASE ~(q < k * L + L)
    <3>1. (k + 1) * L = k * L + L
      OBVIOUS
    <3>2. In(q, k + 1) /\ k + 1 \in 0..q
      BY <2>1, <2>3, <3>1
    <3>. HIDE DEF In
    <3>. QED  BY <3>2
  <2>. QED  BY <2>2, <2>3
<1>3. p \in P
  <2>. HIDE DEF P
  <2>1. \A q \in 0..p : q \in P
    BY <1>1, <1>2, UpTo
  <2>. QED  BY <2>1
<1>. QED  BY <1>3

(* A list without doubles is no longer than what it is made of.            *)
LEMMA InjectiveLength ==
  ASSUME NEW S, IsFiniteSet(S), NEW s \in Seq(S), IsInjective(s)
  PROVE  Len(s) <= Cardinality(S) /\ Cardinality(S) \in Nat
<1>1. Len(s) \in Nat /\ s \in [1..Len(s) -> S] /\ DOMAIN s = 1..Len(s)
  OBVIOUS
<1>2. s \in Injection(1..Len(s), S)
  BY <1>1 DEF Injection, IsInjective
<1>3. Cardinality(1..Len(s)) = Len(s) /\ IsFiniteSet(1..Len(s))
  BY <1>1, FS_Interval
<1>4. Cardinality(S) \in Nat
  BY FS_CardinalityType
<1>5. Cardinality(1..Len(s)) <= Cardinality(S)
  BY <1>1, <1>2, <1>3, FS_Injection DEF ExistsInjection
<1>. QED  BY <1>3, <1>4, <1>5
-----------------------------------------------------------------------------
(* Sorting loses nothing, repeats nothing, and sorts.                      *)
LEMMA SortedByIs ==
  ASSUME NEW S, IsFiniteSet(S), NEW rank \in [S -> Int],
         \A x, y \in S : rank[x] = rank[y] => x = y
  PROVE  /\ SortedBy(S, rank) \in Seq(S) /\ Len(SortedBy(S, rank)) = Cardinality(S)
         /\ {SortedBy(S, rank)[k] : k \in DOMAIN SortedBy(S, rank)} = S
         /\ \A j, k \in DOMAIN SortedBy(S, rank) :
              j < k => rank[SortedBy(S, rank)[j]] < rank[SortedBy(S, rank)[k]]
<1>. DEFINE n == Cardinality(S)
            Below(x) == {y \in S : rank[y] < rank[x]}
            place == [x \in S |-> Cardinality(Below(x)) + 1]
            list == SortedBy(S, rank)
<1>1. n \in Nat /\ IsFiniteSet(1..n) /\ Cardinality(1..n) = n
  BY FS_CardinalityType, FS_Interval
<1>2. \A x \in S : rank[x] \in Int
  OBVIOUS
<1>3. \A x \in S : IsFiniteSet(Below(x)) /\ Cardinality(Below(x)) \in Nat
  BY FS_Subset, FS_CardinalityType
<1>4. \A x \in S : place[x] = Cardinality(Below(x)) + 1
  OBVIOUS
<1>5. ASSUME NEW x \in S, NEW y \in S, rank[x] < rank[y] PROVE place[x] < place[y]
  <2>1. Below(x) \subseteq Below(y) /\ x \in Below(y) /\ x \notin Below(x)
    BY <1>2, <1>5
  <2>2. Cardinality(Below(x)) <= Cardinality(Below(y)) /\ Cardinality(Below(x)) # Cardinality(Below(y))
    BY <1>3, <2>1, FS_Subset
  <2>. HIDE DEF Below, place
  <2>. QED  BY <1>3, <1>4, <2>2
<1>6. \A x \in S : place[x] \in 1..n
  <2>1. TAKE x \in S
  <2>2. Below(x) \subseteq S /\ x \notin Below(x)
    BY <1>2
  <2>3. Cardinality(Below(x)) <= n /\ Cardinality(Below(x)) # n
    BY <2>2, FS_Subset
  <2>. HIDE DEF Below, place, n
  <2>. QED  BY <1>1, <1>3, <1>4, <2>3
<1>. HIDE DEF Below, n
<1>7. place \in Injection(S, 1..n)
  <2>1. \A x, y \in S : place[x] = place[y] => x = y
    <3>1. TAKE x, y \in S
    <3>2. CASE rank[x] < rank[y]
      BY <1>1, <1>5, <1>6, <3>2
    <3>3. CASE rank[y] < rank[x]
      BY <1>1, <1>5, <1>6, <3>3
    <3>4. CASE rank[x] = rank[y]
      BY <3>4
    <3>. QED  BY <1>2, <3>2, <3>3, <3>4
  <2>2. place \in [S -> 1..n]
    BY <1>6
  <2>. HIDE DEF place
  <2>. QED  BY <2>1, <2>2 DEF Injection, IsInjective
<1>8. place \in Surjection(S, 1..n)
  BY <1>1, <1>7, FS_Injection DEF n
<1>. HIDE DEF place
<1>9. \A k \in 1..n : \E x \in S : place[x] = k
  BY <1>8 DEF Surjection
<1>10. list = [k \in 1..n |-> CHOOSE x \in S : Cardinality(Below(x)) = k - 1]
  BY DEF SortedBy, n, Below
<1>11. \A k \in 1..n : list[k] \in S /\ place[list[k]] = k
  <2>1. TAKE k \in 1..n
  <2>2. \E x \in S : Cardinality(Below(x)) = k - 1
    <3>1. PICK x \in S : place[x] = k
      BY <1>9
    <3>2. Cardinality(Below(x)) \in Nat /\ Cardinality(Below(x)) + 1 = k
      BY <1>3, <1>4, <3>1
    <3>3. Cardinality(Below(x)) = k - 1
      BY <3>2
    <3>. QED  BY <3>3
  <2>3. list[k] \in S /\ Cardinality(Below(list[k])) = k - 1
    BY <1>10, <2>2
  <2>. QED  BY <1>1, <1>4, <2>3
<1>12. DOMAIN list = 1..n
  BY <1>10
<1>. HIDE DEF list
<1>13. list \in Seq(S) /\ Len(list) = n
  <2>1. list \in [1..n -> S]
    BY <1>10, <1>11
  <2>. QED  BY <1>1, <2>1
<1>14. {list[k] : k \in DOMAIN list} = S
  <2>1. ASSUME NEW x \in S PROVE \E k \in 1..n : list[k] = x
    <3>1. place[x] \in 1..n /\ place[list[place[x]]] = place[x] /\ list[place[x]] \in S
      BY <1>6, <1>11
    <3>2. list[place[x]] = x
      BY <1>7, <3>1 DEF Injection, IsInjective
    <3>. QED  BY <3>1, <3>2
  <2>. QED  BY <1>11, <1>12, <2>1
<1>15. \A j, k \in 1..n : j < k => rank[list[j]] < rank[list[k]]
  <2>1. SUFFICES ASSUME NEW j \in 1..n, NEW k \in 1..n, j < k PROVE rank[list[j]] < rank[list[k]]
    OBVIOUS
  <2>2. place[list[j]] = j /\ place[list[k]] = k /\ list[j] \in S /\ list[k] \in S
    BY <1>11
  <2>3. list[j] # list[k]
    BY <1>1, <2>1, <2>2
  <2>4. CASE rank[list[k]] < rank[list[j]]
    BY <1>1, <1>5, <2>1, <2>2, <2>4
  <2>5. rank[list[j]] # rank[list[k]]
    BY <2>2, <2>3
  <2>. QED  BY <1>2, <2>2, <2>4, <2>5
<1>. QED  BY <1>12, <1>13, <1>14, <1>15 DEF n, list

(* Running sums.                                                           *)
LEMMA TotalsAre ==
  ASSUME NEW n \in Nat, NEW f, \A k \in 1..n : f[k] \in Nat
  PROVE  /\ Totals(f, n) \in [0..n -> Nat] /\ Totals(f, n)[0] = 0
         /\ \A k \in 1..n : Totals(f, n)[k] = Totals(f, n)[k - 1] + f[k]
<1>. DEFINE step == [x \in (1..n) \X Nat |-> x[2] + f[x[1]]]
            Is(g) == g = [k \in 0..n |-> IF k = 0 THEN 0 ELSE g[k - 1] + f[k]]
            some == CHOOSE g : Is(g)
<1>1. \A k \in 1..n, x \in Nat : step[<<k, x>>] = x + f[k] /\ x + f[k] \in Nat
  OBVIOUS
<1>2. step \in [(1..n) \X Nat -> Nat]
  <2>1. \A x \in (1..n) \X Nat : x[2] + f[x[1]] \in Nat
    OBVIOUS
  <2>. QED  BY <2>1
<1>. HIDE DEF step
<1>3. PICK g : Recursion(g, Nat, n, 0, step)
  <2>1. 0 \in Nat
    OBVIOUS
  <2>. QED  BY <1>2, <2>1, RecursionIs, Zenon
<1>4. \A k \in 1..n : k - 1 \in 0..n /\ k \in 0..n /\ k # 0
  OBVIOUS
<1>5. \A k \in 0..n : k = 0 \/ k \in 1..n
  OBVIOUS
<1>6. Is(g)
  <2>1. \A k \in 1..n : g[k] = g[k - 1] + f[k]
    BY <1>1, <1>3, <1>4 DEF Recursion
  <2>2. \A k \in 0..n : g[k] = IF k = 0 THEN 0 ELSE g[k - 1] + f[k]
    BY <1>3, <1>4, <1>5, <2>1, Zenon DEF Recursion
  <2>3. g = [k \in 0..n |-> g[k]]
    BY <1>3 DEF Recursion
  <2>. QED  BY <2>2, <2>3, Zenon
<1>7. Is(some)
  BY <1>6, Zenon
<1>8. Totals(f, n) = some
  BY Zenon DEF Totals
<1>. HIDE DEF some
<1>9. /\ some = [k \in 0..n |-> some[k]] /\ some[0] = 0
      /\ \A k \in 1..n : some[k] = some[k - 1] + f[k]
  <2>1. 0 \in 0..n
    OBVIOUS
  <2>. QED  BY <1>4, <1>7, <2>1
<1>10. \A k \in 0..n : k \in {j \in 0..n : some[j] \in Nat}
  <2>. DEFINE P == {j \in 0..n : some[j] \in Nat}
  <2>1. 0 \in P
    BY <1>9
  <2>2. ASSUME NEW k \in 1..n, k - 1 \in P PROVE k \in P
    <3>1. some[k - 1] \in Nat /\ k \in 0..n
      BY <1>4, <2>2
    <3>2. some[k] = some[k - 1] + f[k]
      BY <1>9
    <3>3. f[k] \in Nat
      OBVIOUS
    <3>4. some[k] \in Nat
      BY <3>1, <3>2, <3>3
    <3>. QED  BY <3>1, <3>4
  <2>. HIDE DEF P
  <2>3. \A k \in 0..n : k \in P
    BY <2>1, <2>2, UpTo
  <2>. QED  BY <2>3 DEF P
<1>. QED  BY <1>8, <1>9, <1>10
-----------------------------------------------------------------------------
(* Transactions.  A list of events, numbered, with their times.          *)
EventsOK(evs, n) == n \in Nat /\ DOMAIN evs = 1..n /\ Len(evs) = n /\ \A k \in 1..n : evs[k].t \in Int

LEMMA PickIs ==
  ASSUME NEW evs, NEW n, EventsOK(evs, n), NEW reqs, reqs \subseteq 1..n, reqs # {}
  PROVE  Pick(evs, reqs) \in reqs
<1>. DEFINE Over(r, s) == evs[s].t < evs[r].t \/ (evs[s].t = evs[r].t /\ s =< r)
            Best(k) == \/ \A s \in reqs : ~(s <= k)
                       \/ \E r \in reqs : r <= k /\ \A s \in reqs : s <= k => Over(r, s)
            P == {k \in 0..n : Best(k)}
<1>1. n \in Nat /\ (\A s \in reqs : s \in Nat /\ s <= n /\ 1 <= s) /\ \A s \in reqs : evs[s].t \in Int
  <2>1. n \in Nat /\ \A s \in 1..n : evs[s].t \in Int
    BY DEF EventsOK
  <2>2. \A s \in reqs : s \in 1..n
    OBVIOUS
  <2>3. \A s \in 1..n : s \in Nat /\ s <= n /\ 1 <= s
    BY <2>1
  <2>. QED  BY <2>1, <2>2, <2>3, Zenon
<1>2. \A r, s, u \in reqs : Over(r, r) /\ (Over(r, s) /\ Over(u, r) => Over(u, s)) /\ (r < s => Over(r, s) \/ Over(s, r))
  <2>1. TAKE r, s, u \in reqs
  <2>2. /\ evs[r].t \in Int /\ evs[s].t \in Int /\ evs[u].t \in Int
        /\ r \in Nat /\ s \in Nat /\ u \in Nat
    BY <1>1
  <2>. QED  BY <2>2
<1>. HIDE DEF Over
<1>3. Best(0)
  <2>1. \A s \in reqs : ~(s <= 0)
    BY <1>1
  <2>. QED  BY <2>1
<1>4. ASSUME NEW k \in 1..n, Best(k - 1) PROVE Best(k)
  <2>1. \A s \in reqs : s <= k <=> s <= k - 1 \/ s = k
    <3>1. TAKE s \in reqs
    <3>2. s \in Nat /\ k \in Nat
      BY <1>1
    <3>. QED  BY <3>2
  <2>2. CASE k \notin reqs
    <3>1. \A s \in reqs : s <= k <=> s <= k - 1
      BY <2>1, <2>2
    <3>. QED  BY <1>4, <3>1, Zenon
  <2>3. CASE k \in reqs /\ \A s \in reqs : ~(s <= k - 1)
    <3>1. \A s \in reqs : s <= k => Over(k, s)
      BY <1>2, <2>1, <2>3, Zenon
    <3>2. k <= k
      OBVIOUS
    <3>. QED  BY <2>3, <3>1, <3>2, Zenon
  <2>4. ASSUME k \in reqs, NEW r \in reqs, r <= k - 1, \A s \in reqs : s <= k - 1 => Over(r, s) PROVE Best(k)
    <3>1. r < k /\ r <= k /\ k <= k
      BY <1>1, <2>4
    <3>2. CASE Over(k, r)
      <4>1. \A s \in reqs : s <= k => Over(k, s)
        BY <1>2, <2>1, <2>4, <3>2, Zenon
      <4>. QED  BY <2>4, <3>1, <4>1, Zenon
    <3>3. CASE Over(r, k)
      <4>1. \A s \in reqs : s <= k => Over(r, s)
        BY <2>1, <2>4, <3>3, Zenon
      <4>. QED  BY <3>1, <4>1, Zenon
    <3>. QED  BY <1>2, <2>4, <3>1, <3>2, <3>3
  <2>. QED  BY <1>4, <2>2, <2>3, <2>4, Zenon
<1>5. Best(n)
  <2>. HIDE DEF Best
  <2>1. 0 \in P /\ n \in 0..n
    BY <1>1, <1>3
  <2>2. \A k \in 1..n : k - 1 \in P => k \in P
    BY <1>1, <1>4
  <2>. HIDE DEF P
  <2>3. n \in P
    BY <1>1, <2>1, <2>2, UpTo
  <2>. QED  BY <2>3 DEF P
<1>6. \E r \in reqs : \A s \in reqs : Over(r, s)
  BY <1>1, <1>5, Zenon
<1>. QED  BY <1>6, Zenon DEF Pick, Over

(* What pair_transactions says of a request and its response.              *)
IsPair(evs, n, p, q) ==
  /\ q \in 1..n /\ p[q] \in 1..n /\ evs[q].kind \in Requests /\ evs[p[q]].kind \in Responses
  /\ SameShop(evs[q].kind, evs[p[q]].kind)

Pairings(evs, n) ==
  {p \in UNION {[S -> 1..n] : S \in SUBSET (1..n)} : \A q \in DOMAIN p : IsPair(evs, n, p, q)}

(* After k events: a response was used once, for a request not after it,   *)
(* and fits no open request if it was not used.                            *)
UsedOnce(evs, p, k) ==
  /\ \A q \in DOMAIN p : p[q] <= k /\ evs[q].t <= evs[p[q]].t
  /\ \A q, r \in DOMAIN p : p[q] = p[r] => q = r

NoneLeft(evs, n, p, k) ==
  \A r \in 1..k : evs[r].kind \in Responses /\ (\A s \in DOMAIN p : p[s] # r)
                    => \A q \in 1..n : ~Fits(evs, p, r, q)

PairedTo(evs, n, k) == {p \in Pairings(evs, n) : UsedOnce(evs, p, k) /\ NoneLeft(evs, n, p, k)}

LEMMA ConfirmPairs ==
  ASSUME NEW evs, NEW n, EventsOK(evs, n), NEW k \in 1..n, NEW p \in Pairings(evs, n)
  PROVE  /\ Confirm(evs, p, k) \in Pairings(evs, n)
         /\ p \in PairedTo(evs, n, k - 1) => Confirm(evs, p, k) \in PairedTo(evs, n, k)
<1>. DEFINE open == {r \in DOMAIN evs : Fits(evs, p, k, r)}
            req == Pick(evs, open)
            out == [r \in DOMAIN p \cup {req} |-> IF r = req THEN k ELSE p[r]]
<1>0. n \in Nat /\ DOMAIN evs = 1..n /\ \A j \in 1..k : j = k \/ j \in 1..(k - 1)
  BY DEF EventsOK
<1>01. DOMAIN p \subseteq 1..n /\ \A q \in DOMAIN p : IsPair(evs, n, p, q) /\ p[q] \in 1..n
  BY DEF Pairings
<1>1. CASE evs[k].kind \notin Responses \/ open = {}
  <2>1. Confirm(evs, p, k) = p
    BY <1>1, Zenon DEF Confirm
  <2>2. ASSUME p \in PairedTo(evs, n, k - 1) PROVE p \in PairedTo(evs, n, k)
    <3>1. UsedOnce(evs, p, k - 1) /\ NoneLeft(evs, n, p, k - 1)
      BY <2>2 DEF PairedTo
    <3>2. \A q \in DOMAIN p : p[q] <= k - 1 => p[q] <= k
      BY <1>0, <1>01
    <3>3. UsedOnce(evs, p, k)
      BY <3>1, <3>2 DEF UsedOnce
    <3>4. evs[k].kind \in Responses => \A q \in 1..n : ~Fits(evs, p, k, q)
      BY <1>0, <1>1
    <3>5. NoneLeft(evs, n, p, k)
      BY <1>0, <3>1, <3>4, Zenon DEF NoneLeft
    <3>. QED  BY <3>3, <3>5 DEF PairedTo
  <2>. QED  BY <2>1, <2>2
<1>2. CASE evs[k].kind \in Responses /\ open # {}
  <2>1. open \subseteq 1..n
        /\ \A r \in open : /\ evs[r].kind \in Requests /\ SameShop(evs[r].kind, evs[k].kind)
                           /\ r \notin DOMAIN p /\ evs[r].t <= evs[k].t
    BY <1>0 DEF Fits
  <2>. HIDE DEF open
  <2>2. req \in open
    BY <1>2, <2>1, PickIs
  <2>3. Confirm(evs, p, k) = out
    BY <1>2, Zenon DEF Confirm, open
  <2>. HIDE DEF req
  <2>5. DOMAIN out = DOMAIN p \cup {req} /\ out \in [DOMAIN p \cup {req} -> 1..n]
    BY <1>01
  <2>50. /\ req \notin DOMAIN p /\ out[req] = k /\ evs[req].t <= evs[k].t
         /\ \A q \in DOMAIN p : out[q] = p[q]
    BY <2>1, <2>2
  <2>6. DOMAIN p \cup {req} \in SUBSET (1..n)
    BY <1>01, <2>1, <2>2
  <2>7. \A q \in DOMAIN out : IsPair(evs, n, out, q)
    BY <1>01, <1>2, <2>1, <2>2 DEF IsPair
  <2>. HIDE DEF out
  <2>8. out \in UNION {[S -> 1..n] : S \in SUBSET (1..n)}
    BY <2>5, <2>6
  <2>9. out \in Pairings(evs, n)
    BY <2>7, <2>8 DEF Pairings
  <2>10. ASSUME p \in PairedTo(evs, n, k - 1) PROVE out \in PairedTo(evs, n, k)
    <3>1. UsedOnce(evs, p, k - 1) /\ NoneLeft(evs, n, p, k - 1)
      BY <2>10 DEF PairedTo
    <3>2. \A q \in DOMAIN p : p[q] <= k - 1 => p[q] <= k /\ p[q] # k
      BY <1>0, <1>01
    <3>3. \A q \in DOMAIN p : p[q] <= k /\ p[q] # k /\ evs[q].t <= evs[p[q]].t
      BY <3>1, <3>2 DEF UsedOnce
    <3>4. k <= k
      BY <1>0
    <3>5. UsedOnce(evs, out, k)
      BY <2>5, <2>50, <3>1, <3>3, <3>4, Zenon DEF UsedOnce
    <3>6. \A r, q : Fits(evs, out, r, q) => Fits(evs, p, r, q)
      BY <2>5 DEF Fits
    <3>7. NoneLeft(evs, n, out, k)
      <4>1. SUFFICES ASSUME NEW r \in 1..k, \A s \in DOMAIN out : out[s] # r,
                            evs[r].kind \in Responses, NEW q \in 1..n
                     PROVE  ~Fits(evs, p, r, q)
        BY <3>6 DEF NoneLeft
      <4>2. r # k /\ \A s \in DOMAIN p : p[s] # r
        BY <2>5, <2>50, <4>1
      <4>. QED  BY <1>0, <3>1, <4>1, <4>2 DEF NoneLeft
    <3>. QED  BY <2>9, <3>5, <3>7 DEF PairedTo
  <2>. QED  BY <2>3, <2>9, <2>10
<1>. QED  BY <1>1, <1>2

(* What pair_transactions finds, of any list of events: a request and a    *)
(* response that may be of the same shop, each once, as long as there are. *)
LEMMA PairsArePairs ==
  ASSUME NEW evs, NEW n, EventsOK(evs, n)
  PROVE  pair_transactions(evs) \in PairedTo(evs, n, n)
<1>. DEFINE A == Pairings(evs, n)
            step == [x \in (1..n) \X A |-> Confirm(evs, x[2], x[1])]
            Is(f) == f = [k \in 0..n |-> IF k = 0 THEN <<>> ELSE Confirm(evs, f[k - 1], k)]
            some == CHOOSE f : Is(f)
<1>1. n \in Nat /\ Len(evs) = n
  BY DEF EventsOK
<1>2. <<>> \in A /\ <<>> \in PairedTo(evs, n, 0)
  <2>1. <<>> \in [{} -> 1..n] /\ DOMAIN <<>> = {}
    OBVIOUS
  <2>2. <<>> \in A
    BY <2>1 DEF Pairings
  <2>3. 1..0 = {}
    OBVIOUS
  <2>4. UsedOnce(evs, <<>>, 0) /\ NoneLeft(evs, n, <<>>, 0)
    BY <2>1, <2>3, Zenon DEF UsedOnce, NoneLeft
  <2>. QED  BY <2>2, <2>4 DEF PairedTo
<1>3. \A k \in 1..n, p \in A : Confirm(evs, p, k) \in A
  BY ConfirmPairs
<1>31. \A k \in 1..n : \A p : p \in PairedTo(evs, n, k - 1) => Confirm(evs, p, k) \in PairedTo(evs, n, k)
  <2>1. \A k, p : p \in PairedTo(evs, n, k) => p \in A
    BY DEF PairedTo
  <2>. HIDE DEF A
  <2>2. \A k \in 1..n, p \in A : p \in PairedTo(evs, n, k - 1) => Confirm(evs, p, k) \in PairedTo(evs, n, k)
    BY ConfirmPairs DEF A
  <2>. QED  BY <2>1, <2>2
<1>. HIDE DEF A
<1>4. \A k \in 1..n, p \in A : step[<<k, p>>] = Confirm(evs, p, k)
  OBVIOUS
<1>5. step \in [(1..n) \X A -> A]
  <2>1. \A x \in (1..n) \X A : Confirm(evs, x[2], x[1]) \in A
    BY <1>3
  <2>. QED  BY <2>1, Zenon
<1>. HIDE DEF step
<1>6. PICK g : Recursion(g, A, n, <<>>, step)
  BY <1>1, <1>2, <1>5, RecursionIs, Zenon
<1>7. \A k \in 1..n : k - 1 \in 0..n /\ k \in 0..n /\ k # 0
  BY <1>1
<1>8. \A k \in 0..n : k = 0 \/ k \in 1..n
  BY <1>1
<1>9. Is(g)
  <2>1. \A k \in 1..n : g[k - 1] \in A /\ g[k] = Confirm(evs, g[k - 1], k)
    BY <1>4, <1>6, <1>7 DEF Recursion
  <2>2. \A k \in 0..n : g[k] = IF k = 0 THEN <<>> ELSE Confirm(evs, g[k - 1], k)
    BY <1>6, <1>7, <1>8, <2>1, Zenon DEF Recursion
  <2>3. g = [k \in 0..n |-> g[k]]
    BY <1>6 DEF Recursion
  <2>. QED  BY <2>2, <2>3, Zenon
<1>10. Is(some)
  BY <1>9, Zenon
<1>11. pair_transactions(evs) = some[n]
  BY <1>1, Zenon DEF pair_transactions
<1>. HIDE DEF some
<1>12. \A k \in 0..n : some[k] = IF k = 0 THEN <<>> ELSE Confirm(evs, some[k - 1], k)
  BY <1>10, Zenon
<1>. DEFINE P == {k \in 0..n : some[k] \in PairedTo(evs, n, k)}
<1>13. 0 \in P
  <2>1. 0 \in 0..n
    BY <1>1
  <2>. QED  BY <1>2, <1>12, <2>1, Zenon
<1>14. \A k \in 1..n : k - 1 \in P => k \in P
  BY <1>31, <1>7, <1>12, Zenon
<1>15. n \in P
  <2>1. n \in 0..n
    BY <1>1
  <2>. HIDE DEF P
  <2>. QED  BY <1>1, <1>13, <1>14, <2>1, UpTo, Zenon
<1>. QED  BY <1>11, <1>15
-----------------------------------------------------------------------------
(* A filter makes no list longer, and one that all items pass changes      *)
(* nothing.                                                                *)
LEMMA FilteredLength ==
  ASSUME NEW A, NEW list \in Seq(A), NEW S
  PROVE  /\ Len(Filtered(list, S)) <= Len(list)
         /\ ToSet(list) \subseteq S => Filtered(list, S) = list
<1>. DEFINE n == Len(list)
            To(k) == SubSeq(list, 1, k)
<1>1. PICK f : IsFilter(f, A, list, S) /\ Filtered(list, S) = f[n]
  BY FilteredIs
<1>2. /\ n \in Nat /\ DOMAIN list = 1..n /\ f \in [0..n -> Seq(A)] /\ f[0] = <<>>
      /\ \A k \in 1..n : list[k] \in A /\ k - 1 \in 0..n /\ k \in 0..n
      /\ \A k \in 1..n : f[k] = IF list[k] \in S THEN Append(f[k - 1], list[k]) ELSE f[k - 1]
  BY <1>1 DEF IsFilter
<1>. HIDE DEF n
<1>3. Len(f[n]) <= n
  <2>. DEFINE P == {k \in 0..n : Len(f[k]) <= k}
  <2>1. 0 \in P
    BY <1>2
  <2>2. ASSUME NEW k \in 1..n, k - 1 \in P PROVE k \in P
    <3>1. f[k - 1] \in Seq(A) /\ Len(f[k - 1]) \in Nat /\ Len(f[k - 1]) <= k - 1
      BY <1>2, <2>2
    <3>2. Len(Append(f[k - 1], list[k])) = Len(f[k - 1]) + 1
      BY <1>2, <3>1, AppendItems
    <3>3. f[k] = Append(f[k - 1], list[k]) \/ f[k] = f[k - 1]
      BY <1>2
    <3>4. k \in Int /\ k - 1 < k
      BY <1>2
    <3>5. Len(f[k]) <= k
      BY <3>1, <3>2, <3>3, <3>4
    <3>. QED  BY <1>2, <3>5
  <2>. HIDE DEF P
  <2>3. \A k \in 0..n : k \in P
    BY <1>2, <2>1, <2>2, UpTo
  <2>. QED  BY <1>2, <2>3 DEF P
<1>4. ASSUME ToSet(list) \subseteq S PROVE f[n] = list
  <2>. DEFINE P == {k \in 0..n : Len(f[k]) = k /\ \A j \in 1..k : f[k][j] = list[j]}
  <2>1. 0 \in P
    BY <1>2
  <2>2. ASSUME NEW k \in 1..n, k - 1 \in P PROVE k \in P
    <3>1. f[k] = Append(f[k - 1], list[k])
      BY <1>2, <1>4 DEF ToSet
    <3>2. f[k - 1] \in Seq(A) /\ Len(f[k - 1]) = k - 1 /\ \A j \in 1..(k - 1) : f[k - 1][j] = list[j]
      BY <1>2, <2>2
    <3>3. PICK s \in Seq(A), x \in A : s = f[k - 1] /\ x = list[k]
      BY <1>2, <3>2
    <3>4. k \in Nat /\ Len(s) = k - 1 /\ Len(Append(s, x)) = k /\ Append(s, x)[k] = x
          /\ \A j \in 1..(k - 1) : Append(s, x)[j] = s[j]
      BY <1>2, <3>2, <3>3
    <3>5. \A j \in 1..k : j = k \/ j \in 1..(k - 1)
      BY <3>4
    <3>6. \A j \in 1..k : f[k][j] = list[j]
      BY <3>1, <3>2, <3>3, <3>4, <3>5
    <3>. QED  BY <1>2, <3>1, <3>3, <3>4, <3>6
  <2>. HIDE DEF P
  <2>3. \A k \in 0..n : k \in P
    BY <1>2, <2>1, <2>2, UpTo
  <2>4. f[n] \in Seq(A) /\ Len(f[n]) = n /\ \A j \in 1..n : f[n][j] = list[j]
    BY <1>2, <2>3 DEF P
  <2>. QED  BY <1>2, <2>4 DEF n
<1>. QED  BY <1>1, <1>3, <1>4 DEF n
-----------------------------------------------------------------------------
(* What SumOver counts.                                                    *)
Units(S, f) == UNION {{x} \X (1..f[x]) : x \in S}

(* The sum over a finite set: it is a number, additive, and that of a      *)
(* single member is its own.                                               *)
LEMMA UnitsAre ==
  ASSUME NEW S, NEW f
  PROVE  /\ SumOver(S, f) = Cardinality(Units(S, f))
         /\ \A u : u \in Units(S, f) <=> \E x \in S : \E i \in 1..f[x] : u = <<x, i>>
BY DEF SumOver, Units

LEMMA DisjointCount ==
  ASSUME NEW S, IsFiniteSet(S), NEW T, IsFiniteSet(T), S \cap T = {}
  PROVE  IsFiniteSet(S \cup T) /\ Cardinality(S \cup T) = Cardinality(S) + Cardinality(T)
<1>1. Cardinality(S) \in Nat /\ Cardinality(T) \in Nat
  BY FS_CardinalityType
<1>2. /\ IsFiniteSet(S \cup T)
      /\ Cardinality(S \cup T) = Cardinality(S) + Cardinality(T) - Cardinality(S \cap T)
  BY FS_Union
<1>3. Cardinality(S \cap T) = 0
  BY FS_EmptySet
<1>. QED  BY <1>1, <1>2, <1>3

LEMMA UnitsFinite ==
  ASSUME NEW S, IsFiniteSet(S), NEW f, \A x \in S : f[x] \in Nat
  PROVE  IsFiniteSet(Units(S, f))
<1>. DEFINE Of(x) == {x} \X (1..f[x])
            T == {Of(x) : x \in S}
            g == [x \in S |-> Of(x)]
<1>1. g \in Surjection(S, T)
  BY DEF Surjection
<1>2. IsFiniteSet(T)
  BY <1>1, FS_Surjection
<1>3. ASSUME NEW x \in S PROVE IsFiniteSet(Of(x))
  <2>1. f[x] \in Nat
    OBVIOUS
  <2>2. IsFiniteSet(1..f[x])
    BY <2>1, FS_Interval
  <2>3. IsFiniteSet({x})
    BY FS_Singleton
  <2>. QED  BY <2>2, <2>3, FS_Product
<1>. QED  BY <1>2, <1>3, FS_UNION DEF Units

LEMMA SumIs ==
  ASSUME NEW S, IsFiniteSet(S), NEW f, \A x \in S : f[x] \in Nat
  PROVE  SumOver(S, f) \in Nat
BY UnitsAre, UnitsFinite, FS_CardinalityType

LEMMA SumOfNone ==
  ASSUME NEW f
  PROVE  SumOver({}, f) = 0
<1>1. Units({}, f) = {}
  BY DEF Units
<1>. QED  BY <1>1, UnitsAre, FS_EmptySet

LEMMA SumOfOne ==
  ASSUME NEW x, NEW f, f[x] \in Nat
  PROVE  SumOver({x}, f) = f[x]
<1>. DEFINE n == f[x]
            g == [i \in 1..n |-> <<x, i>>]
<1>1. Units({x}, f) = {<<x, i>> : i \in 1..n}
  BY DEF Units
<1>2. g \in Bijection(1..n, Units({x}, f))
  <2>1. g \in [1..n -> Units({x}, f)]
    BY <1>1
  <2>2. \A i, j \in 1..n : g[i] = g[j] => i = j
    OBVIOUS
  <2>3. \A u \in Units({x}, f) : \E i \in 1..n : g[i] = u
    BY <1>1
  <2>. QED  BY <2>1, <2>2, <2>3 DEF Bijection, Injection, Surjection, IsInjective
<1>3. IsFiniteSet(1..n) /\ Cardinality(1..n) = n
  BY FS_Interval
<1>. QED  BY <1>2, <1>3, FS_Bijection, UnitsAre DEF ExistsBijection

LEMMA SumOfBoth ==
  ASSUME NEW S, IsFiniteSet(S), NEW T, IsFiniteSet(T), S \cap T = {},
         NEW f, \A x \in S \cup T : f[x] \in Nat
  PROVE  SumOver(S \cup T, f) = SumOver(S, f) + SumOver(T, f)
<1>1. Units(S \cup T, f) = Units(S, f) \cup Units(T, f)
  BY DEF Units
<1>2. Units(S, f) \cap Units(T, f) = {}
  <2>1. ASSUME NEW u \in Units(S, f), u \in Units(T, f) PROVE FALSE
    <3>1. PICK x \in S, y \in T : u \in {x} \X (1..f[x]) /\ u \in {y} \X (1..f[y])
      BY <2>1 DEF Units
    <3>. QED  BY <3>1
  <2>. QED  BY <2>1
<1>3. IsFiniteSet(Units(S, f)) /\ IsFiniteSet(Units(T, f))
  BY UnitsFinite
<1>4. Cardinality(Units(S \cup T, f)) = Cardinality(Units(S, f)) + Cardinality(Units(T, f))
  BY <1>1, <1>2, <1>3, DisjointCount
<1>5. SumOver(S, f) \in Nat /\ SumOver(T, f) \in Nat
  BY SumIs
<1>. QED  BY <1>4, <1>5, UnitsAre

LEMMA SumOfSome ==
  ASSUME NEW S, IsFiniteSet(S), NEW T, T \subseteq S, NEW f, \A x \in S : f[x] \in Nat
  PROVE  SumOver(T, f) <= SumOver(S, f)
<1>1. Units(T, f) \subseteq Units(S, f)
  BY DEF Units
<1>2. IsFiniteSet(Units(S, f))
  BY UnitsFinite
<1>. QED  BY <1>1, <1>2, FS_Subset, UnitsAre

(* Counting by kinds counts everything.                                    *)
LEMMA SumOfKinds ==
  ASSUME NEW S, IsFiniteSet(S), NEW K, IsFiniteSet(K), NEW kind \in [S -> K],
         NEW f, \A k \in K : f[k] = Cardinality({x \in S : kind[x] = k})
  PROVE  SumOver(K, f) = Cardinality(S)
<1>. DEFINE n == Cardinality(K)
            Of(k) == {x \in S : kind[x] = k}
<1>1. n \in Nat
  BY FS_CardinalityType
<1>2. PICK e \in Bijection(1..n, K) : TRUE
  BY FS_CardinalityType DEF ExistsBijection
<1>3. /\ e \in [1..n -> K]
      /\ \A i, j \in 1..n : e[i] = e[j] => i = j
      /\ \A k \in K : \E i \in 1..n : e[i] = k
  BY <1>2 DEF Bijection, Injection, Surjection, IsInjective
<1>4. \A k \in K : IsFiniteSet(Of(k)) /\ f[k] = Cardinality(Of(k)) /\ f[k] \in Nat
  <2>1. TAKE k \in K
  <2>2. Of(k) \in SUBSET S
    OBVIOUS
  <2>. QED  BY <2>2, FS_Subset, FS_CardinalityType
<1>. DEFINE First(i) == {e[j] : j \in 1..i}
            Upto(i) == {x \in S : kind[x] \in First(i)}
            Good(i) == IsFiniteSet(First(i)) /\ SumOver(First(i), f) = Cardinality(Upto(i))
            P == {i \in 0..n : Good(i)}
<1>5. 0 \in P
  <2>1. First(0) = {} /\ Upto(0) = {}
    OBVIOUS
  <2>2. IsFiniteSet({}) /\ SumOver({}, f) = Cardinality({})
    BY SumOfNone, FS_EmptySet
  <2>3. Good(0)
    BY Zenon, <2>1, <2>2
  <2>4. 0 \in 0..n
    BY <1>1
  <2>. QED  BY Zenon, <2>3, <2>4
<1>6. ASSUME NEW i \in 1..n, i - 1 \in P PROVE i \in P
  <2>1. First(i) = First(i - 1) \cup {e[i]} /\ e[i] \notin First(i - 1) /\ First(i) \subseteq K
        /\ e[i] \in K
    <3>1. \A j \in 1..i : j \in 1..n /\ (j = i \/ j \in 1..(i - 1))
      BY <1>1
    <3>2. i \in 1..i /\ \A j \in 1..(i - 1) : j \in 1..i /\ j # i
      BY <1>1
    <3>. QED  BY <1>3, <3>1, <3>2
  <2>2. Upto(i) = Upto(i - 1) \cup Of(e[i]) /\ Upto(i - 1) \cap Of(e[i]) = {}
    BY <2>1
  <2>3. Upto(i - 1) \in SUBSET S /\ Of(e[i]) \in SUBSET S
    OBVIOUS
  <2>4. IsFiniteSet(First(i - 1)) /\ SumOver(First(i - 1), f) = Cardinality(Upto(i - 1)) /\ i \in 0..n
    <3>1. Good(i - 1)
      BY Zenon, <1>6
    <3>2. i \in 0..n
      BY <1>1
    <3>. QED  BY Zenon, <3>1, <3>2
  <2>. HIDE DEF First, Upto, Of
  <2>5. IsFiniteSet(First(i)) /\ \A x \in First(i - 1) \cup {e[i]} : f[x] \in Nat
    BY <1>4, <2>1, <2>4, FS_AddElement
  <2>6. SumOver(First(i), f) = SumOver(First(i - 1), f) + f[e[i]]
    <3>1. First(i - 1) \cap {e[i]} = {} /\ IsFiniteSet({e[i]})
      BY <2>1, FS_Singleton
    <3>2. SumOver({e[i]}, f) = f[e[i]]
      BY <2>5, SumOfOne
    <3>. QED  BY <2>1, <2>4, <2>5, <3>1, <3>2, SumOfBoth
  <2>7. Cardinality(Upto(i)) = Cardinality(Upto(i - 1)) + Cardinality(Of(e[i]))
    <3>1. IsFiniteSet(Upto(i - 1)) /\ IsFiniteSet(Of(e[i]))
      BY <2>3, FS_Subset
    <3>. QED  BY <2>2, <3>1, DisjointCount
  <2>. QED  BY <1>4, <2>1, <2>4, <2>5, <2>6, <2>7
<1>. HIDE DEF P
<1>7. \A i \in 0..n : i \in P
  BY <1>1, <1>5, <1>6, UpTo
<1>8. First(n) = K /\ Upto(n) = S
  BY <1>3
<1>. HIDE DEF First, Upto
<1>. QED  BY <1>1, <1>7, <1>8 DEF P
=============================================================================
