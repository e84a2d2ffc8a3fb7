------------------------------- MODULE Lists -------------------------------
(***************************************************************************)
(* Lists that several modules use: the rows of an ordered query or the     *)
(* items of a Vec that pass a filter, in their order (WHERE, retain,       *)
(* filter), items sorted by a key of which no two have the same (ORDER BY, *)
(* sort_by_key), and sums.  SelectSeq, SetToSortSeq and MapThenSumSet say  *)
(* the same; no proof can use their definitions, by recursive operators.   *)
(***************************************************************************)
EXTENDS Integers, Sequences, FiniteSets

(* The items of the list that are in S.                                    *)
Filtered(list, S) ==
  LET some[n \in 0..Len(list)] ==
        IF n = 0 THEN <<>>
        ELSE IF list[n] \in S THEN Append(some[n - 1], list[n]) ELSE some[n - 1]
  IN some[Len(list)]

(* The sums of the first k of n numbers.                                   *)
Totals(f, n) == LET sum[k \in 0..n] == IF k = 0 THEN 0 ELSE sum[k - 1] + f[k] IN sum

(* The sum of f over S: so many pairs there are of a member and a number.  *)
SumOver(S, f) == Cardinality(UNION {{x} \X (1..f[x]) : x \in S})

(* The members of S, the lowest rank first.                                *)
SortedBy(S, rank) ==
  [k \in 1..Cardinality(S) |->
     CHOOSE x \in S : Cardinality({y \in S : rank[y] < rank[x]}) = k - 1]
=============================================================================
