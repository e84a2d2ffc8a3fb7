--------------------------- MODULE Client_proofs ---------------------------
(***************************************************************************)
(* Proofs about the tray client: the unknown lines (UnknownLines), the     *)
(* re-parse next to the tail and the sync worker (Reparse), the launcher's *)
(* log (LauncherTail), the crash scanner (CrashScan), the health card      *)
(* (Health), what is derived from the lines (the parser's rules, bursts,   *)
(* transactions and inferred events) and, at the end, the delivery of      *)
(* events to the server (EventDelivery).  They hold for any lines, shapes, *)
(* rules, events and numbers of files, crashes, commands, submissions and  *)
(* workers, and for any bounds.                                            *)
(***************************************************************************)
EXTENDS MCClient, EventDelivery, BurstDetection_proofs, Lists_proofs, FiniteSetTheorems,
        SequenceTheorems, TLAPS

Marks == UNION {l.marks : l \in OddLines}
Findings == {detect_pii(l) : l \in OddLines}

RowType ==
  [count : Nat \ {0}, samples : Seq(OddLines), score : Int, pii : Findings,
   dismissed : BOOLEAN, submitted : BOOLEAN]
PaneRows == [shape : OddShapes, raw_line : OddLines, count : Nat \ {0}, pii : Findings]
Payloads ==
  [shape : OddShapes, count : Nat \ {0}, shown : SUBSET Marks, huge : BOOLEAN, found : BOOLEAN]
SubmitType ==
  {NoSubmit}
  \cup [at : {"anon"}, batch : SUBSET Payloads, anon : Nat]
  \cup [at : {"post"}, batch : SUBSET Payloads, anon : AnonIds]
  \cup [at : {"write"}, batch : SUBSET Payloads, anon : AnonIds, left : SUBSET Payloads]

UnknownTyped ==
  /\ unknownLines \in [OddShapes -> {NoRow} \cup RowType]
  /\ pane \in SUBSET PaneRows
  /\ submits \in [SubmitCalls -> SubmitType]
  /\ landed \in [OddShapes \X AnonIds -> [total : Nat, shown : SUBSET Marks]]
  /\ captures \in [OddShapes -> Seq(OddLines)]
  /\ stamped \in [OddShapes -> Nat]
  /\ refusedShapes \subseteq OddShapes /\ idLost \in BOOLEAN
  /\ otherWriter \in [at : {"idle", "loaded", "writing"}, anon : Nat]

(* The last RawCap lines of a shape.                                       *)
Window(all) == SubSeq(all, IF Len(all) > RawCap THEN Len(all) - RawCap + 1 ELSE 1, Len(all))

(* Every capture is counted and the last lines are the samples; finitely   *)
(* many shapes have a row, and a dismissed one keeps its mark.             *)
RowsKept ==
  /\ \A h \in OddShapes : unknownLines[h].count = Len(captures[h])
  /\ \A h \in OddShapes : unknownLines[h].count > 0 => unknownLines[h].samples = Window(captures[h])
  /\ IsFiniteSet({h \in OddShapes : unknownLines[h].count > 0})
  /\ \A h \in refusedShapes : unknownLines[h].count > 0 /\ unknownLines[h].dismissed

(* The pane and a batch have one entry per shape, of a shape with a row.   *)
OnePerShape(S) ==
  /\ \A p \in S : unknownLines[p.shape].count > 0
  /\ \A p, q \in S : p.shape = q.shape => p = q

Busy(c) == submits[c].at # "idle"

BatchesKept ==
  /\ OnePerShape(pane)
  /\ \A c \in SubmitCalls : Busy(c) => OnePerShape(submits[c].batch)

(* No more ids are handed out than submissions have started.               *)
AwaitAnon == {c \in SubmitCalls : submits[c].at = "anon"}
IdsCounted ==
  /\ started \in 0 .. MaxSubmits /\ anonIssued \in Nat /\ anonId \in 0 .. anonIssued
  /\ otherWriter.anon \in 0 .. anonIssued
  /\ IsFiniteSet(AwaitAnon) /\ anonIssued + Cardinality(AwaitAnon) <= started
  /\ \A c \in SubmitCalls : Busy(c) => submits[c].anon \in 0 .. anonIssued

(* Until an id is lost, whoever has one has the one there is.              *)
OneInstall ==
  ~idLost =>
    /\ \A h \in OddShapes, a \in AnonIds : landed[<<h, a>>].total > 0 => a = KeptId
    /\ \A c \in SubmitCalls : Busy(c) =>
         submits[c].anon = KeptId \/ (submits[c].at = "anon" /\ submits[c].anon = 0)

(* What a submission has written has reached the server with its count;    *)
(* so has what is stamped.                                                 *)
StampsLanded ==
  /\ \A c \in SubmitCalls : submits[c].at = "write" =>
       /\ submits[c].left \subseteq submits[c].batch
       /\ \A p \in submits[c].batch \ submits[c].left :
            landed[<<p.shape, submits[c].anon>>].total >= p.count
  /\ \A h \in OddShapes : stamped[h] > 0 =>
       \E a \in AnonIds : landed[<<h, a>>].total >= stamped[h]
  /\ \A h \in OddShapes :
       unknownLines[h].count > 0 /\ unknownLines[h].submitted => stamped[h] > 0

(* A line goes out without the tokens that were found in it.               *)
Redacted(p) == p.found => \A m \in p.shown : m.kind \notin {"own", "shard"}
BatchesRedacted == \A c \in SubmitCalls : Busy(c) => \A p \in submits[c].batch : Redacted(p)

(* The inductive invariant of UnknownLines.                                *)
UnknownInv ==
  /\ UnknownTyped /\ RowsKept /\ BatchesKept /\ IdsCounted
  /\ OneInstall /\ StampsLanded /\ BatchesRedacted
-----------------------------------------------------------------------------
(* The window of a longer sequence.                                        *)
LEMMA WindowIs ==
  ASSUME NEW all, NEW m, m = Len(all)
  PROVE  Window(all) = SubSeq(all, IF m > RawCap THEN m - RawCap + 1 ELSE 1, m)
<1>. QED  BY Zenon DEF Window

LEMMA WindowAppend ==
  ASSUME NEW all \in Seq(OddLines), NEW l \in OddLines
  PROVE  Window(Append(all, l)) =
           LET w == Append(Window(all), l) IN IF Len(w) > RawCap THEN Tail(w) ELSE w
<1>. DEFINE n == Len(all)  from == IF n > RawCap THEN n - RawCap + 1 ELSE 1
            w == Window(all)  a == Append(w, l)  more == Append(all, l)
            next == IF n + 1 > RawCap THEN n + 1 - RawCap + 1 ELSE 1
<1>1. n \in Nat /\ RawCap \in Nat \ {0} /\ from \in 1 .. n + 1 /\ next \in 1 .. n + 1
  BY LenProperties, UnknownBounds
<1>2. /\ w \in Seq(OddLines) /\ Len(w) = n - from + 1
      /\ \A i \in 1 .. n - from + 1 : w[i] = all[from + i - 1]
  <2>1. \A i \in from .. n : all[i] \in OddLines
    BY <1>1, ElementOfSeq
  <2>2. w = SubSeq(all, from, n)
    BY DEF Window
  <2>. HIDE DEF w, from, n
  <2>. QED  BY <1>1, <2>1, <2>2, SubSeqProperties
<1>3. /\ a \in Seq(OddLines) /\ Len(a) = n - from + 2
      /\ \A i \in 1 .. n - from + 1 : a[i] = all[from + i - 1]
      /\ a[n - from + 2] = l
  <2>. HIDE DEF w, from, n
  <2>. QED  BY <1>1, <1>2
<1>4. /\ more \in Seq(OddLines) /\ Len(more) = n + 1
      /\ \A i \in 1 .. n : more[i] = all[i]
      /\ more[n + 1] = l
  BY <1>1
<1>5. /\ Window(more) \in Seq(OddLines) /\ Len(Window(more)) = n + 1 - next + 1
      /\ \A i \in 1 .. n + 1 - next + 1 : Window(more)[i] = more[next + i - 1]
  <2>1. \A i \in next .. n + 1 : more[i] \in OddLines
    BY <1>1, <1>4, ElementOfSeq
  <2>2. Window(more) = SubSeq(more, next, n + 1)
    <3>1. PICK m : m = n + 1 /\ m = Len(more)
      BY <1>4
    <3>. HIDE DEF more, n
    <3>2. Window(more) = SubSeq(more, IF m > RawCap THEN m - RawCap + 1 ELSE 1, m)
      BY <3>1, WindowIs
    <3>3. next = IF m > RawCap THEN m - RawCap + 1 ELSE 1
      BY <1>1, <3>1
    <3>. HIDE DEF next
    <3>. QED  BY <3>1, <3>2, <3>3
  <2>. HIDE DEF more, next, n
  <2>. QED  BY <1>1, <2>1, <2>2, SubSeqProperties
<1>6. CASE Len(a) > RawCap
  <2>1. n + 1 > RawCap /\ from = n + 1 - RawCap + 1 - 1 /\ next = from + 1
    <3>. HIDE DEF a, n
    <3>. QED  BY <1>1, <1>3, <1>6
  <2>2. /\ Tail(a) \in Seq(OddLines) /\ Len(Tail(a)) = n - from + 1
        /\ \A i \in 1 .. n - from + 1 : Tail(a)[i] = a[i + 1]
    <3>. HIDE DEF a, from, n
    <3>1. a # <<>> /\ Len(a) \in Nat
      BY <1>1, <1>3, EmptySeq
    <3>. QED  BY <1>1, <1>3, <3>1, HeadTailProperties
  <2>3. \A i \in 1 .. n - from + 1 : Tail(a)[i] = Window(more)[i]
    <3>. SUFFICES ASSUME NEW i \in 1 .. n - from + 1  PROVE Tail(a)[i] = Window(more)[i]
      OBVIOUS
    <3>. HIDE DEF a, from, n, more, next
    <3>. QED  BY <1>1, <1>3, <1>4, <1>5, <2>1, <2>2
  <2>4. Len(Tail(a)) = Len(Window(more))
    <3>. HIDE DEF a, from, n, more, next
    <3>1. n + 1 - next + 1 = n - from + 1
      BY <1>1, <2>1
    <3>. QED  BY <1>5, <2>2, <3>1
  <2>5. Window(more) = Tail(a)
    <3>. HIDE DEF a, from, n, more, next
    <3>. QED  BY <1>5, <2>2, <2>3, <2>4, SeqEqual
  <2>. QED  BY <1>6, <2>5
<1>7. CASE ~(Len(a) > RawCap)
  <2>1. n + 1 <= RawCap /\ from = 1 /\ next = 1
    <3>. HIDE DEF a, n
    <3>. QED  BY <1>1, <1>3, <1>7
  <2>2. \A i \in 1 .. n + 1 : a[i] = Window(more)[i]
    <3>. SUFFICES ASSUME NEW i \in 1 .. n + 1  PROVE a[i] = Window(more)[i]
      OBVIOUS
    <3>. HIDE DEF a, from, n, more, next
    <3>. QED  BY <1>1, <1>3, <1>4, <1>5, <2>1
  <2>3. Window(more) = a
    <3>. HIDE DEF a, from, n, more, next
    <3>. QED  BY <1>1, <1>3, <1>5, <2>1, <2>2, SeqEqual
  <2>. QED  BY <1>7, <2>3
<1>. QED  BY <1>6, <1>7

LEMMA WindowFirst ==
  ASSUME NEW all \in Seq(OddLines), Len(all) = 0, NEW l \in OddLines
  PROVE  Window(Append(all, l)) = <<l>>
<1>1. all = <<>>
  BY EmptySeq
<1>2. Append(all, l) = <<l>> /\ Len(<<l>>) = 1 /\ <<l>> \in Seq(OddLines)
  BY <1>1
<1>3. Window(Append(all, l)) = SubSeq(<<l>>, 1, 1)
  BY <1>2, UnknownBounds DEF Window
<1>. QED  BY <1>2, <1>3, SubSeqFull

(* The last sample is a line.                                              *)
LEMMA WindowLast ==
  ASSUME NEW all \in Seq(OddLines), Len(all) > 0
  PROVE  Last(Window(all)) \in OddLines
<1>. DEFINE n == Len(all)  from == IF n > RawCap THEN n - RawCap + 1 ELSE 1
<1>1. n \in Nat /\ from \in 1 .. n
  BY LenProperties, UnknownBounds
<1>2. \A i \in from .. n : all[i] \in OddLines
  BY <1>1, ElementOfSeq
<1>3. Window(all) = SubSeq(all, from, n)
  BY DEF Window
<1>4. Window(all) \in Seq(OddLines) /\ Len(Window(all)) = n - from + 1
  <2>. HIDE DEF from, n
  <2>. QED  BY <1>1, <1>2, <1>3, SubSeqProperties
<1>5. Len(Window(all)) \in 1 .. Len(Window(all))
  <2>. HIDE DEF from, n
  <2>. QED  BY <1>1, <1>4
<1>. QED  BY <1>4, <1>5, ElementOfSeq DEF Last

(* The larger of a number and at most one other.                           *)
LEMMA MaxWithOne ==
  ASSUME NEW a \in Nat, NEW T \in SUBSET Nat, \A x, y \in T : x = y
  PROVE  /\ Max({a} \cup T) \in {a} \cup T
         /\ \A x \in {a} \cup T : Max({a} \cup T) >= x
<1>1. \E x \in {a} \cup T : \A y \in {a} \cup T : x >= y
  <2>1. CASE \A x \in T : x <= a
    BY <2>1
  <2>2. CASE \E x \in T : x > a
    BY <2>2
  <2>. QED  BY <2>1, <2>2
<1>. QED  BY <1>1 DEF Max

(* The list has one entry for each shape it shows.                         *)
LEMMA ListOnePerShape ==
  ASSUME UnknownTyped, RowsKept
  PROVE  list_unknown_lines \in SUBSET PaneRows /\ OnePerShape(list_unknown_lines)
<1>1. \A h \in OddShapes : Surfaced(unknownLines[h]) =>
        /\ unknownLines[h] \in RowType
        /\ Last(unknownLines[h].samples) \in OddLines
  <2>. SUFFICES ASSUME NEW h \in OddShapes, unknownLines[h].count > 0
       PROVE unknownLines[h] \in RowType /\ Last(unknownLines[h].samples) \in OddLines
    BY DEF Surfaced
  <2>1. unknownLines[h] \in RowType
    BY DEF UnknownTyped, NoRow
  <2>2. captures[h] \in Seq(OddLines) /\ Len(captures[h]) > 0
    BY DEF UnknownTyped, RowsKept
  <2>. QED  BY <2>1, <2>2, WindowLast DEF RowsKept
<1>2. \A h \in OddShapes : Surfaced(unknownLines[h]) =>
        /\ decode_unknown_line(h, unknownLines[h]) \in PaneRows
        /\ decode_unknown_line(h, unknownLines[h]).shape = h
  BY <1>1 DEF decode_unknown_line, PaneRows, RowType
<1>3. \A p \in list_unknown_lines : \E h \in OddShapes :
        Surfaced(unknownLines[h]) /\ p = decode_unknown_line(h, unknownLines[h])
  BY DEF list_unknown_lines
<1>. QED  BY <1>2, <1>3 DEF OnePerShape, Surfaced

(* count_unknown_lines agrees with the list.                               *)
LEMMA ListCounted ==
  ASSUME UnknownTyped, RowsKept
  PROVE  count_unknown_lines = Cardinality(list_unknown_lines)
<1>. DEFINE S == {h \in OddShapes : Surfaced(unknownLines[h])}
            T == list_unknown_lines
            f == [h \in S |-> decode_unknown_line(h, unknownLines[h])]
<1>1. IsFiniteSet(S)
  <2>1. S \in SUBSET {h \in OddShapes : unknownLines[h].count > 0}
    BY DEF Surfaced
  <2>. QED  BY <2>1, FS_Subset DEF RowsKept
<1>2. \A h \in S : f[h] \in T /\ f[h].shape = h
  BY DEF list_unknown_lines, decode_unknown_line
<1>3. \A p \in T : \E h \in S : p = f[h]
  BY DEF list_unknown_lines
<1>4. f \in Bijection(S, T)
  <2>1. f \in [S -> T]
    BY <1>2
  <2>2. \A g, h \in S : f[g] = f[h] => g = h
    BY <1>2
  <2>. HIDE DEF f, S, T
  <2>. QED  BY <1>3, <2>1, <2>2 DEF Bijection, Injection, Surjection, IsInjective
<1>. QED  BY <1>1, <1>4, FS_Bijection DEF ExistsBijection, count_unknown_lines
-----------------------------------------------------------------------------
LEMMA SubmitCases ==
  ASSUME UnknownTyped, NEW c \in SubmitCalls
  PROVE  /\ Busy(c) => submits[c] \in SubmitType \ {NoSubmit}
         /\ ~Busy(c) => submits[c] = NoSubmit
         /\ Busy(c) => submits[c].at \in {"anon", "post", "write"} /\ submits[c].batch \in SUBSET Payloads
         /\ submits[c].at \in {"post", "write"} => submits[c].anon \in AnonIds
         /\ submits[c].at = "write" => submits[c].left \in SUBSET Payloads
BY DEF UnknownTyped, SubmitType, Busy, NoSubmit

LEMMA UnknownInitially ==
  ASSUME UnknownInit
  PROVE  UnknownInv
<1>1. UnknownTyped
  <2>1. \A h \in OddShapes : captures[h] \in Seq(OddLines)
    BY EmptySeq DEF UnknownInit
  <2>. QED  BY <2>1 DEF UnknownInit, UnknownTyped, SubmitType, NotLanded, NoWriter
<1>2. RowsKept
  <2>1. {h \in OddShapes : unknownLines[h].count > 0} = {}
    BY DEF UnknownInit, NoRow
  <2>. QED  BY <2>1, FS_EmptySet, EmptySeq DEF UnknownInit, RowsKept, NoRow
<1>3. BatchesKept /\ BatchesRedacted
  BY DEF UnknownInit, BatchesKept, BatchesRedacted, OnePerShape, Busy, NoSubmit
<1>4. IdsCounted
  <2>1. AwaitAnon = {}
    BY DEF UnknownInit, AwaitAnon, NoSubmit
  <2>. QED  BY <2>1, FS_EmptySet, UnknownBounds DEF UnknownInit, IdsCounted, Busy, NoSubmit, NoWriter
<1>5. OneInstall /\ StampsLanded
  BY DEF UnknownInit, OneInstall, KeptId, StampsLanded, Busy, NoSubmit, NoRow, NotLanded
<1>. QED  BY <1>1, <1>2, <1>3, <1>4, <1>5 DEF UnknownInv

LEMMA CaptureStep ==
  ASSUME UnknownInv, NEW l \in OddLines, NEW ctx \in Contexts, cache_unknown_line(l, ctx)
  PROVE  UnknownInv'
<1>. DEFINE g == l.shape  old == unknownLines[g]  new == unknownLines'[g]
<1>1. g \in OddShapes
  BY DEF OddShapes
<1>2. /\ UNCHANGED <<pane, anonId, anonIssued, otherWriter, submits, started, landed, refusedShapes, stamped, idLost>>
      /\ captures' = [captures EXCEPT ![g] = Append(@, l)]
      /\ \A h \in OddShapes \ {g} : unknownLines'[h] = unknownLines[h]
      /\ DOMAIN unknownLines' = OddShapes
      /\ new = IF old.count = 0 THEN capture(l, ctx)
               ELSE [old EXCEPT !.count = old.count + 1,
                       !.samples = IF Len(Append(old.samples, l)) > RawCap
                                     THEN Tail(Append(old.samples, l)) ELSE Append(old.samples, l)]
  <2>1. unknownLines = [h \in OddShapes |-> unknownLines[h]]
    BY DEF UnknownInv, UnknownTyped
  <2>2. unknownLines' = [unknownLines EXCEPT ![g] =
          IF old.count = 0 THEN capture(l, ctx)
          ELSE [old EXCEPT !.count = old.count + 1,
                  !.samples = IF Len(Append(old.samples, l)) > RawCap
                                THEN Tail(Append(old.samples, l)) ELSE Append(old.samples, l)]]
    BY DEF cache_unknown_line, CaptureAgain
  <2>3. UNCHANGED <<pane, anonId, anonIssued, otherWriter, submits, started, landed, refusedShapes, stamped, idLost>>
        /\ captures' = [captures EXCEPT ![g] = Append(@, l)]
    BY DEF cache_unknown_line
  <2>. HIDE DEF g, old
  <2>. QED  BY <1>1, <2>1, <2>2, <2>3
<1>3. captures[g] \in Seq(OddLines) /\ captures' \in [OddShapes -> Seq(OddLines)]
  BY <1>1, <1>2 DEF UnknownInv, UnknownTyped
<1>4. Len(captures[g]) \in Nat /\ old.count = Len(captures[g]) /\ captures'[g] = Append(captures[g], l)
      /\ Len(captures'[g]) = old.count + 1
      /\ \A h \in OddShapes \ {g} : captures'[h] = captures[h]
  BY <1>1, <1>2, <1>3 DEF UnknownInv, UnknownTyped, RowsKept
<1>5. /\ new \in RowType /\ new.count = old.count + 1 /\ new.samples = Window(captures'[g])
      /\ old.count > 0 => new.dismissed = old.dismissed /\ new.submitted = old.submitted
      /\ old.count = 0 => ~new.submitted
  <2>1. CASE old.count = 0
    <3>1. interest_score(l, ctx) \in Int
      BY DEF interest_score
    <3>2. new = [count |-> 1, samples |-> <<l>>, score |-> interest_score(l, ctx),
                 pii |-> detect_pii(l), dismissed |-> FALSE, submitted |-> FALSE]
      BY <1>2, <2>1 DEF capture
    <3>3. detect_pii(l) \in Findings
      BY DEF Findings
    <3>4. <<l>> \in Seq(OddLines)
      OBVIOUS
    <3>5. Window(captures'[g]) = <<l>>
      BY <1>3, <1>4, <2>1, WindowFirst
    <3>. HIDE DEF new, old, g
    <3>. QED  BY <3>1, <3>2, <3>3, <3>4, <3>5, <2>1 DEF RowType
  <2>2. CASE old.count # 0
    <3>1. old \in RowType
      BY <1>1, <2>2 DEF UnknownInv, UnknownTyped, NoRow
    <3>2. old.samples = Window(captures[g])
      BY <1>1, <1>4, <2>2 DEF UnknownInv, RowsKept
    <3>. DEFINE w == IF Len(Append(old.samples, l)) > RawCap
                       THEN Tail(Append(old.samples, l)) ELSE Append(old.samples, l)
    <3>3. w = Window(captures'[g])
      BY <1>3, <1>4, <3>2, WindowAppend
    <3>4. w \in Seq(OddLines)
      <4>1. old.samples \in Seq(OddLines)
        BY <3>1 DEF RowType
      <4>2. Append(old.samples, l) \in Seq(OddLines) /\ Append(old.samples, l) # <<>>
        BY <4>1
      <4>. QED  BY <4>2, HeadTailProperties
    <3>5. new = [old EXCEPT !.count = old.count + 1, !.samples = w]
      BY <1>2, <2>2
    <3>. HIDE DEF new, old, g, w
    <3>6. /\ new.count = old.count + 1 /\ new.samples = w /\ new.score = old.score
          /\ new.pii = old.pii /\ new.dismissed = old.dismissed /\ new.submitted = old.submitted
          /\ new = [count |-> new.count, samples |-> new.samples, score |-> new.score,
                    pii |-> new.pii, dismissed |-> new.dismissed, submitted |-> new.submitted]
      BY <3>1, <3>5 DEF RowType
    <3>7. new \in RowType
      BY <3>1, <3>4, <3>6 DEF RowType
    <3>. QED  BY <3>3, <3>6, <3>7, <2>2
  <2>. QED  BY <2>1, <2>2
<1>. HIDE DEF new
<1>6. /\ \A h \in OddShapes \ {g} : unknownLines'[h] = unknownLines[h]
      /\ unknownLines'[g] \in RowType /\ unknownLines'[g].count > 0
      /\ unknownLines[g].count > 0 =>
           /\ unknownLines'[g].dismissed = unknownLines[g].dismissed
           /\ unknownLines'[g].submitted = unknownLines[g].submitted
      /\ ~(unknownLines[g].count > 0) => ~unknownLines'[g].submitted
  <2>1. new.count > 0 /\ (~(old.count > 0) => old.count = 0)
    BY <1>4, <1>5
  <2>. QED  BY <1>2, <1>5, <2>1 DEF new
<1>. HIDE DEF old, g
<1>7. UnknownTyped'
  <2>1. unknownLines' \in [OddShapes -> {NoRow} \cup RowType]
    <3>1. \A h \in OddShapes : unknownLines'[h] \in {NoRow} \cup RowType
      BY <1>6 DEF UnknownInv, UnknownTyped
    <3>2. unknownLines' = [h \in OddShapes |-> unknownLines'[h]]
      BY DEF cache_unknown_line, UnknownInv, UnknownTyped
    <3>. QED  BY <3>1, <3>2
  <2>. QED  BY <2>1, <1>2, <1>3 DEF UnknownInv, UnknownTyped
<1>8. RowsKept'
  <2>1. \A h \in OddShapes : unknownLines'[h].count = Len(captures'[h])
    BY <1>4, <1>5, <1>6 DEF UnknownInv, RowsKept, new, old
  <2>2. \A h \in OddShapes : unknownLines'[h].count > 0 => unknownLines'[h].samples = Window(captures'[h])
    BY <1>4, <1>5, <1>6 DEF UnknownInv, RowsKept, new, old
  <2>3. {h \in OddShapes : unknownLines'[h].count > 0} = {h \in OddShapes : unknownLines[h].count > 0} \cup {g}
    BY <1>1, <1>6
  <2>4. IsFiniteSet({h \in OddShapes : unknownLines'[h].count > 0})
    BY <2>3, FS_AddElement DEF UnknownInv, RowsKept
  <2>5. \A h \in refusedShapes' : unknownLines'[h].count > 0 /\ unknownLines'[h].dismissed
    BY <1>1, <1>2, <1>6 DEF UnknownInv, RowsKept, UnknownTyped
  <2>. QED  BY <2>1, <2>2, <2>4, <2>5 DEF RowsKept
<1>9. BatchesKept'
  <2>1. ASSUME NEW S, OnePerShape(S), \A p \in S : p.shape \in OddShapes
        PROVE  OnePerShape(S)'
    <3>1. \A h \in OddShapes : unknownLines[h].count > 0 => unknownLines'[h].count > 0
      BY <1>6
    <3>. QED  BY <2>1, <3>1 DEF OnePerShape
  <2>2. OnePerShape(pane)'
    <3>1. OnePerShape(pane) /\ \A p \in pane : p.shape \in OddShapes
      BY DEF UnknownInv, UnknownTyped, BatchesKept, PaneRows
    <3>. QED  BY <1>2, <2>1, <3>1 DEF OnePerShape
  <2>3. ASSUME NEW c \in SubmitCalls, Busy(c)'
        PROVE  OnePerShape(submits[c].batch)'
    <3>1. submits' = submits /\ Busy(c)
      BY <1>2, <2>3 DEF Busy
    <3>2. OnePerShape(submits[c].batch) /\ submits[c].batch \in SUBSET Payloads
      BY <3>1, SubmitCases DEF UnknownInv, BatchesKept
    <3>3. \A p \in submits[c].batch : p.shape \in OddShapes
      BY <3>2 DEF Payloads
    <3>. QED  BY <2>1, <3>1, <3>2, <3>3 DEF OnePerShape
  <2>. QED  BY <2>2, <2>3 DEF BatchesKept
<1>10. IdsCounted' /\ OneInstall' /\ BatchesRedacted'
  <2>1. AwaitAnon' = AwaitAnon
    BY <1>2 DEF AwaitAnon
  <2>. QED  BY <1>2, <2>1 DEF UnknownInv, IdsCounted, OneInstall, KeptId, BatchesRedacted, Busy
<1>11. StampsLanded'
  BY <1>1, <1>2, <1>6 DEF UnknownInv, StampsLanded
<1>. QED  BY <1>7, <1>8, <1>9, <1>10, <1>11 DEF UnknownInv

(* A step that leaves the rows and what is captured alone keeps what is    *)
(* said of them.                                                           *)
LEMMA RowsUntouched ==
  ASSUME RowsKept, UNCHANGED <<unknownLines, captures, refusedShapes>>
  PROVE  RowsKept'
BY DEF RowsKept

LEMMA RefreshStep ==
  ASSUME UnknownInv, Refresh
  PROVE  UnknownInv'
<1>1. /\ pane' = list_unknown_lines
      /\ UNCHANGED <<unknownLines, anonId, anonIssued, otherWriter, submits, started, landed,
                     captures, refusedShapes, stamped, idLost>>
  BY DEF Refresh, uHistory
<1>2. pane' \in SUBSET PaneRows /\ OnePerShape(pane')
  BY <1>1, ListOnePerShape DEF UnknownInv
<1>3. UnknownTyped'
  BY <1>1, <1>2 DEF UnknownInv, UnknownTyped
<1>4. BatchesKept'
  BY <1>1, <1>2 DEF UnknownInv, BatchesKept, OnePerShape, Busy
<1>5. AwaitAnon' = AwaitAnon
  BY <1>1 DEF AwaitAnon
<1>. QED  BY <1>1, <1>3, <1>4, <1>5, RowsUntouched
          DEF UnknownInv, IdsCounted, OneInstall, KeptId, StampsLanded, BatchesRedacted, Busy

LEMMA DismissStep ==
  ASSUME UnknownInv, NEW h \in OddShapes, dismiss_unknown_line(h)
  PROVE  UnknownInv'
<1>1. /\ unknownLines[h].count > 0 /\ unknownLines[h] \in RowType
      /\ unknownLines' = [unknownLines EXCEPT ![h].dismissed = TRUE]
      /\ refusedShapes' = refusedShapes \cup {h}
      /\ UNCHANGED <<pane, anonId, anonIssued, otherWriter, submits, started, landed, captures, stamped, idLost>>
  BY DEF dismiss_unknown_line, UnknownInv, BatchesKept, OnePerShape, UnknownTyped, NoRow
<1>2. /\ unknownLines' \in [OddShapes -> {NoRow} \cup RowType]
      /\ unknownLines'[h].dismissed
      /\ \A g \in OddShapes : /\ unknownLines'[g].count = unknownLines[g].count
                              /\ g # h => unknownLines'[g] = unknownLines[g]
      /\ unknownLines'[h].samples = unknownLines[h].samples
      /\ unknownLines'[h].submitted = unknownLines[h].submitted
  BY <1>1 DEF RowType, UnknownInv, UnknownTyped
<1>3. UnknownTyped'
  BY <1>1, <1>2 DEF UnknownInv, UnknownTyped
<1>4. RowsKept'
  <2>1. {g \in OddShapes : unknownLines'[g].count > 0} = {g \in OddShapes : unknownLines[g].count > 0}
    BY <1>2
  <2>2. \A g \in OddShapes : /\ unknownLines'[g].samples = unknownLines[g].samples
                             /\ unknownLines[g].dismissed => unknownLines'[g].dismissed
    BY <1>2
  <2>3. \A g \in refusedShapes' : unknownLines'[g].count > 0 /\ unknownLines'[g].dismissed
    <3>. SUFFICES ASSUME NEW g \in refusedShapes'
         PROVE unknownLines'[g].count > 0 /\ unknownLines'[g].dismissed
      OBVIOUS
    <3>1. CASE g = h
      BY <1>1, <1>2, <3>1
    <3>2. CASE g # h
      BY <1>1, <1>2, <3>2 DEF UnknownInv, RowsKept, UnknownTyped
    <3>. QED  BY <3>1, <3>2
  <2>4. IsFiniteSet({g \in OddShapes : unknownLines'[g].count > 0})
    BY <2>1 DEF UnknownInv, RowsKept
  <2>5. \A g \in OddShapes : /\ unknownLines'[g].count = Len(captures'[g])
                             /\ unknownLines'[g].count > 0 => unknownLines'[g].samples = Window(captures'[g])
    BY <1>1, <1>2, <2>2 DEF UnknownInv, RowsKept
  <2>. QED  BY <2>3, <2>4, <2>5 DEF RowsKept
<1>5. BatchesKept'
  BY <1>1, <1>2, SubmitCases DEF UnknownInv, UnknownTyped, BatchesKept, OnePerShape, Busy, PaneRows, Payloads
<1>6. AwaitAnon' = AwaitAnon
  BY <1>1 DEF AwaitAnon
<1>7. StampsLanded'
  BY <1>1, <1>2 DEF UnknownInv, StampsLanded
<1>. QED  BY <1>1, <1>3, <1>4, <1>5, <1>6, <1>7 DEF UnknownInv, IdsCounted, OneInstall, KeptId, BatchesRedacted, Busy
-----------------------------------------------------------------------------
(* A payload of the pane, with the default redactions, shows none of the   *)
(* tokens that are to be hidden.                                           *)
DefaultsOf(row) == {t \in row.pii : t.default_redact}

LEMMA PayloadRedacted ==
  ASSUME NEW row \in PaneRows, NEW chosen, chosen = DefaultsOf(row)
  PROVE  /\ Payload(row, chosen) \in Payloads
         /\ Payload(row, chosen).shape = row.shape
         /\ Redacted(Payload(row, chosen))
<1>. DEFINE shown == applyRedactions(row, chosen)
            p == Payload(row, chosen)
<1>1. /\ p = [shape |-> row.shape, count |-> row.count, shown |-> shown,
              huge |-> "huge" \in row.raw_line.has, found |-> row.pii = detect_pii(row.raw_line)]
      /\ row.shape \in OddShapes /\ row.count \in Nat \ {0} /\ row.raw_line \in OddLines
  BY DEF Payload, PaneRows
<1>2. shown \subseteq Marks
  BY <1>1 DEF applyRedactions, Marks
<1>3. row.pii = detect_pii(row.raw_line) => \A m \in shown : m.kind \notin {"own", "shard"}
  <2>. SUFFICES ASSUME row.pii = detect_pii(row.raw_line), NEW m \in shown, m.kind \in {"own", "shard"}
       PROVE FALSE
    OBVIOUS
  <2>1. m \in row.raw_line.marks /\ \A t \in chosen : t.at # m.at
    BY DEF applyRedactions
  <2>. DEFINE t == [kind |-> m.kind, at |-> m.at, default_redact |-> m.kind \in {"own", "shard"}]
  <2>2. t \in row.pii
    BY <2>1 DEF detect_pii
  <2>3. t.default_redact /\ t.at = m.at
    OBVIOUS
  <2>. QED  BY <2>1, <2>2, <2>3 DEF DefaultsOf
<1>. HIDE DEF shown, p
<1>4. p \in Payloads
  BY <1>1, <1>2 DEF Payloads
<1>5. p.found => \A m \in p.shown : m.kind \notin {"own", "shard"}
  BY <1>1, <1>3
<1>. QED  BY <1>1, <1>4, <1>5 DEF p, Redacted

(* What a step of one submission does to the others' part of the           *)
(* invariant: nothing.                                                     *)
LEMMA SubmitTyped ==
  ASSUME UnknownTyped, NEW c \in SubmitCalls, NEW s \in SubmitType,
         submits' = [submits EXCEPT ![c] = s]
  PROVE  /\ submits' \in [SubmitCalls -> SubmitType] /\ submits'[c] = s
         /\ \A d \in SubmitCalls \ {c} : submits'[d] = submits[d]
BY DEF UnknownTyped

(* The submissions about to ask for an id, when one starts or moves on.    *)
LEMMA AwaitAnonStep ==
  ASSUME UnknownInv, NEW c \in SubmitCalls, submits'[c].at # submits[c].at,
         \A d \in SubmitCalls \ {c} : submits'[d] = submits[d]
  PROVE  /\ IsFiniteSet(AwaitAnon') /\ Cardinality(AwaitAnon) \in Nat
         /\ Cardinality(AwaitAnon') =
              IF submits'[c].at = "anon" THEN Cardinality(AwaitAnon) + 1
              ELSE IF submits[c].at = "anon" THEN Cardinality(AwaitAnon) - 1
              ELSE Cardinality(AwaitAnon)
         /\ submits[c].at = "anon" => Cardinality(AwaitAnon) > 0
<1>1. IsFiniteSet(AwaitAnon)
  BY DEF UnknownInv, IdsCounted
<1>2. Cardinality(AwaitAnon) \in Nat
  BY <1>1, FS_CardinalityType
<1>3. CASE submits'[c].at = "anon"
  <2>1. AwaitAnon' = AwaitAnon \cup {c} /\ c \notin AwaitAnon /\ submits[c].at # "anon"
    BY <1>3 DEF AwaitAnon
  <2>2. IsFiniteSet(AwaitAnon \cup {c}) /\ Cardinality(AwaitAnon \cup {c}) = Cardinality(AwaitAnon) + 1
    BY <1>1, <2>1, FS_AddElement
  <2>. QED  BY <1>2, <1>3, <2>1, <2>2
<1>4. CASE submits'[c].at # "anon"
  <2>1. AwaitAnon' = AwaitAnon \ {c} /\ (c \in AwaitAnon <=> submits[c].at = "anon")
    BY <1>4 DEF AwaitAnon
  <2>2. /\ IsFiniteSet(AwaitAnon \ {c})
        /\ Cardinality(AwaitAnon \ {c}) =
             IF c \in AwaitAnon THEN Cardinality(AwaitAnon) - 1 ELSE Cardinality(AwaitAnon)
    BY <1>1, FS_RemoveElement
  <2>3. c \in AwaitAnon => Cardinality(AwaitAnon) # 0
    BY <1>1, FS_EmptySet
  <2>. QED  BY <1>2, <1>4, <2>1, <2>2, <2>3
<1>. QED  BY <1>3, <1>4

LEMMA SubmitStartStep ==
  ASSUME UnknownInv, NEW c \in SubmitCalls, SubmitStart(c)
  PROVE  UnknownInv'
<1>1. PICK chosen \in (SUBSET pane) \ {{}} :
        submits' = [submits EXCEPT ![c] =
          [at |-> "anon", anon |-> anonId,
           batch |-> {Payload(row, DefaultsOf(row)) : row \in chosen}]]
  BY DEF SubmitStart, DefaultsOf
<1>. DEFINE sentBatch == {Payload(row, DefaultsOf(row)) : row \in chosen}
            s == [at |-> "anon", batch |-> sentBatch, anon |-> anonId]
<1>2. /\ submits[c].at = "idle" /\ started < MaxSubmits /\ started' = started + 1
      /\ UNCHANGED <<unknownLines, pane, anonId, anonIssued, otherWriter, landed, captures,
                     refusedShapes, stamped, idLost>>
  BY DEF SubmitStart, uHistory
<1>3. chosen \subseteq pane /\ chosen \in SUBSET PaneRows
  BY DEF UnknownInv, UnknownTyped
<1>4. /\ sentBatch \in SUBSET Payloads
      /\ \A p \in sentBatch : Redacted(p)
      /\ \A p \in sentBatch : \E row \in chosen : p.shape = row.shape
    BY <1>3, PayloadRedacted
<1>5. OnePerShape(sentBatch)
  <2>1. \A p \in sentBatch : \E row \in chosen :
          p = Payload(row, DefaultsOf(row)) /\ p.shape = row.shape
    BY <1>3, PayloadRedacted
  <2>2. OnePerShape(pane)
    BY DEF UnknownInv, BatchesKept
  <2>. HIDE DEF sentBatch
  <2>. QED  BY <1>3, <2>1, <2>2 DEF OnePerShape
<1>. HIDE DEF sentBatch
<1>6. s \in SubmitType
  BY <1>4 DEF SubmitType, UnknownInv, IdsCounted
<1>7. submits' = [submits EXCEPT ![c] = s]
  BY <1>1 DEF sentBatch
<1>. HIDE DEF s
<1>8. /\ submits' \in [SubmitCalls -> SubmitType] /\ submits'[c] = s
      /\ \A d \in SubmitCalls \ {c} : submits'[d] = submits[d]
  BY <1>6, <1>7, SubmitTyped DEF UnknownInv
<1>9. s.at = "anon" /\ s.batch = sentBatch /\ s.anon = anonId
  BY DEF s
<1>10. UnknownTyped'
  BY <1>2, <1>8 DEF UnknownInv, UnknownTyped
<1>11. BatchesKept' /\ BatchesRedacted'
  <2>1. OnePerShape(pane)' /\ OnePerShape(sentBatch)'
    BY <1>2, <1>5 DEF UnknownInv, BatchesKept, OnePerShape
  <2>2. \A d \in SubmitCalls \ {c} : Busy(d)' => OnePerShape(submits[d].batch)'
    BY <1>2, <1>8 DEF UnknownInv, BatchesKept, OnePerShape, Busy
  <2>. QED  BY <1>2, <1>4, <1>8, <1>9, <2>1, <2>2 DEF UnknownInv, BatchesKept, BatchesRedacted, Busy
<1>12. IdsCounted'
  <2>1. IsFiniteSet(AwaitAnon') /\ Cardinality(AwaitAnon) \in Nat
        /\ Cardinality(AwaitAnon') = Cardinality(AwaitAnon) + 1
    BY <1>2, <1>8, <1>9, AwaitAnonStep
  <2>2. \A d \in SubmitCalls : Busy(d)' => submits'[d].anon \in 0 .. anonIssued
    BY <1>8, <1>9 DEF UnknownInv, IdsCounted, Busy
  <2>. QED  BY <1>2, <2>1, <2>2, UnknownBounds DEF UnknownInv, IdsCounted
<1>13. OneInstall'
  BY <1>2, <1>8, <1>9 DEF UnknownInv, OneInstall, KeptId, Busy
<1>14. StampsLanded'
  BY <1>2, <1>8, <1>9 DEF UnknownInv, StampsLanded
<1>. QED  BY <1>2, <1>10, <1>11, <1>12, <1>13, <1>14, RowsUntouched DEF UnknownInv

(* While there is no id, nobody has one and nothing has been sent.         *)
LEMMA NoIdYet ==
  ASSUME UnknownInv, ~idLost, KeptId = 0
  PROVE  /\ \A h \in OddShapes, i \in AnonIds : ~(landed[<<h, i>>].total > 0)
         /\ \A d \in SubmitCalls : Busy(d) => submits[d].at = "anon" /\ submits[d].anon = 0
<1>1. \A i \in AnonIds : i # 0
  BY UnknownBounds DEF AnonIds
<1>2. OneInstall /\ UnknownTyped
  BY DEF UnknownInv
<1>3. \A h \in OddShapes, i \in AnonIds : landed[<<h, i>>].total > 0 => i = 0
  BY Zenon, <1>2 DEF OneInstall
<1>4. \A d \in SubmitCalls : Busy(d) => submits[d].anon = 0
  BY Zenon, <1>2 DEF OneInstall
<1>5. \A d \in SubmitCalls : Busy(d) => submits[d].at = "anon" \/ submits[d].anon \in AnonIds
  BY <1>2, SubmitCases
<1>6. \A d \in SubmitCalls : Busy(d) => submits[d].at = "anon"
  BY Zenon, <1>1, <1>4, <1>5
<1>. QED  BY Zenon, <1>1, <1>3, <1>4, <1>6

(* A submission that has its id, or mints one.                             *)
LEMMA AnonIdStep ==
  ASSUME UnknownInv, NEW c \in SubmitCalls, get_or_create_client_anon_id(c),
         submits'[c] # NoSubmit
  PROVE  UnknownInv'
<1>. DEFINE old == submits[c]  a == submits'[c].anon
            s == [at |-> "post", batch |-> old.batch, anon |-> a]
<1>1. /\ old.at = "anon"
      /\ UNCHANGED <<unknownLines, pane, otherWriter, started, landed, captures, refusedShapes, stamped>>
  BY DEF get_or_create_client_anon_id
<1>2. old \in [at : {"anon"}, batch : SUBSET Payloads, anon : Nat]
  BY <1>1 DEF UnknownInv, UnknownTyped, SubmitType, NoSubmit
<1>3. /\ submits' = [submits EXCEPT ![c] = s]
      /\ \/ a = old.anon /\ a # 0 /\ UNCHANGED <<anonId, anonIssued, idLost>>
         \/ /\ old.anon = 0 /\ a = anonIssued + 1 /\ anonIssued' = a /\ anonId' = a
            /\ idLost' = (idLost \/ KeptId # 0)
  <2>1. CASE old.anon # 0
    <3>1. submits' = [submits EXCEPT ![c] = [old EXCEPT !.at = "post"]]
          /\ UNCHANGED <<anonId, anonIssued, idLost>>
      BY <1>1, <2>1 DEF get_or_create_client_anon_id
    <3>2. [old EXCEPT !.at = "post"] = [at |-> "post", batch |-> old.batch, anon |-> old.anon]
      BY <1>2
    <3>3. a = old.anon
      BY <3>1, <3>2 DEF UnknownInv, UnknownTyped
    <3>. QED  BY <2>1, <3>1, <3>2, <3>3
  <2>2. CASE old.anon = 0
    <3>0. submits' = [submits EXCEPT ![c] = NoSubmit] => submits'[c] = NoSubmit
      BY DEF UnknownInv, UnknownTyped
    <3>1. /\ submits' = [submits EXCEPT ![c].at = "post", ![c].anon = anonIssued']
          /\ anonIssued' = anonIssued + 1 /\ anonId' = anonIssued'
          /\ idLost' = (idLost \/ KeptId # 0)
      BY <2>2, <3>0 DEF get_or_create_client_anon_id
    <3>2. /\ submits'[c] = [at |-> "post", batch |-> old.batch, anon |-> anonIssued']
          /\ \A d \in SubmitCalls \ {c} : submits'[d] = submits[d]
          /\ submits' = [d \in SubmitCalls |-> submits'[d]]
      BY <1>2, <3>1 DEF UnknownInv, UnknownTyped
    <3>3. a = anonIssued'
      BY <3>2
    <3>4. submits' = [submits EXCEPT ![c] = s]
      BY <3>2, <3>3 DEF UnknownInv, UnknownTyped
    <3>. QED  BY <2>2, <3>1, <3>3, <3>4
  <2>. QED  BY <2>1, <2>2
<1>. HIDE DEF a
<1>4. IsFiniteSet(AwaitAnon) /\ Cardinality(AwaitAnon) \in Nat \ {0}
      /\ anonIssued + Cardinality(AwaitAnon) <= started /\ started <= MaxSubmits
      /\ anonIssued \in Nat /\ started \in Nat /\ MaxSubmits \in Nat
  <2>1. c \in AwaitAnon /\ IsFiniteSet(AwaitAnon)
    BY <1>1 DEF AwaitAnon, UnknownInv, IdsCounted
  <2>. QED  BY <2>1, FS_EmptySet, FS_CardinalityType, UnknownBounds DEF UnknownInv, IdsCounted
<1>5. a \in 1 .. anonIssued' /\ a \in AnonIds /\ anonIssued' \in Nat /\ anonIssued' <= anonIssued + 1
      /\ anonIssued <= anonIssued' /\ anonId' \in 0 .. anonIssued' /\ otherWriter'.anon \in 0 .. anonIssued'
  BY <1>1, <1>3, <1>4 DEF UnknownInv, IdsCounted, Busy, AnonIds
<1>6. s \in SubmitType
  BY <1>2, <1>5 DEF SubmitType
<1>. HIDE DEF s
<1>7. /\ submits' \in [SubmitCalls -> SubmitType] /\ submits'[c] = s
      /\ \A d \in SubmitCalls \ {c} : submits'[d] = submits[d]
  BY <1>3, <1>6, SubmitTyped DEF UnknownInv
<1>8. s.at = "post" /\ s.batch = old.batch /\ s.anon = a
  BY DEF s
<1>9. UnknownTyped'
  <2>1. idLost' \in BOOLEAN
    BY <1>3 DEF UnknownInv, UnknownTyped
  <2>. QED  BY <1>1, <1>7, <2>1 DEF UnknownInv, UnknownTyped
<1>10. BatchesKept' /\ BatchesRedacted'
  BY <1>1, <1>7, <1>8 DEF UnknownInv, BatchesKept, OnePerShape, BatchesRedacted, Busy
<1>11. IdsCounted'
  <2>1. IsFiniteSet(AwaitAnon') /\ Cardinality(AwaitAnon') = Cardinality(AwaitAnon) - 1
    BY <1>1, <1>7, <1>8, AwaitAnonStep
  <2>2. \A d \in SubmitCalls : Busy(d)' => submits'[d].anon \in 0 .. anonIssued'
    BY <1>4, <1>5, <1>7, <1>8 DEF UnknownInv, IdsCounted, Busy
  <2>. QED  BY <1>1, <1>4, <1>5, <2>1, <2>2 DEF UnknownInv, IdsCounted
<1>12. OneInstall'
  <2>. SUFFICES ASSUME ~idLost'
       PROVE  /\ \A h \in OddShapes, i \in AnonIds : landed[<<h, i>>].total > 0 => i = KeptId'
              /\ \A d \in SubmitCalls : Busy(d)' =>
                   submits'[d].anon = KeptId' \/ (submits'[d].at = "anon" /\ submits'[d].anon = 0)
    BY <1>1 DEF OneInstall
  <2>1. CASE a = old.anon /\ a # 0 /\ UNCHANGED <<anonId, anonIssued, idLost>>
    <3>1. KeptId' = KeptId /\ ~idLost
      BY <1>1, <2>1 DEF KeptId
    <3>2. a = KeptId
      BY <1>1, <2>1, <3>1 DEF UnknownInv, OneInstall, Busy
    <3>. QED  BY <1>1, <1>7, <1>8, <2>1, <3>1, <3>2 DEF UnknownInv, OneInstall, Busy
  <2>2. CASE /\ old.anon = 0 /\ a = anonIssued + 1 /\ anonIssued' = a /\ anonId' = a
             /\ idLost' = (idLost \/ KeptId # 0)
    <3>1. KeptId' = a
      BY <1>4, <2>2 DEF KeptId
    <3>2. ~idLost /\ KeptId = 0
      BY <2>2 DEF UnknownInv, UnknownTyped
    <3>3. /\ \A h \in OddShapes, i \in AnonIds : ~(landed[<<h, i>>].total > 0)
          /\ \A d \in SubmitCalls : Busy(d) => submits[d].at = "anon" /\ submits[d].anon = 0
      BY <3>2, NoIdYet
    <3>. QED  BY <1>7, <1>8, <3>1, <3>3 DEF Busy
  <2>. QED  BY <1>3, <2>1, <2>2
<1>13. StampsLanded'
  BY <1>1, <1>7, <1>8 DEF UnknownInv, StampsLanded
<1>. QED  BY <1>1, <1>9, <1>10, <1>11, <1>12, <1>13, RowsUntouched DEF UnknownInv

(* The save of the new id fails.                                           *)
LEMMA AnonFailsStep ==
  ASSUME UnknownInv, NEW c \in SubmitCalls, get_or_create_client_anon_id(c),
         submits'[c] = NoSubmit
  PROVE  UnknownInv'
<1>1. submits[c].at = "anon"
  BY DEF get_or_create_client_anon_id
<1>2. /\ submits' = [submits EXCEPT ![c] = NoSubmit]
      /\ anonId' \in {anonId, 0} /\ idLost' = (idLost \/ anonId' # anonId)
      /\ UNCHANGED <<unknownLines, pane, anonIssued, otherWriter, started, landed, captures,
                     refusedShapes, stamped>>
  <2>1. submits[c] \in [at : {"anon"}, batch : SUBSET Payloads, anon : Nat]
    BY <1>1 DEF UnknownInv, UnknownTyped, SubmitType, NoSubmit
  <2>2. \A s : submits' = [submits EXCEPT ![c] = s] => submits'[c] = s
    BY DEF UnknownInv, UnknownTyped
  <2>3. ASSUME submits' = [submits EXCEPT ![c].at = "post", ![c].anon = anonIssued']
        PROVE  submits'[c] = [at |-> "post", batch |-> submits[c].batch, anon |-> anonIssued']
    BY <2>1, <2>3 DEF UnknownInv, UnknownTyped
  <2>4. submits' = [submits EXCEPT ![c].at = "post"] => submits'[c].at = "post"
    BY <2>1 DEF UnknownInv, UnknownTyped
  <2>5. submits' # [submits EXCEPT ![c].at = "post", ![c].anon = anonIssued']
    BY <2>3 DEF NoSubmit
  <2>. QED  BY <2>4, <2>5 DEF get_or_create_client_anon_id, NoSubmit
<1>3. /\ submits' \in [SubmitCalls -> SubmitType] /\ submits'[c] = NoSubmit
      /\ \A d \in SubmitCalls \ {c} : submits'[d] = submits[d]
  BY <1>2, SubmitTyped DEF UnknownInv, SubmitType
<1>4. UnknownTyped'
  BY <1>2, <1>3 DEF UnknownInv, UnknownTyped
<1>5. IdsCounted'
  <2>1. /\ IsFiniteSet(AwaitAnon') /\ Cardinality(AwaitAnon) \in Nat
        /\ Cardinality(AwaitAnon') = Cardinality(AwaitAnon) - 1
    BY <1>1, <1>3, AwaitAnonStep DEF NoSubmit
  <2>2. \A d \in SubmitCalls : Busy(d)' => submits'[d].anon \in 0 .. anonIssued
    BY <1>3 DEF UnknownInv, IdsCounted, Busy, NoSubmit
  <2>. QED  BY <1>2, <2>1, <2>2, UnknownBounds DEF UnknownInv, IdsCounted
<1>6. ~idLost' => ~idLost /\ KeptId' = KeptId
  BY <1>2 DEF KeptId, UnknownInv, UnknownTyped
<1>7. OneInstall'
  BY <1>2, <1>3, <1>6 DEF UnknownInv, OneInstall, Busy, NoSubmit
<1>8. BatchesKept' /\ StampsLanded' /\ BatchesRedacted'
  BY <1>2, <1>3 DEF UnknownInv, BatchesKept, OnePerShape, StampsLanded, BatchesRedacted, Busy, NoSubmit
<1>. QED  BY <1>2, <1>4, <1>5, <1>7, <1>8, RowsUntouched DEF UnknownInv

(* Another writer of the file takes a step: the id is as before, or there  *)
(* was none, or it is lost.                                                *)
LEMMA OtherWriterStep ==
  ASSUME UnknownInv, WriterLoads \/ WriterTruncates \/ WriterSaves
  PROVE  UnknownInv'
<1>1. UNCHANGED <<unknownLines, pane, anonIssued, submits, started, landed, captures, refusedShapes, stamped>>
  BY DEF WriterLoads, WriterTruncates, WriterSaves, uHistory
<1>2. otherWriter \in [at : {"idle", "loaded", "writing"}, anon : 0 .. anonIssued] /\ idLost \in BOOLEAN
      /\ anonId \in 0 .. anonIssued /\ anonIssued \in Nat
  BY DEF UnknownInv, IdsCounted, UnknownTyped
<1>3. /\ otherWriter' \in [at : {"idle", "loaded", "writing"}, anon : 0 .. anonIssued]
      /\ idLost' \in BOOLEAN /\ anonId' \in 0 .. anonIssued
      /\ ~idLost' => ~idLost /\ (KeptId' = KeptId \/ KeptId = 0)
  <2>1. CASE WriterLoads
    BY <1>2, <2>1 DEF WriterLoads, uHistory, KeptId
  <2>2. CASE WriterTruncates
    <3>1. otherWriter.at = "loaded" /\ otherWriter'.at = "writing" /\ otherWriter'.anon = otherWriter.anon
          /\ otherWriter' \in [at : {"idle", "loaded", "writing"}, anon : 0 .. anonIssued]
      BY <1>2, <2>2 DEF WriterTruncates
    <3>2. anonId' = 0 /\ (idLost' <=> idLost \/ (anonId # 0 /\ anonId # otherWriter.anon))
      BY <1>2, <2>2 DEF WriterTruncates
    <3>3. idLost' \in BOOLEAN
      BY <1>2, <2>2 DEF WriterTruncates
    <3>. QED  BY <1>2, <3>1, <3>2, <3>3 DEF KeptId
  <2>3. CASE WriterSaves
    <3>1. otherWriter.at = "writing" /\ otherWriter'.at = "idle"
          /\ otherWriter' \in [at : {"idle", "loaded", "writing"}, anon : 0 .. anonIssued]
      BY <1>2, <2>3 DEF WriterSaves, NoWriter
    <3>2. /\ anonId' = otherWriter.anon \/ anonId' = 0
          /\ idLost' <=> idLost \/ (KeptId # 0 /\ KeptId # anonId')
      BY <1>2, <2>3 DEF WriterSaves
    <3>3. idLost' \in BOOLEAN
      BY <1>2, <2>3 DEF WriterSaves
    <3>4. KeptId' = anonId'
      BY <3>1 DEF KeptId
    <3>. QED  BY <1>2, <3>1, <3>2, <3>3, <3>4
  <2>. QED  BY <2>1, <2>2, <2>3
<1>4. UnknownTyped'
  BY <1>1, <1>3 DEF UnknownInv, UnknownTyped
<1>5. IdsCounted'
  <2>1. AwaitAnon' = AwaitAnon
    BY <1>1 DEF AwaitAnon
  <2>. QED  BY <1>1, <1>3, <2>1 DEF UnknownInv, IdsCounted, Busy
<1>6. OneInstall'
  <2>1. CASE KeptId' = KeptId
    BY <1>1, <1>3, <2>1 DEF UnknownInv, OneInstall, Busy
  <2>2. CASE KeptId = 0
    <3>. SUFFICES ASSUME ~idLost'
         PROVE  OneInstall'
      BY DEF OneInstall
    <3>1. /\ \A h \in OddShapes, i \in AnonIds : ~(landed[<<h, i>>].total > 0)
          /\ \A d \in SubmitCalls : Busy(d) => submits[d].at = "anon" /\ submits[d].anon = 0
      BY <1>3, <2>2, NoIdYet
    <3>. QED  BY <1>1, <3>1 DEF OneInstall, Busy
  <2>3. CASE idLost'
    BY <2>3 DEF OneInstall
  <2>. QED  BY <1>3, <2>1, <2>2, <2>3
<1>7. BatchesKept' /\ StampsLanded' /\ BatchesRedacted'
  BY <1>1 DEF UnknownInv, BatchesKept, OnePerShape, StampsLanded, BatchesRedacted, Busy
<1>. QED  BY <1>1, <1>4, <1>5, <1>6, <1>7, RowsUntouched DEF UnknownInv

(* A submission that ends, without having stamped anything.                *)
LEMMA SubmitGone ==
  ASSUME UnknownInv, NEW c \in SubmitCalls, submits' = [submits EXCEPT ![c] = NoSubmit],
         submits[c].at \in {"post", "write"},
         UNCHANGED <<unknownLines, pane, anonId, anonIssued, otherWriter, started, landed, captures,
                     refusedShapes, stamped, idLost>>
  PROVE  UnknownInv'
<1>1. /\ submits' \in [SubmitCalls -> SubmitType] /\ submits'[c] = NoSubmit
      /\ \A d \in SubmitCalls \ {c} : submits'[d] = submits[d]
  BY SubmitTyped DEF UnknownInv, SubmitType
<1>2. UnknownTyped'
  BY <1>1 DEF UnknownInv, UnknownTyped
<1>3. AwaitAnon' = AwaitAnon
  BY <1>1 DEF AwaitAnon, NoSubmit
<1>4. \A d \in SubmitCalls : Busy(d)' => d # c /\ Busy(d) /\ submits'[d] = submits[d]
  BY <1>1 DEF Busy, NoSubmit
<1>5. BatchesKept' /\ BatchesRedacted'
  BY <1>4 DEF UnknownInv, BatchesKept, OnePerShape, BatchesRedacted
<1>6. IdsCounted'
  BY <1>3, <1>4 DEF UnknownInv, IdsCounted
<1>7. OneInstall'
  BY <1>4 DEF UnknownInv, OneInstall, KeptId
<1>8. StampsLanded'
  BY <1>1 DEF UnknownInv, StampsLanded, NoSubmit
<1>. QED  BY <1>2, <1>5, <1>6, <1>7, <1>8, RowsUntouched DEF UnknownInv

LEMMA PostStep ==
  ASSUME UnknownInv, NEW c \in SubmitCalls, Post(c)
  PROVE  UnknownInv'
<1>. DEFINE old == submits[c]
            s == [at |-> "write", batch |-> old.batch, anon |-> old.anon, left |-> old.batch]
<1>1. /\ old.at = "post"
      /\ UNCHANGED <<unknownLines, pane, anonId, anonIssued, otherWriter, started, landed, captures,
                     refusedShapes, stamped, idLost>>
  BY DEF Post, uHistory
<1>2. CASE submits' = [submits EXCEPT ![c] = NoSubmit]
  BY <1>1, <1>2, SubmitGone
<1>3. CASE submits' = [submits EXCEPT ![c] = s]
  <2>1. s \in SubmitType
    BY <1>1, SubmitCases DEF UnknownInv, SubmitType, Busy
  <2>. HIDE DEF s
  <2>2. /\ submits' \in [SubmitCalls -> SubmitType] /\ submits'[c] = s
        /\ \A d \in SubmitCalls \ {c} : submits'[d] = submits[d]
    BY <1>3, <2>1, SubmitTyped DEF UnknownInv
  <2>3. s.at = "write" /\ s.batch = old.batch /\ s.anon = old.anon /\ s.left = old.batch
    BY DEF s
  <2>4. UnknownTyped'
    BY <1>1, <2>2 DEF UnknownInv, UnknownTyped
  <2>5. AwaitAnon' = AwaitAnon
    BY <1>1, <2>2, <2>3 DEF AwaitAnon
  <2>6. BatchesKept' /\ IdsCounted' /\ OneInstall' /\ BatchesRedacted'
    BY <1>1, <2>2, <2>3, <2>5
       DEF UnknownInv, BatchesKept, OnePerShape, IdsCounted, OneInstall, KeptId, BatchesRedacted, Busy
  <2>7. StampsLanded'
    BY <1>1, <2>2, <2>3 DEF UnknownInv, StampsLanded
  <2>. QED  BY <1>1, <2>4, <2>6, <2>7, RowsUntouched DEF UnknownInv
<1>. QED  BY <1>2, <1>3 DEF Post

LEMMA UpsertStep ==
  ASSUME UnknownInv, NEW c \in SubmitCalls, Upsert(c)
  PROVE  UnknownInv'
<1>. DEFINE old == submits[c]
<1>1. /\ old.at = "write"
      /\ UNCHANGED <<unknownLines, pane, anonId, anonIssued, otherWriter, started, captures, refusedShapes,
                     stamped, idLost>>
  BY DEF Upsert, uHistory
<1>2. CASE submits' = [submits EXCEPT ![c] = NoSubmit] /\ UNCHANGED landed
  BY <1>1, <1>2, SubmitGone
<1>3. CASE \E p \in old.left :
             /\ landed' = [landed EXCEPT ![<<p.shape, old.anon>>] =
                  [total |-> @.total + p.count, shown |-> p.shown]]
             /\ submits' = [submits EXCEPT ![c].left = @ \ {p}]
  <2>1. PICK p \in old.left :
          /\ landed' = [landed EXCEPT ![<<p.shape, old.anon>>] =
               [total |-> landed[<<p.shape, old.anon>>].total + p.count, shown |-> p.shown]]
          /\ submits' = [submits EXCEPT ![c] = [old EXCEPT !.left = old.left \ {p}]]
    BY <1>3 DEF UnknownInv, UnknownTyped
  <2>. DEFINE k == <<p.shape, old.anon>>
              s == [at |-> "write", batch |-> old.batch, anon |-> old.anon, left |-> old.left \ {p}]
  <2>2. /\ old \in [at : {"write"}, batch : SUBSET Payloads, anon : AnonIds, left : SUBSET Payloads]
        /\ p \in Payloads /\ old.left \subseteq old.batch
    BY <1>1 DEF UnknownInv, UnknownTyped, SubmitType, NoSubmit, StampsLanded
  <2>3. p.shape \in OddShapes /\ p.count \in Nat \ {0} /\ p.shown \in SUBSET Marks /\ old.anon \in AnonIds
    BY <2>2 DEF Payloads
  <2>4. s \in SubmitType
    BY <2>2 DEF SubmitType
  <2>5. submits' = [submits EXCEPT ![c] = s]
    <3>1. [old EXCEPT !.left = old.left \ {p}] = s
      BY <2>2
    <3>. HIDE DEF s, old
    <3>. QED  BY <2>1, <3>1
  <2>. HIDE DEF s
  <2>6. /\ submits' \in [SubmitCalls -> SubmitType] /\ submits'[c] = s
        /\ \A d \in SubmitCalls \ {c} : submits'[d] = submits[d]
    BY <2>4, <2>5, SubmitTyped DEF UnknownInv
  <2>7. s.at = "write" /\ s.batch = old.batch /\ s.anon = old.anon /\ s.left = old.left \ {p}
    BY DEF s
  <2>8. /\ landed' \in [OddShapes \X AnonIds -> [total : Nat, shown : SUBSET Marks]]
        /\ landed'[k].total = landed[k].total + p.count
        /\ \A i \in OddShapes \X AnonIds : i # k => landed'[i] = landed[i]
    <3>1. k \in OddShapes \X AnonIds /\ landed[k].total \in Nat
      BY <2>3 DEF UnknownInv, UnknownTyped
    <3>. HIDE DEF k
    <3>2. landed' = [landed EXCEPT ![k] = [total |-> landed[k].total + p.count, shown |-> p.shown]]
      BY <2>1 DEF k
    <3>3. [total |-> landed[k].total + p.count, shown |-> p.shown] \in [total : Nat, shown : SUBSET Marks]
      BY <2>3, <3>1
    <3>. QED  BY <3>1, <3>2, <3>3 DEF UnknownInv, UnknownTyped
  <2>9. /\ \A h \in OddShapes, a \in AnonIds :
             /\ landed[<<h, a>>].total \in Nat /\ landed'[<<h, a>>].total \in Nat
             /\ landed'[<<h, a>>].total >= landed[<<h, a>>].total
             /\ <<h, a>> # k => landed'[<<h, a>>] = landed[<<h, a>>]
        /\ landed'[k].total >= p.count
    <3>1. k \in OddShapes \X AnonIds
      BY <2>3
    <3>. HIDE DEF k
    <3>2. \A i \in OddShapes \X AnonIds : landed[i].total \in Nat /\ landed'[i].total \in Nat
      BY <2>8 DEF UnknownInv, UnknownTyped
    <3>3. \A i \in OddShapes \X AnonIds : landed'[i].total >= landed[i].total
      BY <2>3, <2>8, <3>1, <3>2
    <3>4. landed'[k].total >= p.count
      BY <2>3, <2>8, <3>1, <3>2
    <3>. QED  BY <2>8, <3>2, <3>3, <3>4
  <2>10. UnknownTyped'
    BY <1>1, <2>6, <2>8 DEF UnknownInv, UnknownTyped
  <2>11. AwaitAnon' = AwaitAnon
    BY <1>1, <2>6, <2>7 DEF AwaitAnon
  <2>12. BatchesKept' /\ IdsCounted' /\ BatchesRedacted'
    BY <1>1, <2>6, <2>7, <2>11
       DEF UnknownInv, BatchesKept, OnePerShape, IdsCounted, BatchesRedacted, Busy
  <2>13. OneInstall'
    <3>. SUFFICES ASSUME ~idLost  PROVE OneInstall'
      BY <1>1 DEF OneInstall, KeptId
    <3>1. old.anon = KeptId
      BY <1>1 DEF UnknownInv, OneInstall, KeptId, Busy
    <3>2. \A h \in OddShapes, a \in AnonIds : landed'[<<h, a>>].total > 0 => a = KeptId
      BY <2>9, <3>1 DEF UnknownInv, OneInstall, KeptId
    <3>. QED  BY <1>1, <2>6, <2>7, <3>1, <3>2 DEF UnknownInv, OneInstall, KeptId, Busy
  <2>14. StampsLanded'
    <3>1. \A h \in OddShapes : stamped[h] > 0 => \E a \in AnonIds : landed'[<<h, a>>].total >= stamped[h]
      <4>. SUFFICES ASSUME NEW h \in OddShapes, stamped[h] > 0
           PROVE \E a \in AnonIds : landed'[<<h, a>>].total >= stamped[h]
        OBVIOUS
      <4>1. PICK a \in AnonIds : landed[<<h, a>>].total >= stamped[h]
        BY DEF UnknownInv, StampsLanded
      <4>2. stamped[h] \in Nat
        BY DEF UnknownInv, UnknownTyped
      <4>3. landed'[<<h, a>>].total >= stamped[h]
        BY <2>9, <4>1, <4>2
      <4>. QED  BY <4>3
    <3>2. \A d \in SubmitCalls : submits'[d].at = "write" => submits'[d].left \subseteq submits'[d].batch
      BY <1>1, <2>6, <2>7 DEF UnknownInv, StampsLanded
    <3>3. \A d \in SubmitCalls \ {c} : submits[d].at = "write" =>
            \A q \in submits[d].batch \ submits[d].left : landed'[<<q.shape, submits[d].anon>>].total >= q.count
      <4>. SUFFICES ASSUME NEW d \in SubmitCalls, submits[d].at = "write",
                           NEW q \in submits[d].batch \ submits[d].left
           PROVE landed'[<<q.shape, submits[d].anon>>].total >= q.count
        OBVIOUS
      <4>1. q \in Payloads /\ submits[d].anon \in AnonIds
        BY SubmitCases DEF UnknownInv, Busy
      <4>2. landed[<<q.shape, submits[d].anon>>].total >= q.count
        BY DEF UnknownInv, StampsLanded
      <4>. QED  BY <2>9, <4>1, <4>2 DEF Payloads
    <3>4. \A q \in s.batch \ s.left : landed'[<<q.shape, s.anon>>].total >= q.count
      <4>. SUFFICES ASSUME NEW q \in old.batch \ (old.left \ {p})
           PROVE landed'[<<q.shape, old.anon>>].total >= q.count
        BY <2>7
      <4>1. CASE q = p
        BY <2>9, <4>1
      <4>2. CASE q \notin old.left
        <5>1. q \in Payloads
          BY <2>2
        <5>2. landed[<<q.shape, old.anon>>].total >= q.count
          BY <1>1, <4>2 DEF UnknownInv, StampsLanded
        <5>. QED  BY <2>3, <2>9, <5>1, <5>2 DEF Payloads
      <4>. QED  BY <4>1, <4>2
    <3>5. \A d \in SubmitCalls : submits'[d].at = "write" =>
            \A q \in submits'[d].batch \ submits'[d].left :
              landed'[<<q.shape, submits'[d].anon>>].total >= q.count
      BY <2>6, <3>3, <3>4
    <3>. QED  BY <1>1, <3>1, <3>2, <3>5 DEF UnknownInv, StampsLanded
  <2>. QED  BY <1>1, <2>10, <2>12, <2>13, <2>14, RowsUntouched DEF UnknownInv
<1>. QED  BY <1>2, <1>3 DEF Upsert

LEMMA AnsweredStep ==
  ASSUME UnknownInv, NEW c \in SubmitCalls, SubmitAnswered(c)
  PROVE  UnknownInv'
<1>. DEFINE old == submits[c]
<1>1. /\ old.at = "write" /\ old.left = {} /\ submits' = [submits EXCEPT ![c] = NoSubmit]
      /\ UNCHANGED <<pane, anonId, anonIssued, otherWriter, started, landed, captures, refusedShapes, idLost>>
  BY DEF SubmitAnswered
<1>2. PICK marked \in SUBSET old.batch :
        /\ unknownLines' = mark_submitted(unknownLines, {p.shape : p \in marked})
        /\ stamped' = [h \in OddShapes |->
             Max({stamped[h]} \cup {p.count : p \in {q \in marked : q.shape = h}})]
  BY DEF SubmitAnswered
<1>3. /\ old.batch \in SUBSET Payloads /\ OnePerShape(old.batch) /\ old.anon \in AnonIds
      /\ \A p \in old.batch : landed[<<p.shape, old.anon>>].total >= p.count
  BY <1>1, SubmitCases DEF UnknownInv, BatchesKept, StampsLanded, Busy
<1>. DEFINE T(h) == {p.count : p \in {q \in marked : q.shape = h}}
<1>4. \A h \in OddShapes :
        /\ stamped'[h] \in {stamped[h]} \cup T(h) /\ stamped'[h] >= stamped[h]
        /\ \A n \in T(h) : stamped'[h] >= n
        /\ T(h) \in SUBSET (Nat \ {0}) /\ stamped[h] \in Nat /\ stamped'[h] \in Nat
  <2>. SUFFICES ASSUME NEW h \in OddShapes
       PROVE /\ stamped'[h] \in {stamped[h]} \cup T(h) /\ stamped'[h] >= stamped[h]
             /\ \A n \in T(h) : stamped'[h] >= n
             /\ T(h) \in SUBSET (Nat \ {0}) /\ stamped[h] \in Nat /\ stamped'[h] \in Nat
    OBVIOUS
  <2>1. stamped[h] \in Nat
    BY DEF UnknownInv, UnknownTyped
  <2>2. T(h) \in SUBSET (Nat \ {0})
    BY <1>3 DEF Payloads
  <2>3. \A x, y \in T(h) : x = y
    BY <1>3 DEF OnePerShape
  <2>4. stamped'[h] = Max({stamped[h]} \cup T(h))
    BY <1>2
  <2>. HIDE DEF T
  <2>. QED  BY <2>1, <2>2, <2>3, <2>4, MaxWithOne
<1>5. \A h \in OddShapes : \A n \in T(h) : landed[<<h, old.anon>>].total >= n
  BY <1>3
<1>6. /\ unknownLines' \in [OddShapes -> {NoRow} \cup RowType]
      /\ \A h \in OddShapes :
           /\ unknownLines'[h].count = unknownLines[h].count
           /\ unknownLines[h].count > 0 =>
                /\ unknownLines'[h].samples = unknownLines[h].samples
                /\ unknownLines'[h].dismissed = unknownLines[h].dismissed
                /\ unknownLines'[h].submitted => unknownLines[h].submitted \/ T(h) # {}
  <2>. SUFFICES ASSUME NEW h \in OddShapes
       PROVE  /\ unknownLines'[h] \in {NoRow} \cup RowType
              /\ unknownLines'[h].count = unknownLines[h].count
              /\ unknownLines[h].count > 0 =>
                   /\ unknownLines'[h].samples = unknownLines[h].samples
                   /\ unknownLines'[h].dismissed = unknownLines[h].dismissed
                   /\ unknownLines'[h].submitted => unknownLines[h].submitted \/ T(h) # {}
    BY <1>2 DEF mark_submitted
  <2>1. CASE h \notin {p.shape : p \in marked}
    BY <1>2, <2>1 DEF mark_submitted, UnknownInv, UnknownTyped
  <2>2. CASE h \in {p.shape : p \in marked}
    <3>1. unknownLines'[h] = [unknownLines[h] EXCEPT !.submitted = TRUE] /\ T(h) # {}
      BY <1>2, <2>2 DEF mark_submitted
    <3>2. unknownLines[h] \in RowType
      BY <1>3, <2>2 DEF UnknownInv, UnknownTyped, OnePerShape, NoRow
    <3>. QED  BY <3>1, <3>2 DEF RowType
  <2>. QED  BY <2>1, <2>2
<1>. HIDE DEF T
<1>7. /\ submits' \in [SubmitCalls -> SubmitType] /\ submits'[c] = NoSubmit
      /\ \A d \in SubmitCalls \ {c} : submits'[d] = submits[d]
  BY <1>1, SubmitTyped DEF UnknownInv, SubmitType
<1>8. UnknownTyped'
  <2>1. stamped' \in [OddShapes -> Nat]
    BY <1>2, <1>4
  <2>. QED  BY <1>1, <1>6, <1>7, <2>1 DEF UnknownInv, UnknownTyped
<1>9. RowsKept'
  <2>1. {h \in OddShapes : unknownLines'[h].count > 0} = {h \in OddShapes : unknownLines[h].count > 0}
    BY <1>6
  <2>2. IsFiniteSet({h \in OddShapes : unknownLines'[h].count > 0})
    BY <2>1 DEF UnknownInv, RowsKept
  <2>3. \A h \in OddShapes : /\ unknownLines'[h].count = Len(captures'[h])
                             /\ unknownLines'[h].count > 0 => unknownLines'[h].samples = Window(captures'[h])
    BY <1>1, <1>6 DEF UnknownInv, RowsKept
  <2>4. \A h \in refusedShapes' : unknownLines'[h].count > 0 /\ unknownLines'[h].dismissed
    BY <1>1, <1>6 DEF UnknownInv, UnknownTyped, RowsKept
  <2>. QED  BY <2>2, <2>3, <2>4 DEF RowsKept
<1>10. BatchesKept' /\ BatchesRedacted'
  <2>1. OnePerShape(pane)'
    BY <1>1, <1>6 DEF UnknownInv, UnknownTyped, BatchesKept, OnePerShape, PaneRows
  <2>2. \A d \in SubmitCalls : Busy(d)' => OnePerShape(submits[d].batch)'
    BY <1>1, <1>6, <1>7, SubmitCases DEF UnknownInv, BatchesKept, OnePerShape, Payloads, Busy, NoSubmit
  <2>. QED  BY <1>7, <2>1, <2>2 DEF UnknownInv, BatchesKept, BatchesRedacted, Busy, NoSubmit
<1>11. IdsCounted' /\ OneInstall'
  <2>1. AwaitAnon' = AwaitAnon
    BY <1>1, <1>7 DEF AwaitAnon, NoSubmit
  <2>. QED  BY <1>1, <1>7, <2>1 DEF UnknownInv, IdsCounted, OneInstall, KeptId, Busy, NoSubmit
<1>12. StampsLanded'
  <2>1. \A h \in OddShapes : stamped'[h] > 0 => \E a \in AnonIds : landed[<<h, a>>].total >= stamped'[h]
    BY <1>3, <1>4, <1>5 DEF UnknownInv, StampsLanded
  <2>2. \A h \in OddShapes :
          unknownLines'[h].count > 0 /\ unknownLines'[h].submitted => stamped'[h] > 0
    BY <1>4, <1>6 DEF UnknownInv, StampsLanded
  <2>. QED  BY <1>1, <1>7, <2>1, <2>2 DEF UnknownInv, StampsLanded, NoSubmit
<1>. QED  BY <1>8, <1>9, <1>10, <1>11, <1>12 DEF UnknownInv
-----------------------------------------------------------------------------
LEMMA UnknownInductive ==
  ASSUME UnknownInv, [UnknownNext]_unknownVars
  PROVE  UnknownInv'
<1>1. CASE \E l \in OddLines, ctx \in Contexts : cache_unknown_line(l, ctx)
  BY <1>1, CaptureStep
<1>2. CASE Refresh
  BY <1>2, RefreshStep
<1>3. CASE \E h \in OddShapes : dismiss_unknown_line(h)
  BY <1>3, DismissStep
<1>4. CASE \E c \in SubmitCalls : SubmitStep(c)
  BY <1>4, SubmitStartStep, AnonIdStep, AnonFailsStep, PostStep, UpsertStep, AnsweredStep DEF SubmitStep
<1>5. CASE WriterLoads \/ WriterTruncates \/ WriterSaves
  BY <1>5, OtherWriterStep
<1>6. CASE UNCHANGED unknownVars
  <2>1. AwaitAnon' = AwaitAnon
    BY <1>6 DEF unknownVars, AwaitAnon
  <2>2. UnknownTyped' /\ RowsKept'
    BY <1>6, RowsUntouched DEF unknownVars, UnknownInv, UnknownTyped
  <2>. QED  BY <1>6, <2>1, <2>2
            DEF unknownVars, UnknownInv, BatchesKept, OnePerShape, IdsCounted, OneInstall, KeptId,
                StampsLanded, BatchesRedacted, Busy
<1>. QED  BY <1>1, <1>2, <1>3, <1>4, <1>5, <1>6 DEF UnknownNext

LEMMA UnknownInvSuffices ==
  ASSUME UnknownInv
  PROVE  UnknownsKept
<1>1. \A h \in OddShapes :
        /\ unknownLines[h].count = Len(captures[h])
        /\ unknownLines[h].count > 0 =>
             /\ unknownLines[h].samples = Window(captures[h])
             /\ unknownLines[h].submitted => \E a \in AnonIds : landed[<<h, a>>].total >= stamped[h]
  BY DEF UnknownInv, RowsKept, StampsLanded
<1>2. count_unknown_lines = Cardinality(list_unknown_lines)
  BY ListCounted DEF UnknownInv
<1>3. \A r \in list_unknown_lines : r.shape \notin refusedShapes
  BY DEF list_unknown_lines, decode_unknown_line, Surfaced, UnknownInv, RowsKept
<1>4. \A c \in SubmitCalls : submits[c].at # "idle" => \A p \in submits[c].batch :
        p.found => \A m \in p.shown : m.kind \notin {"own", "shard"}
  BY DEF UnknownInv, BatchesRedacted, Redacted, Busy
<1>. QED  BY <1>1, <1>2, <1>3, <1>4 DEF UnknownsKept, Window, UnknownInv, OneInstall, KeptId

(* Whatever is captured, dismissed and submitted at the same time, and     *)
(* whatever answers get lost: every capture of a shape is counted and the  *)
(* freshest lines are its samples, a dismissed shape stays away, a stamp   *)
(* means that the server has what it says, an install is one submitter     *)
(* until its id is lost (two first submissions overlap, or another writer  *)
(* of config.toml saves an older copy, overlaps or fails), and the tokens  *)
(* found in a line are cut out of it.                                      *)
THEOREM UnknownsAlwaysKept == ClientSpec => []UnknownsKept
<1>1. ClientInit => UnknownInv
  BY UnknownInitially DEF ClientInit
<1>2. UnknownInv /\ [ClientNext]_clientVars => UnknownInv'
  <2>1. [ClientNext]_clientVars => [UnknownNext]_unknownVars
    BY DEF ClientNext, clientVars
  <2>. QED  BY <2>1, UnknownInductive
<1>. QED  BY <1>1, <1>2, UnknownInvSuffices, PTL DEF ClientSpec
-----------------------------------------------------------------------------
(* A bounded set of naturals has a greatest element.                       *)
LEMMA GreatestNat ==
  ASSUME NEW n \in Nat, NEW T \in SUBSET (0 .. n), T # {}
  PROVE  Max(T) \in T /\ \A x \in T : x <= Max(T)
<1>. DEFINE D == {n - x : x \in T}
<1>1. D \in SUBSET Nat /\ D # {}
  <2>1. \A x \in T : n - x \in Nat
    OBVIOUS
  <2>. QED  BY <2>1
<1>2. PICK d \in D : \A y \in D : d <= y
  BY <1>1, LeastNat
<1>3. PICK m \in T : d = n - m
  OBVIOUS
<1>4. \A x \in T : m >= x
  BY <1>2, <1>3
<1>. QED  BY <1>4 DEF Max
-----------------------------------------------------------------------------
(* Crashes: what a sweep found is there, and stored once it is behind the  *)
(* sweep; whoever finds nothing has found nothing before.                  *)
CrashTyped ==
  /\ crashDirs \subseteq CrashPlaces /\ IsFiniteSet(crashDirs)
  /\ crashEvents \in Seq(CrashPlaces)
  /\ sweep \in [at : {"sleep", "ingest"}, todo : Seq(crashDirs), found : Seq(crashDirs), failed : BOOLEAN]

SweepKnows ==
  /\ \A j, k \in DOMAIN crashEvents : crashEvents[j] = crashEvents[k] => j = k
  /\ \A p \in sweptAll : Contains(crashEvents, p)
  /\ sweep.at = "ingest" =>
       /\ \A i \in DOMAIN sweep.found :
            sweep.failed \/ Contains(sweep.todo, sweep.found[i]) \/ Contains(crashEvents, sweep.found[i])
       /\ sweep.found = <<>> => crashStats.last = NoCrash
  /\ crashStats.last # NoCrash => crashStats.last \in crashDirs /\ crashStats.seen > 0

CrashInv == CrashTyped /\ SweepKnows

(* discover finds directories that are there, and some if there are any.   *)
LEMMA DiscoverFinds ==
  ASSUME CrashTyped, NEW logs \in discover
  PROVE  logs \in Seq(crashDirs) /\ (crashDirs # {} => logs # <<>>)
<1>. DEFINE In(c) == {p \in crashDirs : p[1] = c}
<1>1. \A c \in {1, 2} : IsFiniteSet(In(c)) /\ Cardinality(In(c)) \in Nat
                         /\ (In(c) # {} => Cardinality(In(c)) > 0)
  <2>. SUFFICES ASSUME NEW c \in {1, 2}
       PROVE  IsFiniteSet(In(c)) /\ Cardinality(In(c)) \in Nat /\ (In(c) # {} => Cardinality(In(c)) > 0)
    OBVIOUS
  <2>1. IsFiniteSet(In(c))
    BY FS_Subset DEF CrashTyped
  <2>. HIDE DEF In
  <2>. QED  BY <2>1, FS_CardinalityType, FS_EmptySet
<1>2. PICK s \in collect_channel(1), t \in collect_channel(2) : logs = s \o t
  BY DEF discover
<1>3. /\ s \in [1 .. Cardinality(In(1)) -> In(1)]
      /\ t \in [1 .. Cardinality(In(2)) -> In(2)]
  BY <1>2 DEF collect_channel, SetToSeqs
<1>4. /\ s \in Seq(crashDirs) /\ Len(s) = Cardinality(In(1))
      /\ t \in Seq(crashDirs) /\ Len(t) = Cardinality(In(2))
  <2>1. In(1) \subseteq crashDirs /\ In(2) \subseteq crashDirs
    OBVIOUS
  <2>. HIDE DEF In
  <2>. QED  BY <1>1, <1>3, <2>1
<1>5. logs \in Seq(crashDirs) /\ Len(logs) = Len(s) + Len(t)
  BY <1>2, <1>4, ConcatProperties
<1>6. crashDirs # {} => In(1) # {} \/ In(2) # {}
  BY DEF CrashTyped, CrashPlaces, Channels
<1>7. crashDirs # {} => Len(logs) > 0
  <2>. HIDE DEF In
  <2>. QED  BY <1>1, <1>4, <1>5, <1>6
<1>. QED  BY <1>5, <1>7, EmptySeq

LEMMA CrashInductive ==
  ASSUME CrashInv, [CrashNext]_crashVars
  PROVE  CrashInv'
<1>1. CASE SweepBegins
  <2>1. PICK logs \in discover :
          sweep' = [at |-> "ingest", todo |-> logs, found |-> logs, failed |-> FALSE]
    BY <1>1 DEF SweepBegins
  <2>2. logs \in Seq(crashDirs) /\ (crashDirs # {} => logs # <<>>)
    BY DiscoverFinds DEF CrashInv
  <2>3. UNCHANGED <<crashDirs, crashEvents, crashStats, sweeps, sweptAll>>
    BY <1>1 DEF SweepBegins
  <2>4. \A i \in DOMAIN logs : Contains(logs, logs[i])
    BY <2>2, LenProperties DEF Contains
  <2>5. logs = <<>> => crashStats.last = NoCrash
    BY <2>2 DEF CrashInv, SweepKnows
  <2>. QED  BY <2>1, <2>2, <2>3, <2>4, <2>5 DEF CrashInv, CrashTyped, SweepKnows
<1>2. CASE ingest_crash
  <2>. DEFINE p == Head(sweep.todo)
  <2>1. /\ sweep.at = "ingest" /\ sweep.todo # <<>> /\ sweep.todo \in Seq(crashDirs)
        /\ UNCHANGED <<crashDirs, crashStats, sweeps, sweptAll>>
    BY <1>2 DEF ingest_crash, CrashInv, CrashTyped
  <2>2. /\ p \in crashDirs /\ Tail(sweep.todo) \in Seq(crashDirs) /\ Len(sweep.todo) \in Nat \ {0}
        /\ p = sweep.todo[1] /\ Len(Tail(sweep.todo)) = Len(sweep.todo) - 1
        /\ \A i \in 1 .. Len(sweep.todo) - 1 : Tail(sweep.todo)[i] = sweep.todo[i + 1]
    BY <2>1, HeadTailProperties, EmptySeq
  <2>3. \A q : Contains(sweep.todo, q) => q = p \/ Contains(Tail(sweep.todo), q)
    <3>. SUFFICES ASSUME NEW q, NEW i \in 1 .. Len(sweep.todo), sweep.todo[i] = q, q # p
         PROVE Contains(Tail(sweep.todo), q)
      BY DEF Contains
    <3>1. i - 1 \in 1 .. Len(Tail(sweep.todo)) /\ Tail(sweep.todo)[i - 1] = q
      BY <2>2
    <3>. QED  BY <3>1 DEF Contains
  <2>. HIDE DEF p
  <2>4. CASE crashEvents' = InsertCrash(p) /\ sweep' = [sweep EXCEPT !.todo = Tail(@)]
    <3>1. crashEvents \in Seq(CrashPlaces) /\ p \in CrashPlaces /\ Len(crashEvents) \in Nat
          /\ DOMAIN crashEvents = 1 .. Len(crashEvents)
      BY <2>2, LenProperties DEF CrashInv, CrashTyped
    <3>2. /\ crashEvents' \in Seq(CrashPlaces) /\ Contains(crashEvents', p)
          /\ \A q : Contains(crashEvents, q) => Contains(crashEvents', q)
          /\ \A j, k \in DOMAIN crashEvents' : crashEvents'[j] = crashEvents'[k] => j = k
      <4>1. CASE Contains(crashEvents, p)
        BY <2>4, <3>1, <4>1 DEF InsertCrash, CrashInv, SweepKnows
      <4>2. CASE ~Contains(crashEvents, p)
        <5>1. /\ crashEvents' = Append(crashEvents, p) /\ crashEvents' \in Seq(CrashPlaces)
              /\ Len(crashEvents') = Len(crashEvents) + 1
              /\ crashEvents'[Len(crashEvents) + 1] = p
              /\ \A i \in 1 .. Len(crashEvents) : crashEvents'[i] = crashEvents[i]
              /\ DOMAIN crashEvents' = 1 .. Len(crashEvents) + 1
          BY <2>4, <3>1, <4>2 DEF InsertCrash
        <5>2. \A i \in 1 .. Len(crashEvents) : crashEvents[i] # p
          BY <4>2 DEF Contains
        <5>3. \A j, k \in 1 .. Len(crashEvents) : crashEvents[j] = crashEvents[k] => j = k
          BY <3>1 DEF CrashInv, SweepKnows
        <5>4. \A j, k \in DOMAIN crashEvents' : crashEvents'[j] = crashEvents'[k] => j = k
          BY <3>1, <5>1, <5>2, <5>3
        <5>5. Contains(crashEvents', p)
          BY <3>1, <5>1 DEF Contains
        <5>6. \A q : Contains(crashEvents, q) => Contains(crashEvents', q)
          BY <3>1, <5>1 DEF Contains
        <5>. QED  BY <5>1, <5>4, <5>5, <5>6
      <4>. QED  BY <4>1, <4>2
    <3>3. /\ sweep'.at = "ingest" /\ sweep'.todo = Tail(sweep.todo) /\ sweep'.found = sweep.found
          /\ sweep'.failed = sweep.failed
          /\ sweep' \in [at : {"sleep", "ingest"}, todo : Seq(crashDirs), found : Seq(crashDirs), failed : BOOLEAN]
      BY <2>1, <2>2, <2>4 DEF CrashInv, CrashTyped
    <3>4. CrashTyped'
      BY <2>1, <3>2, <3>3 DEF CrashInv, CrashTyped
    <3>5. \A i \in DOMAIN sweep.found :
            \/ sweep.failed \/ Contains(Tail(sweep.todo), sweep.found[i])
            \/ Contains(crashEvents', sweep.found[i])
      BY <2>1, <2>3, <3>2 DEF CrashInv, SweepKnows
    <3>. QED  BY <2>1, <3>2, <3>3, <3>4, <3>5 DEF CrashInv, SweepKnows
  <2>5. CASE sweep' = [sweep EXCEPT !.todo = Tail(@), !.failed = TRUE] /\ UNCHANGED crashEvents
    <3>1. /\ sweep'.found = sweep.found /\ sweep'.failed
          /\ sweep' \in [at : {"sleep", "ingest"}, todo : Seq(crashDirs), found : Seq(crashDirs), failed : BOOLEAN]
      BY <2>1, <2>2, <2>5 DEF CrashInv, CrashTyped
    <3>. QED  BY <2>1, <2>5, <3>1 DEF CrashInv, CrashTyped, SweepKnows
  <2>. QED  BY <1>2, <2>4, <2>5 DEF ingest_crash, p
<1>3. CASE SweepEnds
  <2>1. /\ sweep.at = "ingest" /\ sweep.todo = <<>> /\ sweep.found \in Seq(crashDirs)
        /\ sweep' = [sweep EXCEPT !.at = "sleep"] /\ UNCHANGED <<crashDirs, crashEvents>>
        /\ crashStats' = [seen |-> Len(sweep.found),
                          last |-> IF sweep.found = <<>> THEN crashStats.last ELSE sweep.found[1]]
        /\ sweptAll' = IF sweep.failed THEN sweptAll ELSE sweptAll \cup Range(sweep.found)
    BY <1>3 DEF SweepEnds, CrashInv, CrashTyped
  <2>2. CrashTyped'
    BY <2>1 DEF CrashInv, CrashTyped
  <2>3. \A p \in sweptAll' : Contains(crashEvents, p)
    <3>1. \A q : ~Contains(<<>>, q)
      BY DEF Contains
    <3>2. ~sweep.failed => \A p \in Range(sweep.found) : Contains(crashEvents, p)
      BY <2>1, <3>1 DEF CrashInv, SweepKnows, Range
    <3>. QED  BY <2>1, <3>2 DEF CrashInv, SweepKnows
  <2>4. crashStats'.last # NoCrash => crashStats'.last \in crashDirs /\ crashStats'.seen > 0
    <3>1. CASE sweep.found = <<>>
      BY <2>1, <3>1 DEF CrashInv, SweepKnows
    <3>2. CASE sweep.found # <<>>
      <4>1. Len(sweep.found) \in Nat \ {0} /\ sweep.found[1] \in crashDirs
        BY <2>1, <3>2, EmptySeq, ElementOfSeq
      <4>. QED  BY <2>1, <3>2, <4>1
    <3>. QED  BY <3>1, <3>2
  <2>5. sweep'.at = "sleep"
    BY <2>1 DEF CrashInv, CrashTyped
  <2>. QED  BY <2>1, <2>2, <2>3, <2>4, <2>5 DEF CrashInv, SweepKnows
<1>4. CASE SweepStops
  <2>1. /\ sweep' = [sweep EXCEPT !.at = "sleep", !.todo = <<>>]
        /\ crashStats' = [seen |-> 0, last |-> NoCrash]
        /\ UNCHANGED <<crashDirs, crashEvents, sweeps, sweptAll>>
    BY <1>4 DEF SweepStops
  <2>2. <<>> \in Seq(crashDirs)
    OBVIOUS
  <2>3. /\ sweep' \in [at : {"sleep", "ingest"}, todo : Seq(crashDirs), found : Seq(crashDirs), failed : BOOLEAN]
        /\ sweep'.at = "sleep"
    BY <2>1, <2>2 DEF CrashInv, CrashTyped
  <2>. QED  BY <2>1, <2>3 DEF CrashInv, CrashTyped, SweepKnows
<1>5. ASSUME NEW p \in CrashPlaces, CrashWritten(p)
      PROVE  CrashInv'
  <2>1. crashDirs' = crashDirs \cup {p} /\ UNCHANGED <<crashEvents, sweep, crashStats, sweeps, sweptAll>>
    BY <1>5 DEF CrashWritten
  <2>2. IsFiniteSet(crashDirs')
    BY <2>1, FS_AddElement DEF CrashInv, CrashTyped
  <2>3. \A s \in Seq(crashDirs) : s \in Seq(crashDirs')
    BY <2>1, SeqMonotonic
  <2>4. CrashTyped'
    BY <2>1, <2>2, <2>3 DEF CrashInv, CrashTyped
  <2>. QED  BY <2>1, <2>4 DEF CrashInv, SweepKnows
<1>6. CASE UNCHANGED crashVars
  BY <1>6 DEF crashVars, CrashInv, CrashTyped, SweepKnows
<1>. QED  BY <1>1, <1>2, <1>3, <1>4, <1>5, <1>6 DEF CrashNext

LEMMA CrashInitially ==
  ASSUME CrashInit
  PROVE  CrashInv
<1>1. <<>> \in Seq(crashDirs) /\ <<>> \in Seq(CrashPlaces)
  OBVIOUS
<1>. QED  BY <1>1, FS_EmptySet DEF CrashInit, CrashInv, CrashTyped, SweepKnows

LEMMA CrashInvSuffices ==
  ASSUME CrashInv
  PROVE  CrashOnce
BY DEF CrashInv, SweepKnows, CrashOnce
-----------------------------------------------------------------------------
(* The launcher's log: a line's number is new when it is written and never *)
(* again, so that a row's key says where its line is.                      *)
LauncherLines == [n : Nat \ {0}, text : LauncherTexts]
LauncherRows ==
  [key : Nat \X Nat, n : Nat, category : {classify_launcher_message(t) : t \in LauncherTexts}]

LauncherTyped ==
  /\ files \in Seq(Seq(LauncherLines)) /\ Newest \in 1 .. MaxDays
  /\ half \in BOOLEAN /\ (half => Len(files[Newest]) > 0)
  /\ written \in Nat /\ notified \in BOOLEAN /\ failedDrain \in BOOLEAN
  /\ tail \in [at : {"off", "wait", "open", "read", "save"}, file : Nat, offset : Nat]
  /\ tail.at # "off" => tail.file \in 1 .. Newest
  /\ cursors \in [1 .. MaxDays -> Nat]
  /\ launched \in Seq(LauncherRows)

LinesNumbered ==
  /\ \A d \in 1 .. Newest : \A k \in 1 .. Len(files[d]) : files[d][k].n <= written
  /\ \A d, e \in 1 .. Newest : \A k \in 1 .. Len(files[d]), i \in 1 .. Len(files[e]) :
       files[d][k].n = files[e][i].n => d = e /\ k = i

LauncherStoredOnce ==
  /\ \A j \in 1 .. Len(launched) : launched[j].key[2] = launched[j].n /\ launched[j].n <= written
  /\ \A j, k \in 1 .. Len(launched) : launched[j].n = launched[k].n => j = k
  /\ \A j \in 1 .. Len(launched) : \A d \in 1 .. Newest : \A k \in 1 .. Len(files[d]) :
       files[d][k].n = launched[j].n => launched[j].key[1] = k - 1

(* While no file was rewritten: neither a cursor nor the tail is past the  *)
(* finished lines, what is behind them is stored, and after a drain only a *)
(* report or an error leaves something to read.                            *)
Kept(d, k) ==
  parse_launcher_line(files[d][k].text) /\ files[d][k].n \notin lost =>
    \E j \in 1 .. Len(launched) : launched[j].n = files[d][k].n

CursorsKept ==
  Rewriting \notin lost =>
    /\ \A d \in 1 .. Newest : cursors[d] <= Whole(d) /\ \A k \in 1 .. cursors[d] : Kept(d, k)
    /\ \A d \in Newest + 1 .. MaxDays : cursors[d] = 0

TailKept ==
  Rewriting \notin lost /\ tail.at # "off" =>
    /\ tail.offset <= Whole(tail.file) /\ \A k \in 1 .. tail.offset : Kept(tail.file, k)
    /\ tail.at \in {"wait", "save"} /\ ~notified /\ ~failedDrain => tail.offset = Whole(tail.file)

LauncherInv == LauncherTyped /\ LinesNumbered /\ LauncherStoredOnce /\ CursorsKept /\ TailKept

LEMMA WholeBounds ==
  ASSUME LauncherTyped, NEW d \in 1 .. Newest
  PROVE  Len(files[d]) \in Nat /\ Whole(d) \in Nat /\ Whole(d) <= Len(files[d]) /\ Newest \in Nat
<1>1. files[d] \in Seq(LauncherLines) /\ Len(files[d]) \in Nat /\ Newest \in Nat /\ MaxDays \in Nat
  BY ElementOfSeq, LenProperties, LauncherBounds DEF LauncherTyped, Newest
<1>2. half /\ d = Newest => Len(files[d]) > 0
  BY DEF LauncherTyped
<1>3. CASE half /\ d = Newest
  <2>1. Whole(d) = Len(files[d]) - 1
    BY <1>3 DEF Whole
  <2>. QED  BY <1>1, <1>2, <1>3, <2>1
<1>4. CASE ~(half /\ d = Newest)
  <2>1. Whole(d) = Len(files[d]) - 0
    BY <1>4 DEF Whole
  <2>. QED  BY <1>1, <2>1
<1>. QED  BY <1>3, <1>4

LEMMA LauncherInitially ==
  ASSUME LauncherInit
  PROVE  LauncherInv
<1>1. /\ files = << <<>> >> /\ Len(files) = 1 /\ files[1] = <<>> /\ Len(files[1]) = 0
      /\ <<>> \in Seq(LauncherLines) /\ <<>> \in Seq(LauncherRows)
  BY DEF LauncherInit
<1>2. files \in Seq(Seq(LauncherLines)) /\ Newest = 1 /\ MaxDays \in Nat \ {0}
  BY <1>1, LauncherBounds DEF Newest
<1>3. LauncherTyped
  <2>1. tail \in [at : {"off", "wait", "open", "read", "save"}, file : Nat, offset : Nat] /\ tail.at = "off"
    BY DEF LauncherInit, TailOff
  <2>2. /\ Newest \in 1 .. MaxDays /\ written \in Nat /\ launched = <<>>
        /\ cursors \in [1 .. MaxDays -> Nat]
    BY <1>2 DEF LauncherInit
  <2>3. half = FALSE /\ notified = FALSE /\ failedDrain = FALSE
    BY Zenon DEF LauncherInit
  <2>. QED  BY <1>1, <1>2, <2>1, <2>2, <2>3 DEF LauncherTyped
<1>4. LinesNumbered /\ LauncherStoredOnce
  BY <1>1, <1>2 DEF LinesNumbered, LauncherStoredOnce, LauncherInit
<1>5. Whole(1) = 0
  BY <1>1, <1>2 DEF Whole, LauncherInit
<1>6. CursorsKept /\ TailKept
  BY <1>1, <1>2, <1>5 DEF LauncherInit, CursorsKept, TailKept, TailOff
<1>. QED  BY <1>3, <1>4, <1>6 DEF LauncherInv
-----------------------------------------------------------------------------
(* The tail moves on and touches neither the files nor the rows.           *)
LEMMA TailMoves ==
  ASSUME LauncherInv, UNCHANGED <<files, half, written, cursors, launched, lost>>,
         tail' \in [at : {"off", "wait", "open", "read", "save"}, file : Nat, offset : Nat],
         tail'.at # "off" => tail'.file \in 1 .. Newest,
         notified' \in BOOLEAN, failedDrain' \in BOOLEAN, TailKept'
  PROVE  LauncherInv'
<1>1. Newest' = Newest /\ \A d \in 1 .. Newest : Whole(d)' = Whole(d)
  BY DEF Newest, Whole
<1>2. LauncherTyped' /\ LinesNumbered' /\ LauncherStoredOnce'
  BY <1>1 DEF LauncherInv, LauncherTyped, LinesNumbered, LauncherStoredOnce
<1>3. CursorsKept'
  BY <1>1 DEF LauncherInv, CursorsKept, Kept
<1>. QED  BY <1>2, <1>3 DEF LauncherInv

LEMMA TailSteps ==
  ASSUME LauncherInv, start_tail \/ Woken \/ OpenFile \/ EndOfFile \/ DrainFails \/ TrayStops
  PROVE  LauncherInv'
<1>1. UNCHANGED <<files, half, written, cursors, launched, lost>>
  BY DEF start_tail, Woken, OpenFile, EndOfFile, DrainFails, TrayStops
<1>2. /\ Newest' = Newest /\ \A d : Whole(d)' = Whole(d)
      /\ \A d, k : Kept(d, k)' = Kept(d, k)
      /\ Newest \in 1 .. Newest
  BY <1>1, LauncherBounds DEF Newest, Whole, Kept, LauncherInv, LauncherTyped
<1>3. /\ tail \in [at : {"off", "wait", "open", "read", "save"}, file : Nat, offset : Nat]
      /\ tail.at # "off" => tail.file \in 1 .. Newest
      /\ notified \in BOOLEAN /\ failedDrain \in BOOLEAN
  BY DEF LauncherInv, LauncherTyped
<1>4. \A d \in 1 .. Newest : Whole(d) \in Nat /\ Whole(d) <= Len(files[d]) /\ Len(files[d]) \in Nat
  BY WholeBounds DEF LauncherInv
<1>5. CASE start_tail
  <2>1. /\ tail' = [at |-> "open", file |-> Newest, offset |-> cursors[Newest]]
        /\ notified' = FALSE /\ failedDrain' = FALSE
    BY <1>5 DEF start_tail
  <2>2. cursors[Newest] \in Nat /\ Newest \in Nat
    BY <1>2, LauncherBounds DEF LauncherInv, LauncherTyped
  <2>3. TailKept'
    BY <1>1, <1>2, <2>1 DEF LauncherInv, CursorsKept, TailKept
  <2>. QED  BY <1>1, <1>2, <2>1, <2>2, <2>3, TailMoves
<1>6. CASE Woken
  <2>1. /\ tail' = [tail EXCEPT !.at = "open"] /\ tail.at = "wait"
        /\ notified' = FALSE /\ failedDrain' = FALSE
    BY <1>6 DEF Woken
  <2>2. /\ tail' \in [at : {"off", "wait", "open", "read", "save"}, file : Nat, offset : Nat]
        /\ tail'.at = "open" /\ tail'.file = tail.file /\ tail'.offset = tail.offset
    BY <1>3, <2>1
  <2>3. TailKept'
    BY <1>1, <1>2, <2>1, <2>2 DEF LauncherInv, TailKept
  <2>. QED  BY <1>1, <1>3, <2>1, <2>2, <2>3, TailMoves
<1>7. CASE OpenFile
  <2>1. /\ tail' = [tail EXCEPT !.at = "read",
                     !.offset = IF Len(files[tail.file]) < tail.offset THEN 0 ELSE tail.offset]
        /\ tail.at = "open" /\ UNCHANGED <<notified, failedDrain>>
    BY <1>7 DEF OpenFile
  <2>2. /\ tail' \in [at : {"off", "wait", "open", "read", "save"}, file : Nat, offset : Nat]
        /\ tail'.at = "read" /\ tail'.file = tail.file /\ tail'.offset \in {0, tail.offset}
    BY <1>3, <2>1
  <2>3. TailKept'
    BY <1>1, <1>2, <1>3, <1>4, <2>1, <2>2 DEF LauncherInv, TailKept
  <2>. QED  BY <1>1, <1>3, <2>1, <2>2, <2>3, TailMoves
<1>8. CASE EndOfFile
  <2>1. /\ tail' = [tail EXCEPT !.at = "save"] /\ tail.at = "read" /\ tail.offset >= Whole(tail.file)
        /\ UNCHANGED <<notified, failedDrain>>
    BY <1>8 DEF EndOfFile, Readable
  <2>2. /\ tail' \in [at : {"off", "wait", "open", "read", "save"}, file : Nat, offset : Nat]
        /\ tail'.at = "save" /\ tail'.file = tail.file /\ tail'.offset = tail.offset
    BY <1>3, <2>1
  <2>3. TailKept'
    BY <1>1, <1>2, <1>3, <1>4, <2>1, <2>2 DEF LauncherInv, TailKept
  <2>. QED  BY <1>1, <1>3, <2>1, <2>2, <2>3, TailMoves
<1>9. CASE DrainFails
  <2>1. /\ tail' = [tail EXCEPT !.at = "wait"] /\ tail.at # "off" /\ failedDrain' = TRUE
        /\ UNCHANGED notified
    BY <1>9 DEF DrainFails
  <2>2. /\ tail' \in [at : {"off", "wait", "open", "read", "save"}, file : Nat, offset : Nat]
        /\ tail'.at = "wait" /\ tail'.file = tail.file /\ tail'.offset = tail.offset
    BY <1>3, <2>1
  <2>3. TailKept'
    BY <1>1, <1>2, <2>1, <2>2 DEF LauncherInv, TailKept
  <2>. QED  BY <1>1, <1>3, <2>1, <2>2, <2>3, TailMoves
<1>10. CASE TrayStops
  <2>1. /\ tail' = [at |-> "off", file |-> 0, offset |-> 0] /\ notified' = FALSE /\ UNCHANGED failedDrain
    BY <1>10 DEF TrayStops, TailOff
  <2>2. TailKept'
    BY <2>1 DEF TailKept
  <2>. QED  BY <1>1, <1>3, <2>1, <2>2, TailMoves
<1>. QED  BY <1>5, <1>6, <1>7, <1>8, <1>9, <1>10

LEMMA WriteLauncherCursorStep ==
  ASSUME LauncherInv, WriteLauncherCursor
  PROVE  LauncherInv'
<1>1. /\ cursors' = [cursors EXCEPT ![tail.file] = tail.offset] /\ tail' = [tail EXCEPT !.at = "wait"]
      /\ tail.at = "save"
      /\ UNCHANGED <<files, half, written, notified, launched, failedDrain, lost>>
  BY DEF WriteLauncherCursor
<1>2. /\ Newest' = Newest /\ \A d : Whole(d)' = Whole(d)
      /\ \A d, k : Kept(d, k)' = Kept(d, k)
  BY <1>1 DEF Newest, Whole, Kept
<1>3. /\ tail' \in [at : {"off", "wait", "open", "read", "save"}, file : Nat, offset : Nat]
      /\ tail'.at = "wait" /\ tail'.file = tail.file /\ tail'.offset = tail.offset
      /\ tail.file \in 1 .. Newest /\ Newest \in 1 .. MaxDays /\ MaxDays \in Nat
  BY <1>1, LauncherBounds DEF LauncherInv, LauncherTyped
<1>4. /\ cursors' \in [1 .. MaxDays -> Nat] /\ cursors'[tail.file] = tail.offset
      /\ \A d \in 1 .. MaxDays : d # tail.file => cursors'[d] = cursors[d]
  BY <1>1, <1>3 DEF LauncherInv, LauncherTyped
<1>5. LauncherTyped' /\ LinesNumbered' /\ LauncherStoredOnce'
  BY <1>1, <1>2, <1>3, <1>4 DEF LauncherInv, LauncherTyped, LinesNumbered, LauncherStoredOnce
<1>6. TailKept'
  BY <1>1, <1>2, <1>3 DEF LauncherInv, TailKept
<1>7. CursorsKept'
  <2>. SUFFICES ASSUME Rewriting \notin lost
       PROVE  /\ \A d \in 1 .. Newest : cursors'[d] <= Whole(d) /\ \A k \in 1 .. cursors'[d] : Kept(d, k)
              /\ \A d \in Newest + 1 .. MaxDays : cursors'[d] = 0
    BY <1>1, <1>2 DEF CursorsKept
  <2>1. cursors'[tail.file] <= Whole(tail.file) /\ \A k \in 1 .. cursors'[tail.file] : Kept(tail.file, k)
    BY <1>1, <1>4 DEF LauncherInv, TailKept
  <2>2. \A d \in 1 .. Newest : d # tail.file =>
          cursors'[d] <= Whole(d) /\ \A k \in 1 .. cursors'[d] : Kept(d, k)
    BY <1>3, <1>4 DEF LauncherInv, CursorsKept
  <2>3. \A d \in Newest + 1 .. MaxDays : cursors'[d] = 0
    BY <1>3, <1>4 DEF LauncherInv, CursorsKept
  <2>. QED  BY <2>1, <2>2, <2>3
<1>. QED  BY <1>5, <1>6, <1>7 DEF LauncherInv

LEMMA ProcessLineStep ==
  ASSUME LauncherInv, process_line
  PROVE  LauncherInv'
<1>0. PICK d, k : d = tail.file /\ k = tail.offset + 1
  OBVIOUS
<1>. DEFINE line == files[d][k]
            row == [key |-> <<tail.offset, line.n>>, n |-> line.n,
                    category |-> classify_launcher_message(line.text)]
<1>1. /\ tail.at = "read" /\ tail.offset < Whole(d)
      /\ \/ launched' = (IF parse_launcher_line(line.text) THEN insert_row(row) ELSE launched) /\ UNCHANGED lost
         \/ lost' = lost \cup {line.n} /\ UNCHANGED launched
      /\ tail' = [tail EXCEPT !.offset = @ + 1]
      /\ UNCHANGED <<files, half, written, notified, cursors, failedDrain>>
  BY <1>0 DEF process_line, Readable
<1>2. /\ d \in 1 .. Newest /\ Newest \in Nat /\ Whole(d) \in Nat /\ Len(files[d]) \in Nat
      /\ Whole(d) <= Len(files[d]) /\ tail.offset \in Nat /\ k \in 1 .. Len(files[d])
      /\ files[d] \in Seq(LauncherLines)
  BY <1>0, <1>1, WholeBounds, ElementOfSeq DEF LauncherInv, LauncherTyped, Newest
<1>3. line \in LauncherLines /\ line.n \in Nat \ {0} /\ line.text \in LauncherTexts
  <2>1. files[d][k] \in LauncherLines
    BY <1>2, ElementOfSeq
  <2>. QED  BY <2>1 DEF LauncherLines
<1>4. line.n <= written
  BY <1>2 DEF LauncherInv, LinesNumbered
<1>. HIDE DEF line
<1>5. row \in LauncherRows /\ row.n = line.n /\ row.key = <<tail.offset, line.n>>
  BY <1>2, <1>3 DEF LauncherRows
<1>. HIDE DEF row
<1>6. /\ Newest' = Newest /\ \A e : Whole(e)' = Whole(e)
  BY <1>1 DEF Newest, Whole
<1>7. launched \in Seq(LauncherRows) /\ Len(launched) \in Nat /\ DOMAIN launched = 1 .. Len(launched)
  BY LenProperties DEF LauncherInv, LauncherTyped
<1>8. /\ launched' \in Seq(LauncherRows) /\ Len(launched') \in Nat /\ Len(launched') >= Len(launched)
      /\ \A j \in 1 .. Len(launched) : launched'[j] = launched[j]
      /\ \/ Len(launched') = Len(launched)
         \/ /\ Len(launched') = Len(launched) + 1 /\ launched'[Len(launched')] = row
            /\ \A j \in 1 .. Len(launched) : launched[j].key # row.key
      /\ \/ ~parse_launcher_line(line.text)
         \/ line.n \in lost'
         \/ \E j \in 1 .. Len(launched') : launched'[j].n = line.n
      /\ lost \subseteq lost'
  <2>1. CASE UNCHANGED launched
    <3>1. parse_launcher_line(line.text) /\ line.n \notin lost' =>
            \E j \in 1 .. Len(launched) : launched[j].key = row.key
      <4>. SUFFICES ASSUME parse_launcher_line(line.text), line.n \notin lost',
                           \A j \in 1 .. Len(launched) : launched[j].key # row.key,
                           launched' = insert_row(row)
           PROVE FALSE
        BY <1>1, <2>1
      <4>1. launched' = Append(launched, row)
        BY <1>7 DEF insert_row
      <4>2. Len(launched') = Len(launched) + 1
        BY <1>5, <1>7, <4>1
      <4>. QED  BY <1>7, <2>1, <4>2
    <3>2. lost \subseteq lost'
      BY <1>1
    <3>3. (\E j \in 1 .. Len(launched) : launched[j].key = row.key) =>
            \E j \in 1 .. Len(launched) : launched[j].n = line.n
      <4>. SUFFICES ASSUME NEW j \in 1 .. Len(launched), launched[j].key = row.key
           PROVE launched[j].n = line.n
        OBVIOUS
      <4>1. row.key[2] = line.n
        BY <1>5
      <4>. QED  BY <4>1 DEF LauncherInv, LauncherStoredOnce
    <3>. QED  BY <1>7, <2>1, <3>1, <3>2, <3>3
  <2>2. CASE launched' = Append(launched, row)
    <3>1. /\ launched' \in Seq(LauncherRows) /\ Len(launched') = Len(launched) + 1
          /\ launched'[Len(launched) + 1] = row /\ \A j \in 1 .. Len(launched) : launched'[j] = launched[j]
      BY <1>5, <1>7, <2>2
    <3>2. launched' # launched
      BY <1>7, <3>1
    <3>3. /\ parse_launcher_line(line.text) /\ launched' = insert_row(row) /\ UNCHANGED lost
      BY <1>1, <3>2
    <3>4. \A j \in 1 .. Len(launched) : launched[j].key # row.key
      BY <1>7, <3>2, <3>3 DEF insert_row
    <3>5. Len(launched) + 1 \in 1 .. Len(launched') /\ launched'[Len(launched) + 1].n = line.n
      BY <1>5, <1>7, <3>1
    <3>6. launched'[Len(launched')] = row /\ Len(launched') >= Len(launched)
      BY <1>7, <3>1
    <3>7. \E j \in 1 .. Len(launched') : launched'[j].n = line.n
      BY <3>5
    <3>8. Len(launched') \in Nat /\ lost \subseteq lost'
      BY <1>7, <3>1, <3>3
    <3>. QED  BY <3>1, <3>4, <3>6, <3>7, <3>8
  <2>. QED  BY <1>1, <2>1, <2>2 DEF insert_row
<1>9. /\ tail' \in [at : {"off", "wait", "open", "read", "save"}, file : Nat, offset : Nat]
      /\ tail'.at = "read" /\ tail'.file = d /\ tail'.offset = k
  <2>1. tail \in [at : {"off", "wait", "open", "read", "save"}, file : Nat, offset : Nat]
    BY DEF LauncherInv, LauncherTyped
  <2>. QED  BY <1>0, <1>1, <2>1
<1>10. LauncherTyped' /\ LinesNumbered'
  <2>1. LauncherTyped'
    BY <1>1, <1>2, <1>6, <1>8, <1>9 DEF LauncherInv, LauncherTyped
  <2>2. LinesNumbered'
    BY <1>1, <1>6 DEF LauncherInv, LinesNumbered
  <2>. QED  BY <2>1, <2>2
<1>11. LauncherStoredOnce'
  <2>1. CASE Len(launched') = Len(launched)
    <3>1. \A j \in 1 .. Len(launched') : j \in 1 .. Len(launched) /\ launched'[j] = launched[j]
      BY <1>8, <2>1
    <3>2. \A j \in 1 .. Len(launched') : launched'[j].key[2] = launched'[j].n /\ launched'[j].n <= written
      BY <3>1 DEF LauncherInv, LauncherStoredOnce
    <3>3. \A j, i \in 1 .. Len(launched') : launched'[j].n = launched'[i].n => j = i
      BY <3>1 DEF LauncherInv, LauncherStoredOnce
    <3>4. \A j \in 1 .. Len(launched') : \A e \in 1 .. Newest : \A i \in 1 .. Len(files[e]) :
            files[e][i].n = launched'[j].n => launched'[j].key[1] = i - 1
      BY <3>1 DEF LauncherInv, LauncherStoredOnce
    <3>. QED  BY <1>1, <1>6, <3>2, <3>3, <3>4 DEF LauncherStoredOnce
  <2>2. CASE /\ Len(launched') = Len(launched) + 1 /\ launched'[Len(launched')] = row
             /\ \A j \in 1 .. Len(launched) : launched[j].key # row.key
    <3>1. \A e \in 1 .. Newest : \A i \in 1 .. Len(files[e]) : files[e][i].n = line.n => e = d /\ i = k
      BY <1>2 DEF LauncherInv, LinesNumbered, line
    <3>2. \A j \in 1 .. Len(launched) : launched[j].n # line.n
      <4>. SUFFICES ASSUME NEW j \in 1 .. Len(launched), launched[j].n = line.n  PROVE FALSE
        OBVIOUS
      <4>1. launched[j].key[2] = line.n /\ launched[j].key[1] = k - 1
        BY <1>2 DEF LauncherInv, LauncherStoredOnce, line
      <4>2. k - 1 = tail.offset
        BY <1>0, <1>2
      <4>3. launched[j].key \in Nat \X Nat
        <5>1. launched[j] \in LauncherRows
          BY <1>7, ElementOfSeq
        <5>. QED  BY <5>1 DEF LauncherRows
      <4>. QED  BY <1>5, <2>2, <4>1, <4>2, <4>3
    <3>3. \A j \in 1 .. Len(launched') : launched'[j].key[2] = launched'[j].n /\ launched'[j].n <= written
      <4>1. \A j \in 1 .. Len(launched) : launched'[j].key[2] = launched'[j].n /\ launched'[j].n <= written
        BY <1>8 DEF LauncherInv, LauncherStoredOnce
      <4>2. row.key[2] = row.n /\ row.n <= written
        BY <1>4, <1>5
      <4>. QED  BY <1>7, <2>2, <4>1, <4>2
    <3>4. \A j, i \in 1 .. Len(launched') : launched'[j].n = launched'[i].n => j = i
      <4>1. \A j, i \in 1 .. Len(launched) : launched'[j].n = launched'[i].n => j = i
        BY <1>8 DEF LauncherInv, LauncherStoredOnce
      <4>2. \A j \in 1 .. Len(launched) : launched'[j].n # launched'[Len(launched')].n
        BY <1>5, <1>8, <2>2, <3>2
      <4>. QED  BY <1>7, <2>2, <4>1, <4>2
    <3>5. \A j \in 1 .. Len(launched') : \A e \in 1 .. Newest : \A i \in 1 .. Len(files[e]) :
            files[e][i].n = launched'[j].n => launched'[j].key[1] = i - 1
      <4>1. \A j \in 1 .. Len(launched) : \A e \in 1 .. Newest : \A i \in 1 .. Len(files[e]) :
              files[e][i].n = launched'[j].n => launched'[j].key[1] = i - 1
        BY <1>8 DEF LauncherInv, LauncherStoredOnce
      <4>2. row.key[1] = k - 1
        BY <1>0, <1>2, <1>5
      <4>3. \A e \in 1 .. Newest : \A i \in 1 .. Len(files[e]) :
              files[e][i].n = row.n => row.key[1] = i - 1
        BY <1>5, <3>1, <4>2
      <4>. QED  BY <1>7, <2>2, <4>1, <4>3
    <3>. QED  BY <1>1, <1>6, <3>3, <3>4, <3>5 DEF LauncherStoredOnce
  <2>. QED  BY <1>8, <2>1, <2>2
<1>12. \A e, i : Kept(e, i) => Kept(e, i)'
  BY <1>1, <1>7, <1>8 DEF Kept
<1>13. Kept(d, k)'
  <2>1. UNCHANGED files /\ line = files[d][k]
    BY <1>1 DEF line
  <2>2. \/ ~parse_launcher_line(line.text) \/ line.n \in lost'
        \/ \E j \in 1 .. Len(launched') : launched'[j].n = line.n
    BY <1>8
  <2>. QED  BY <2>1, <2>2 DEF Kept
<1>14. Rewriting \notin lost' => Rewriting \notin lost
  BY <1>8
<1>15. CursorsKept'
  BY <1>1, <1>6, <1>12, <1>14 DEF LauncherInv, CursorsKept
<1>16. TailKept'
  <2>1. Rewriting \notin lost => \A i \in 1 .. tail.offset : Kept(d, i)
    BY <1>0, <1>1 DEF LauncherInv, TailKept
  <2>2. Rewriting \notin lost' => \A i \in 1 .. k : Kept(d, i)'
    BY <1>0, <1>2, <1>12, <1>13, <1>14, <2>1
  <2>3. k <= Whole(d)
    BY <1>0, <1>1, <1>2
  <2>. QED  BY <1>6, <1>9, <2>2, <2>3 DEF TailKept
<1>. QED  BY <1>10, <1>11, <1>15, <1>16 DEF LauncherInv
-----------------------------------------------------------------------------
(* The launcher writes: the numbers stay apart, and a change of the tailed *)
(* file is reported.                                                       *)
LEMMA BeginLineStep ==
  ASSUME LauncherInv, NEW text \in LauncherTexts, BeginLine(text)
  PROVE  LauncherInv'
<1>0. PICK d, w, l : d = Newest /\ w = written + 1 /\ l = [n |-> w, text |-> text]
  OBVIOUS
<1>1. /\ ~half /\ half' /\ written' = w
      /\ files' = [files EXCEPT ![d] = Append(files[d], l)]
      /\ notified' = (notified \/ (tail.at # "off" /\ tail.file = d))
      /\ UNCHANGED <<tail, cursors, launched, failedDrain, lost>>
  BY <1>0 DEF BeginLine, Report
<1>2. /\ files \in Seq(Seq(LauncherLines)) /\ d \in 1 .. Len(files) /\ Len(files) \in Nat
      /\ files[d] \in Seq(LauncherLines) /\ Len(files[d]) \in Nat /\ written \in Nat
      /\ l \in LauncherLines /\ w \in Nat /\ w > written
  <2>1. files \in Seq(Seq(LauncherLines)) /\ d \in 1 .. Len(files) /\ written \in Nat /\ Len(files) \in Nat
    BY <1>0, LauncherBounds DEF LauncherInv, LauncherTyped, Newest
  <2>2. files[d] \in Seq(LauncherLines)
    BY <2>1, ElementOfSeq
  <2>. QED  BY <1>0, <2>1, <2>2, LenProperties DEF LauncherLines
<1>3. /\ Append(files[d], l) \in Seq(LauncherLines) /\ Len(Append(files[d], l)) = Len(files[d]) + 1
      /\ Append(files[d], l)[Len(files[d]) + 1] = l
      /\ \A k \in 1 .. Len(files[d]) : Append(files[d], l)[k] = files[d][k]
  BY <1>2
<1>4. /\ files' \in Seq(Seq(LauncherLines)) /\ Len(files') = Len(files)
      /\ files'[d] = Append(files[d], l)
      /\ \A e \in 1 .. Len(files) : e # d => files'[e] = files[e]
  <2>1. Append(files[d], l) \in Seq(LauncherLines)
    BY <1>3
  <2>. QED  BY <1>1, <1>2, <2>1, ExceptSeq
<1>5. /\ Newest = Len(files) /\ Newest' = Newest /\ d = Newest
      /\ Len(files'[d]) = Len(files[d]) + 1 /\ files'[d][Len(files[d]) + 1] = l
      /\ \A k \in 1 .. Len(files[d]) : files'[d][k] = files[d][k]
  BY <1>0, <1>3, <1>4 DEF Newest
<1>6. \A e \in 1 .. Newest : Whole(e)' = Whole(e) /\ Whole(e) \in Nat
  <2>. SUFFICES ASSUME NEW e \in 1 .. Newest  PROVE Whole(e)' = Whole(e) /\ Whole(e) \in Nat
    OBVIOUS
  <2>1. CASE e = d
    BY <1>1, <1>2, <1>5, <2>1 DEF Whole
  <2>2. CASE e # d
    <3>1. Len(files[e]) \in Nat
      BY WholeBounds DEF LauncherInv
    <3>2. e # Newest /\ e # Newest' /\ files'[e] = files[e]
      BY <1>4, <1>5, <2>2
    <3>3. Whole(e) = Len(files[e]) - 0
      BY <3>2 DEF Whole
    <3>4. Whole(e)' = Len(files'[e]) - 0
      BY <3>2 DEF Whole
    <3>. QED  BY <3>1, <3>2, <3>3, <3>4
  <2>. QED  BY <2>1, <2>2
<1>7. \A e \in 1 .. Newest : \A k \in 1 .. Len(files'[e]) :
        (e = d /\ k = Len(files[d]) + 1 /\ files'[e][k] = l)
        \/ (k \in 1 .. Len(files[e]) /\ files'[e][k] = files[e][k])
  <2>. SUFFICES ASSUME NEW e \in 1 .. Newest, NEW k \in 1 .. Len(files'[e])
       PROVE (e = d /\ k = Len(files[d]) + 1 /\ files'[e][k] = l)
             \/ (k \in 1 .. Len(files[e]) /\ files'[e][k] = files[e][k])
    OBVIOUS
  <2>1. CASE e # d
    BY <1>4, <1>5, <2>1
  <2>2. CASE e = d
    <3>1. k \in 1 .. Len(files[d]) + 1
      BY <1>5, <2>2
    <3>2. k = Len(files[d]) + 1 \/ k \in 1 .. Len(files[d])
      BY <1>2, <3>1
    <3>. QED  BY <1>5, <2>2, <3>2
  <2>. QED  BY <2>1, <2>2
<1>8. LauncherTyped'
  <2>1. half' /\ half' \in BOOLEAN /\ notified' \in BOOLEAN
    BY <1>1 DEF LauncherInv, LauncherTyped, BeginLine
  <2>2. Len(files'[Newest']) > 0 /\ Newest' \in 1 .. MaxDays /\ written' \in Nat
    BY <1>1, <1>2, <1>5 DEF LauncherInv, LauncherTyped
  <2>. QED  BY <1>1, <1>4, <1>5, <2>1, <2>2 DEF LauncherInv, LauncherTyped
<1>9. LinesNumbered'
  <2>1. \A e \in 1 .. Newest : \A k \in 1 .. Len(files[e]) : files[e][k].n < w /\ files[e][k].n \in Nat
    <3>. SUFFICES ASSUME NEW e \in 1 .. Newest, NEW k \in 1 .. Len(files[e])
         PROVE files[e][k].n < w /\ files[e][k].n \in Nat
      OBVIOUS
    <3>1. files[e] \in Seq(LauncherLines)
      BY <1>2, <1>5, ElementOfSeq
    <3>2. files[e][k] \in LauncherLines
      BY <3>1, ElementOfSeq
    <3>3. files[e][k].n <= written
      BY DEF LauncherInv, LinesNumbered
    <3>. QED  BY <1>2, <3>2, <3>3 DEF LauncherLines
  <2>2. l.n = w
    BY <1>0
  <2>3. \A e \in 1 .. Newest : \A k \in 1 .. Len(files'[e]) : files'[e][k].n <= w
    <3>. SUFFICES ASSUME NEW e \in 1 .. Newest, NEW k \in 1 .. Len(files'[e])
         PROVE files'[e][k].n <= w
      OBVIOUS
    <3>1. CASE files'[e][k] = l
      BY <1>2, <2>2, <3>1
    <3>2. CASE k \in 1 .. Len(files[e]) /\ files'[e][k] = files[e][k]
      <4>1. files[e][k].n < w /\ files[e][k].n \in Nat
        BY <2>1, <3>2
      <4>. QED  BY <1>2, <3>2, <4>1
    <3>. QED  BY <1>7, <3>1, <3>2
  <2>4. \A e, f \in 1 .. Newest : \A k \in 1 .. Len(files'[e]), i \in 1 .. Len(files'[f]) :
          files'[e][k].n = files'[f][i].n => e = f /\ k = i
    <3>. SUFFICES ASSUME NEW e \in 1 .. Newest, NEW f \in 1 .. Newest,
                         NEW k \in 1 .. Len(files'[e]), NEW i \in 1 .. Len(files'[f]),
                         files'[e][k].n = files'[f][i].n
         PROVE e = f /\ k = i
      OBVIOUS
    <3>1. CASE k \in 1 .. Len(files[e]) /\ files'[e][k] = files[e][k]
      <4>1. files[e][k].n < w /\ files[e][k].n \in Nat
        BY <2>1, <3>1
      <4>2. files'[f][i] # l
        <5>1. files'[f][i].n = files[e][k].n
          BY <3>1
        <5>2. files[e][k].n # w
          BY <1>2, <4>1
        <5>. QED  BY <2>2, <5>1, <5>2
      <4>3. i \in 1 .. Len(files[f]) /\ files'[f][i] = files[f][i]
        BY <1>7, <2>2, <4>2
      <4>. QED  BY <3>1, <4>3 DEF LauncherInv, LinesNumbered
    <3>2. CASE e = d /\ k = Len(files[d]) + 1 /\ files'[e][k] = l
      <4>1. ~(i \in 1 .. Len(files[f]) /\ files'[f][i] = files[f][i])
        <5>. SUFFICES ASSUME i \in 1 .. Len(files[f]), files'[f][i] = files[f][i]  PROVE FALSE
          OBVIOUS
        <5>1. files[f][i].n < w /\ files[f][i].n \in Nat
          BY <2>1
        <5>2. files[f][i].n = w
          BY <2>2, <3>2
        <5>. QED  BY <1>2, <5>1, <5>2
      <4>2. f = d /\ i = Len(files[d]) + 1
        BY <1>7, <4>1
      <4>. QED  BY <3>2, <4>2
    <3>3. \/ e = d /\ k = Len(files[d]) + 1 /\ files'[e][k] = l
          \/ k \in 1 .. Len(files[e]) /\ files'[e][k] = files[e][k]
      BY <1>7
    <3>. QED  BY <3>1, <3>2, <3>3
  <2>5. Newest' = Newest /\ written' = w
    BY <1>1, <1>5
  <2>. QED  BY <2>3, <2>4, <2>5 DEF LinesNumbered
<1>10. LauncherStoredOnce'
  <2>1. \A j \in 1 .. Len(launched) : launched[j].n <= written /\ launched[j].n \in Nat
    <3>. SUFFICES ASSUME NEW j \in 1 .. Len(launched)  PROVE launched[j].n <= written /\ launched[j].n \in Nat
      OBVIOUS
    <3>1. launched[j] \in LauncherRows
      BY ElementOfSeq DEF LauncherInv, LauncherTyped
    <3>. QED  BY <3>1 DEF LauncherInv, LauncherStoredOnce, LauncherRows
  <2>2. l.n = w
    BY <1>0
  <2>3. \A j \in 1 .. Len(launched) : \A e \in 1 .. Newest : \A k \in 1 .. Len(files'[e]) :
          files'[e][k].n = launched[j].n => launched[j].key[1] = k - 1
    <3>. SUFFICES ASSUME NEW j \in 1 .. Len(launched), NEW e \in 1 .. Newest, NEW k \in 1 .. Len(files'[e]),
                         files'[e][k].n = launched[j].n
         PROVE launched[j].key[1] = k - 1
      OBVIOUS
    <3>1. launched[j].n <= written /\ launched[j].n \in Nat
      BY <2>1
    <3>2. files'[e][k] # l
      BY <1>2, <2>2, <3>1
    <3>3. k \in 1 .. Len(files[e]) /\ files'[e][k] = files[e][k]
      BY <1>7, <3>2
    <3>. QED  BY <3>3 DEF LauncherInv, LauncherStoredOnce
  <2>4. \A j \in 1 .. Len(launched) : launched[j].n <= w
    BY <1>2, <2>1
  <2>5. /\ \A j \in 1 .. Len(launched) : launched[j].key[2] = launched[j].n
        /\ \A j, k \in 1 .. Len(launched) : launched[j].n = launched[k].n => j = k
    BY DEF LauncherInv, LauncherStoredOnce
  <2>6. Newest' = Newest /\ written' = w /\ launched' = launched
    BY <1>1, <1>5
  <2>. QED  BY <2>3, <2>4, <2>5, <2>6 DEF LauncherStoredOnce
<1>11. \A e \in 1 .. Newest : \A k \in 1 .. Len(files[e]) : Kept(e, k) => Kept(e, k)'
  <2>1. \A e \in 1 .. Newest : \A k \in 1 .. Len(files[e]) : files'[e][k] = files[e][k]
    BY <1>4, <1>5
  <2>. QED  BY <1>1, <2>1 DEF Kept
<1>12. \A e \in 1 .. Newest : Whole(e) <= Len(files[e]) /\ Len(files[e]) \in Nat
  BY WholeBounds DEF LauncherInv
<1>13. CursorsKept'
  <2>. SUFFICES ASSUME Rewriting \notin lost
       PROVE  /\ \A e \in 1 .. Newest : cursors[e] <= Whole(e) /\ \A k \in 1 .. cursors[e] : Kept(e, k)'
              /\ \A e \in Newest + 1 .. MaxDays : cursors[e] = 0
    BY <1>1, <1>5, <1>6 DEF CursorsKept
  <2>1. \A e \in 1 .. Newest : cursors[e] \in Nat
    <3>1. PICK m \in Nat : m = Newest /\ m \in 1 .. MaxDays /\ MaxDays \in Nat
      BY <1>2, <1>5, LauncherBounds DEF LauncherInv, LauncherTyped
    <3>2. \A e \in 1 .. m : e \in 1 .. MaxDays
      BY <3>1
    <3>. QED  BY <3>1, <3>2 DEF LauncherInv, LauncherTyped
  <2>. QED  BY <1>6, <1>11, <1>12, <2>1 DEF LauncherInv, CursorsKept
<1>14. TailKept'
  <2>. SUFFICES ASSUME Rewriting \notin lost, tail.at # "off"
       PROVE  /\ tail.offset <= Whole(tail.file) /\ \A k \in 1 .. tail.offset : Kept(tail.file, k)'
              /\ tail.at \in {"wait", "save"} /\ ~notified' /\ ~failedDrain =>
                   tail.offset = Whole(tail.file)
    BY <1>1, <1>5, <1>6 DEF TailKept, LauncherInv, LauncherTyped
  <2>1. tail.file \in 1 .. Newest /\ tail.offset \in Nat
    BY DEF LauncherInv, LauncherTyped
  <2>2. /\ tail.offset <= Whole(tail.file)
        /\ \A k \in 1 .. tail.offset : Kept(tail.file, k)
        /\ tail.at \in {"wait", "save"} /\ ~notified /\ ~failedDrain => tail.offset = Whole(tail.file)
    BY DEF LauncherInv, TailKept
  <2>3. \A k \in 1 .. tail.offset : Kept(tail.file, k)'
    <3>1. tail' = tail
      BY <1>1
    <3>. QED  BY <1>6, <1>11, <1>12, <2>1, <2>2, <3>1
  <2>. QED  BY <1>1, <2>2, <2>3
<1>. QED  BY <1>8, <1>9, <1>10, <1>13, <1>14 DEF LauncherInv

LEMMA FinishLineStep ==
  ASSUME LauncherInv, FinishLine
  PROVE  LauncherInv'
<1>1. /\ half /\ half' = FALSE
      /\ notified' = (notified \/ (tail.at # "off" /\ tail.file = Newest))
      /\ UNCHANGED <<files, written, tail, cursors, launched, failedDrain, lost>>
  BY DEF FinishLine, Report
<1>2. Newest' = Newest /\ \A d, k : Kept(d, k)' = Kept(d, k)
  BY <1>1 DEF Newest, Kept
<1>3. /\ \A d \in 1 .. Newest : Whole(d) \in Nat /\ Len(files[d]) \in Nat /\ Whole(d) <= Len(files[d])
      /\ Newest \in Nat
  BY WholeBounds, LauncherBounds DEF LauncherInv, LauncherTyped, Newest
<1>4. \A d \in 1 .. Newest : /\ Whole(d)' = Len(files[d])
                             /\ d # Newest => Whole(d)' = Whole(d)
  <2>. SUFFICES ASSUME NEW d \in 1 .. Newest
       PROVE Whole(d)' = Len(files[d]) /\ (d # Newest => Whole(d)' = Whole(d))
    OBVIOUS
  <2>1. Whole(d)' = Len(files'[d]) - 0
    BY <1>1 DEF Whole
  <2>2. d # Newest => Whole(d) = Len(files[d]) - 0
    BY DEF Whole
  <2>3. files' = files
    BY <1>1
  <2>. QED  BY <1>3, <2>1, <2>2, <2>3
<1>5. LauncherTyped'
  <2>1. half' = FALSE
    BY Zenon, <1>1
  <2>2. notified' \in BOOLEAN
    BY <1>1 DEF LauncherInv, LauncherTyped
  <2>. QED  BY <1>1, <1>2, <2>1, <2>2 DEF LauncherInv, LauncherTyped
<1>6. LinesNumbered' /\ LauncherStoredOnce'
  BY <1>1, <1>2 DEF LauncherInv, LinesNumbered, LauncherStoredOnce
<1>7. CursorsKept'
  <2>. SUFFICES ASSUME Rewriting \notin lost
       PROVE  /\ \A d \in 1 .. Newest : cursors[d] <= Whole(d)' /\ \A k \in 1 .. cursors[d] : Kept(d, k)
              /\ \A d \in Newest + 1 .. MaxDays : cursors[d] = 0
    BY <1>1, <1>2 DEF CursorsKept
  <2>1. \A d \in 1 .. Newest : cursors[d] \in Nat
    <3>1. PICK m \in Nat : m = Newest /\ m \in 1 .. MaxDays /\ MaxDays \in Nat
      BY <1>3, LauncherBounds DEF LauncherInv, LauncherTyped
    <3>2. \A d \in 1 .. m : d \in 1 .. MaxDays
      BY <3>1
    <3>. QED  BY <3>1, <3>2 DEF LauncherInv, LauncherTyped
  <2>. QED  BY <1>3, <1>4, <2>1 DEF LauncherInv, CursorsKept
<1>8. TailKept'
  <2>. SUFFICES ASSUME Rewriting \notin lost, tail.at # "off"
       PROVE  /\ tail.offset <= Whole(tail.file)' /\ \A k \in 1 .. tail.offset : Kept(tail.file, k)
              /\ tail.at \in {"wait", "save"} /\ ~notified' /\ ~failedDrain =>
                   tail.offset = Whole(tail.file)'
    BY <1>1, <1>2 DEF TailKept
  <2>1. tail.file \in 1 .. Newest /\ tail.offset \in Nat
    BY DEF LauncherInv, LauncherTyped
  <2>2. /\ tail.offset <= Whole(tail.file)
        /\ \A k \in 1 .. tail.offset : Kept(tail.file, k)
        /\ tail.at \in {"wait", "save"} /\ ~notified /\ ~failedDrain => tail.offset = Whole(tail.file)
    BY DEF LauncherInv, TailKept
  <2>3. Whole(tail.file)' = Len(files[tail.file])
    <3>1. PICK d \in 1 .. Newest : d = tail.file
      BY <2>1
    <3>2. d = tail.file'
      BY <1>1, <3>1
    <3>. QED  BY <1>4, <3>1, <3>2
  <2>4. tail.file # Newest => Whole(tail.file)' = Whole(tail.file)
    <3>1. PICK d \in 1 .. Newest : d = tail.file
      BY <2>1
    <3>2. d = tail.file'
      BY <1>1, <3>1
    <3>. QED  BY <1>4, <3>1, <3>2
  <2>5. Whole(tail.file) <= Len(files[tail.file]) /\ Whole(tail.file) \in Nat
        /\ Len(files[tail.file]) \in Nat
    BY <1>3, <2>1
  <2>6. tail.offset <= Whole(tail.file)'
    BY <2>1, <2>2, <2>3, <2>5
  <2>7. ~notified' => ~notified /\ tail.file # Newest
    BY <1>1
  <2>. QED  BY <2>2, <2>4, <2>6, <2>7
<1>. QED  BY <1>5, <1>6, <1>7, <1>8 DEF LauncherInv

LEMMA NewDayStep ==
  ASSUME LauncherInv, NewDay
  PROVE  LauncherInv'
<1>1. /\ ~half /\ Newest < MaxDays /\ files' = Append(files, <<>>)
      /\ UNCHANGED <<half, written, tail, notified, cursors, launched, failedDrain, lost>>
  BY DEF NewDay
<1>2. PICK m \in Nat : m = Newest /\ m = Len(files) /\ m \in 1 .. MaxDays /\ MaxDays \in Nat
  BY LauncherBounds DEF LauncherInv, LauncherTyped, Newest
<1>3. files \in Seq(Seq(LauncherLines)) /\ <<>> \in Seq(LauncherLines)
  BY DEF LauncherInv, LauncherTyped
<1>4. /\ files' \in Seq(Seq(LauncherLines)) /\ Len(files') = m + 1
      /\ files'[m + 1] = <<>> /\ Len(files'[m + 1]) = 0
      /\ \A d \in 1 .. m : files'[d] = files[d]
  BY <1>1, <1>2, <1>3
<1>5. Newest' = m + 1 /\ m + 1 \in 1 .. MaxDays /\ \A d \in 1 .. m + 1 : d \in 1 .. m \/ d = m + 1
  BY <1>1, <1>2, <1>4 DEF Newest
<1>6. /\ \A d \in 1 .. m : Whole(d)' = Whole(d) /\ Whole(d) \in Nat /\ Whole(d) <= Len(files[d])
      /\ Whole(m + 1)' = 0
  <2>1. \A d \in 1 .. m : Whole(d) = Len(files[d]) - 0 /\ Len(files[d]) \in Nat
    BY <1>1, <1>2, WholeBounds DEF Whole, LauncherInv
  <2>2. \A d \in 1 .. m + 1 : Whole(d)' = Len(files'[d]) - 0
    BY <1>1 DEF Whole
  <2>. QED  BY <1>2, <1>4, <1>5, <2>1, <2>2
<1>7. \A d \in 1 .. m : \A k \in 1 .. Len(files[d]) : Kept(d, k)' = Kept(d, k)
  <2>1. \A d \in 1 .. m : files'[d] = files[d]
    BY <1>4
  <2>. QED  BY <1>1, <2>1 DEF Kept
<1>8. LauncherTyped'
  BY <1>1, <1>2, <1>4, <1>5 DEF LauncherInv, LauncherTyped
<1>9. \A d \in 1 .. m + 1 : \A k \in 1 .. Len(files'[d]) :
        d \in 1 .. m /\ files'[d] = files[d]
  BY <1>4, <1>5
<1>10. LinesNumbered'
  <2>1. \A d \in 1 .. m + 1 : \A k \in 1 .. Len(files'[d]) : files'[d][k].n <= written
    BY <1>2, <1>9 DEF LauncherInv, LinesNumbered
  <2>2. ASSUME NEW d \in 1 .. m + 1, NEW e \in 1 .. m + 1,
               NEW k \in 1 .. Len(files'[d]), NEW i \in 1 .. Len(files'[e]),
               files'[d][k].n = files'[e][i].n
        PROVE  d = e /\ k = i
    <3>1. d \in 1 .. m /\ files'[d] = files[d]
      BY <1>9, <2>2
    <3>2. e \in 1 .. m /\ files'[e] = files[e]
      BY <1>9, <2>2
    <3>. QED  BY <1>2, <2>2, <3>1, <3>2 DEF LauncherInv, LinesNumbered
  <2>. QED  BY <1>1, <1>5, <2>1, <2>2 DEF LinesNumbered
<1>11. LauncherStoredOnce'
  BY <1>1, <1>2, <1>5, <1>9 DEF LauncherInv, LauncherStoredOnce
<1>12. CursorsKept'
  <2>. SUFFICES ASSUME Rewriting \notin lost
       PROVE  /\ \A d \in 1 .. m + 1 : cursors[d] <= Whole(d)' /\ \A k \in 1 .. cursors[d] : Kept(d, k)'
              /\ \A d \in (m + 1) + 1 .. MaxDays : cursors[d] = 0
    BY <1>1, <1>5 DEF CursorsKept
  <2>1. \A d \in 1 .. MaxDays : cursors[d] \in Nat
    BY DEF LauncherInv, LauncherTyped
  <2>2. /\ \A d \in 1 .. m : cursors[d] <= Whole(d) /\ \A k \in 1 .. cursors[d] : Kept(d, k)
        /\ \A d \in m + 1 .. MaxDays : cursors[d] = 0
    BY <1>2 DEF LauncherInv, CursorsKept
  <2>3. \A d \in 1 .. m : \A k \in 1 .. cursors[d] : k \in 1 .. Len(files[d])
    BY <1>2, <1>6, <2>1, <2>2, WholeBounds DEF LauncherInv
  <2>4. cursors[m + 1] = 0
    BY <1>2, <1>5, <2>2
  <2>5. ASSUME NEW d \in 1 .. m + 1
        PROVE cursors[d] <= Whole(d)' /\ \A k \in 1 .. cursors[d] : Kept(d, k)'
    <3>1. CASE d = m + 1
      <4>1. Whole(d)' = 0 /\ cursors[d] = 0
        BY <1>6, <2>4, <3>1
      <4>. QED  BY <4>1
    <3>2. CASE d \in 1 .. m
      BY <1>6, <1>7, <2>2, <2>3, <3>2
    <3>. QED  BY <1>5, <3>1, <3>2
  <2>. QED  BY <1>2, <2>2, <2>5
<1>13. TailKept'
  <2>. SUFFICES ASSUME Rewriting \notin lost, tail.at # "off"
       PROVE  /\ tail.offset <= Whole(tail.file) /\ \A k \in 1 .. tail.offset : Kept(tail.file, k)'
              /\ tail.at \in {"wait", "save"} /\ ~notified /\ ~failedDrain =>
                   tail.offset = Whole(tail.file)
    BY <1>1, <1>2, <1>6 DEF TailKept, LauncherInv, LauncherTyped
  <2>1. tail.file \in 1 .. m /\ tail.offset \in Nat /\ tail' = tail
    BY <1>1, <1>2 DEF LauncherInv, LauncherTyped
  <2>2. /\ tail.offset <= Whole(tail.file)
        /\ \A k \in 1 .. tail.offset : Kept(tail.file, k)
        /\ tail.at \in {"wait", "save"} /\ ~notified /\ ~failedDrain => tail.offset = Whole(tail.file)
    BY DEF LauncherInv, TailKept
  <2>3. \A k \in 1 .. tail.offset : Kept(tail.file, k)'
    <3>1. PICK d \in 1 .. m : d = tail.file /\ d = tail.file'
      BY <2>1
    <3>2. Whole(d) \in Nat /\ Len(files[d]) \in Nat /\ Whole(d) <= Len(files[d])
      BY <1>2, WholeBounds DEF LauncherInv
    <3>3. \A k \in 1 .. tail.offset : k \in 1 .. Len(files[d])
      BY <2>1, <2>2, <3>1, <3>2
    <3>4. \A k \in 1 .. tail.offset : Kept(d, k)'
      BY <1>7, <2>2, <3>1, <3>3
    <3>. QED  BY <3>1, <3>4
  <2>. QED  BY <2>2, <2>3
<1>. QED  BY <1>8, <1>10, <1>11, <1>12, <1>13 DEF LauncherInv

LEMMA RewrittenStep ==
  ASSUME LauncherInv, Rewritten
  PROVE  LauncherInv'
<1>0. PICK m : m = Newest
  OBVIOUS
<1>1. /\ ~half /\ files' = [files EXCEPT ![m] = <<>>] /\ lost' = lost \cup {Rewriting}
      /\ notified' = (notified \/ (tail.at # "off" /\ tail.file = m))
      /\ UNCHANGED <<half, written, tail, cursors, launched, failedDrain>>
  BY <1>0 DEF Rewritten, Report
<1>2. /\ files \in Seq(Seq(LauncherLines)) /\ <<>> \in Seq(LauncherLines)
      /\ m \in 1 .. Len(files) /\ m = Len(files)
  BY <1>0, LauncherBounds DEF LauncherInv, LauncherTyped, Newest
<1>3. /\ files' \in Seq(Seq(LauncherLines)) /\ Len(files') = Len(files) /\ files'[m] = <<>>
      /\ \A d \in 1 .. Len(files) : d # m => files'[d] = files[d]
  BY <1>1, <1>2, ExceptSeq
<1>4. Newest' = Newest /\ Newest = Len(files)
  BY <1>2, <1>3 DEF Newest
<1>5. \A d \in 1 .. Newest : \A k \in 1 .. Len(files'[d]) : files'[d] = files[d]
  <2>. SUFFICES ASSUME NEW d \in 1 .. Newest, NEW k \in 1 .. Len(files'[d])  PROVE files'[d] = files[d]
    OBVIOUS
  <2>1. d # m
    <3>. SUFFICES ASSUME d = m  PROVE FALSE
      OBVIOUS
    <3>1. Len(files'[d]) = 0
      BY <1>3
    <3>. QED  BY <3>1
  <2>. QED  BY <1>3, <1>4, <2>1
<1>6. LauncherTyped'
  <2>1. ~half' /\ half' \in BOOLEAN /\ notified' \in BOOLEAN
    BY <1>1 DEF LauncherInv, LauncherTyped
  <2>. QED  BY <1>1, <1>3, <1>4, <2>1 DEF LauncherInv, LauncherTyped
<1>7. LinesNumbered' /\ LauncherStoredOnce'
  BY <1>1, <1>4, <1>5 DEF LauncherInv, LinesNumbered, LauncherStoredOnce
<1>8. CursorsKept' /\ TailKept'
  BY <1>1 DEF CursorsKept, TailKept
<1>. QED  BY <1>6, <1>7, <1>8 DEF LauncherInv
-----------------------------------------------------------------------------
LEMMA LauncherInductive ==
  ASSUME LauncherInv, [LauncherNext]_launcherVars
  PROVE  LauncherInv'
<1>1. CASE LauncherNext
  BY <1>1, FinishLineStep, NewDayStep, RewrittenStep, BeginLineStep, TailSteps,
     ProcessLineStep, WriteLauncherCursorStep DEF LauncherNext
<1>2. CASE UNCHANGED launcherVars
  <2>1. UNCHANGED <<files, half, written, tail, notified, cursors, launched, failedDrain, lost>>
    BY <1>2 DEF launcherVars
  <2>. QED  BY <2>1, TailMoves DEF LauncherInv, LauncherTyped, TailKept, Kept, Whole, Newest
<1>. QED  BY <1>1, <1>2

LEMMA LauncherInvSuffices ==
  ASSUME LauncherInv
  PROVE  LauncherCaughtUp /\ LauncherOnce
<1>1. LauncherCaughtUp
  BY DEF LauncherInv, TailKept, LauncherCaughtUp
<1>2. launched \in Seq(LauncherRows) /\ DOMAIN launched = 1 .. Len(launched)
  BY LenProperties DEF LauncherInv, LauncherTyped
<1>3. LauncherOnce
  BY <1>2 DEF LauncherInv, LauncherStoredOnce, CursorsKept, Kept, LauncherOnce
<1>. QED  BY <1>1, <1>3
-----------------------------------------------------------------------------
(* The rows of events, the walk over them and the batch on its way.        *)
EventKeys == {"line", "sample", "burst"} \X LogLines \X Nat \X Nat
EventClasses == {"plain", "refined", "summary"}
EventRows ==
  [id : Nat \ {0}, key : EventKeys, line : LogLines, offset : Nat, class : EventClasses]

RowsTyped ==
  /\ IsFiniteSet(evRows) /\ evRows \in SUBSET EventRows /\ lastRowId \in 0 .. MaxRowIds
  /\ \A r \in evRows : r.id <= lastRowId
  /\ \A r, s \in evRows : r # s => r.id # s.id /\ r.key # s.key

LogTyped ==
  /\ ingested \in 0 .. LogLength /\ ruleSet \in 0 .. 1 /\ sample \in 0 .. LogLength
  /\ rewalk \in [next : 0 .. LogLength, rules : 0 .. 1] /\ rewalk.next <= ingested

WalkFields == {"at", "rules", "last", "batch", "promote", "hits", "doomed"}
WalkTyped ==
  /\ DOMAIN walk = WalkFields /\ walk.rules \in 0 .. 1
  /\ walk.last \in 0 .. lastRowId /\ walk.promote \in 0 .. LogLength
  /\ \A h \in walk.hits : h.key \in EventKeys

(* A row of the page is still what it was when it was read: only the walk  *)
(* changes a row, and only the one it takes from the page.                 *)
BatchCurrent ==
  walk.at = "update" =>
    /\ walk.batch \in SUBSET EventRows
    /\ \A b \in walk.batch : b.id <= walk.last
    /\ \A b, c \in walk.batch : b.id = c.id => b = c
    /\ \A b \in walk.batch : \A r \in evRows : r.id = b.id => r = b

RightClass(r) == Recognised(r.line, walk.rules) => r.class = Class(r.line, walk.rules)
WalkedRight ==
  walk.at \in {"read", "update", "promote", "forget"} =>
    \A r \in evRows : r.id <= walk.last => RightClass(r) \/ (walk.at = "update" /\ r \in walk.batch)

(* The batch on its way has every row from the cursor to its last, but for *)
(* those that were deleted since.                                          *)
BatchWhole ==
  /\ syncedTo \in 0 .. lastRowId /\ inFlight \in SUBSET EventRows
  /\ \A b \in inFlight : b.id <= lastRowId
  /\ \A b \in inFlight : \A r \in evRows :
       r.id > syncedTo /\ r.id <= b.id => \E c \in inFlight : c.id = r.id /\ c.key = r.key

ReparseInv ==
  RowsTyped /\ LogTyped /\ WalkTyped /\ BatchCurrent /\ WalkedRight /\ BatchWhole /\ SentIsSynced

LEMMA ReparseInitially ==
  ASSUME ReparseInit
  PROVE  ReparseInv
<1>1. /\ evRows = {} /\ lastRowId = 0 /\ syncedTo = 0 /\ inFlight = {} /\ IsFiniteSet({})
      /\ MaxRowIds \in Nat /\ LogLength \in Nat
  BY FS_EmptySet, ReparseAssumption DEF ReparseInit
<1>2. RowsTyped /\ BatchWhole /\ SentIsSynced
  BY <1>1 DEF RowsTyped, BatchWhole, SentIsSynced
<1>3. LogTyped
  BY <1>1 DEF LogTyped, ReparseInit
<1>4. WalkTyped /\ BatchCurrent /\ WalkedRight
  BY <1>1 DEF WalkTyped, BatchCurrent, WalkedRight, WalkFields, ReparseInit, NoWalk
<1>. QED  BY <1>2, <1>3, <1>4 DEF ReparseInv
-----------------------------------------------------------------------------
(* What a change of the rows leaves of the invariant.                      *)
LEMMA InsertedRows ==
  ASSUME RowsTyped, NEW key \in EventKeys, NEW class \in EventClasses, insert_event(key, class)
  PROVE  /\ RowsTyped' /\ lastRowId <= lastRowId' /\ evRows \subseteq evRows'
         /\ \A r \in evRows' : r \in evRows \/ r.id > lastRowId
<1>1. lastRowId \in Nat /\ MaxRowIds \in Nat
  BY ReparseAssumption DEF RowsTyped
<1>2. CASE key \in EvKeys
  <2>1. UNCHANGED <<evRows, lastRowId>>
    BY <1>2 DEF insert_event
  <2>. QED  BY <1>1, <2>1 DEF RowsTyped
<1>3. CASE key \notin EvKeys
  <2>. DEFINE row == [id |-> lastRowId + 1, key |-> key, line |-> key[2],
                      offset |-> key[3], class |-> class]
  <2>1. lastRowId < MaxRowIds /\ lastRowId' = lastRowId + 1 /\ evRows' = evRows \cup {row}
    BY <1>3 DEF insert_event
  <2>2. row \in EventRows /\ row.id = lastRowId + 1 /\ row.key = key
    <3>1. key[2] \in LogLines /\ key[3] \in Nat
      BY DEF EventKeys
    <3>. QED  BY <1>1, <3>1 DEF EventRows
  <2>3. \A r \in evRows : r.id \in Nat /\ r.id <= lastRowId /\ r.key # key
    BY <1>3 DEF RowsTyped, EventRows, EvKeys
  <2>. HIDE DEF row
  <2>4. IsFiniteSet(evRows')
    BY <2>1, FS_AddElement DEF RowsTyped
  <2>5. \A r, s \in evRows' : r # s => r.id # s.id /\ r.key # s.key
    BY <1>1, <2>1, <2>2, <2>3 DEF RowsTyped
  <2>6. \A r \in evRows' : r.id <= lastRowId'
    BY <1>1, <2>1, <2>2, <2>3
  <2>7. RowsTyped'
    BY <1>1, <2>1, <2>2, <2>4, <2>5, <2>6 DEF RowsTyped
  <2>. QED  BY <1>1, <2>1, <2>2, <2>7
<1>. QED  BY <1>2, <1>3

LEMMA BatchKept ==
  ASSUME RowsTyped, RowsTyped', BatchWhole, SentIsSynced, lastRowId <= lastRowId',
         UNCHANGED <<syncedTo, inFlight, serverKeys>>,
         \A r \in evRows' : r.id > lastRowId \/ \E s \in evRows : s.id = r.id /\ s.key = r.key
  PROVE  BatchWhole' /\ SentIsSynced'
<1>1. lastRowId \in Nat /\ lastRowId' \in Nat /\ syncedTo \in 0 .. lastRowId
  BY DEF RowsTyped, BatchWhole
<1>2. (\A r \in evRows : r.id \in Nat) /\ (\A r \in evRows' : r.id \in Nat)
      /\ (\A b \in inFlight : b.id \in Nat /\ b.id <= lastRowId)
  BY DEF RowsTyped, EventRows, BatchWhole
<1>3. \A b \in inFlight : \A r \in evRows' :
        r.id > syncedTo /\ r.id <= b.id => \E c \in inFlight : c.id = r.id /\ c.key = r.key
  <2>. SUFFICES ASSUME NEW b \in inFlight, NEW r \in evRows', r.id > syncedTo, r.id <= b.id
       PROVE \E c \in inFlight : c.id = r.id /\ c.key = r.key
    OBVIOUS
  <2>1. PICK s \in evRows : s.id = r.id /\ s.key = r.key
    BY <1>1, <1>2
  <2>. QED  BY <2>1 DEF BatchWhole
<1>4. BatchWhole'
  BY <1>1, <1>2, <1>3 DEF BatchWhole
<1>5. SentIsSynced'
  <2>. SUFFICES ASSUME NEW r \in evRows', r.id <= syncedTo  PROVE r.key \in serverKeys
    BY DEF SentIsSynced
  <2>1. PICK s \in evRows : s.id = r.id /\ s.key = r.key
    BY <1>1, <1>2
  <2>. QED  BY <2>1 DEF SentIsSynced
<1>. QED  BY <1>4, <1>5

LEMMA WalkKept ==
  ASSUME RowsTyped, RowsTyped', WalkTyped, BatchCurrent, WalkedRight, lastRowId <= lastRowId',
         UNCHANGED walk, \A r \in evRows' : r \in evRows \/ r.id > lastRowId
  PROVE  WalkTyped' /\ BatchCurrent' /\ WalkedRight'
<1>1. lastRowId \in Nat /\ lastRowId' \in Nat /\ walk.last \in 0 .. lastRowId
  BY DEF RowsTyped, WalkTyped
<1>2. \A r \in evRows' : r.id \in Nat
  BY DEF RowsTyped, EventRows
<1>3. WalkTyped'
  BY <1>1 DEF WalkTyped
<1>4. BatchCurrent'
  <2>. SUFFICES ASSUME walk.at = "update", NEW b \in walk.batch, NEW r \in evRows', r.id = b.id
       PROVE r = b
    BY DEF BatchCurrent
  <2>1. b.id <= walk.last /\ b.id \in Nat
    BY DEF BatchCurrent, EventRows
  <2>2. r \in evRows
    BY <1>1, <1>2, <2>1
  <2>. QED  BY <2>2 DEF BatchCurrent
<1>5. WalkedRight'
  <2>. SUFFICES ASSUME walk.at \in {"read", "update", "promote", "forget"}, NEW r \in evRows', r.id <= walk.last
       PROVE RightClass(r) \/ (walk.at = "update" /\ r \in walk.batch)
    BY DEF WalkedRight, RightClass
  <2>1. r \in evRows
    BY <1>1, <1>2
  <2>. QED  BY <2>1 DEF WalkedRight
<1>. QED  BY <1>3, <1>4, <1>5
-----------------------------------------------------------------------------
(* The tail, the rules and the re-ingest leave the walk alone.             *)
LEMMA InsertKept ==
  ASSUME ReparseInv, NEW key \in EventKeys, NEW class \in EventClasses,
         insert_event(key, class) \/ UNCHANGED <<evRows, lastRowId>>,
         UNCHANGED <<syncedTo, inFlight, serverKeys>>
  PROVE  /\ RowsTyped' /\ lastRowId <= lastRowId'
         /\ \A r \in evRows' : r \in evRows \/ r.id > lastRowId
         /\ BatchWhole' /\ SentIsSynced'
<1>1. /\ RowsTyped' /\ lastRowId <= lastRowId'
      /\ \A r \in evRows' : r \in evRows \/ r.id > lastRowId
  <2>1. CASE insert_event(key, class)
    BY <2>1, InsertedRows DEF ReparseInv
  <2>2. CASE UNCHANGED <<evRows, lastRowId>>
    BY <2>2, ReparseAssumption DEF ReparseInv, RowsTyped
  <2>. QED  BY <2>1, <2>2
<1>. QED  BY <1>1, BatchKept DEF ReparseInv

LEMMA IngestKept ==
  ASSUME ReparseInv, NEW p \in LogLines, NEW r \in 0 .. 1, ingest_one_line(p, r),
         UNCHANGED <<syncedTo, inFlight, serverKeys>>
  PROVE  /\ RowsTyped' /\ lastRowId <= lastRowId' /\ sample' \in 0 .. LogLength
         /\ \A s \in evRows' : s \in evRows \/ s.id > lastRowId
         /\ BatchWhole' /\ SentIsSynced'
<1>1. LineKey(p) \in EventKeys /\ Class(p, r) \in EventClasses /\ p \in 0 .. LogLength /\ p \in Nat
  BY ReparseAssumption DEF LineKey, EventKeys, Class, EventClasses, LogLines
<1>2. insert_event(LineKey(p), Class(p, r)) \/ UNCHANGED <<evRows, lastRowId>>
  BY DEF ingest_one_line
<1>3. sample' = sample \/ sample' = p
  BY DEF ingest_one_line, record_unknown
<1>4. sample' \in 0 .. LogLength
  BY <1>1, <1>3 DEF ReparseInv, LogTyped
<1>. QED  BY <1>1, <1>2, <1>4, InsertKept

LEMMA TailStep ==
  ASSUME ReparseInv, TailLine \/ TailBurst \/ FetchRules \/ ReingestStart \/ ReingestLine
  PROVE  ReparseInv'
<1>0. LogLength \in Nat /\ ingested \in 0 .. LogLength /\ ruleSet \in 0 .. 1
      /\ rewalk \in [next : 0 .. LogLength, rules : 0 .. 1] /\ rewalk.next <= ingested
      /\ sample \in 0 .. LogLength
  BY ReparseAssumption DEF ReparseInv, LogTyped
<1>1. CASE TailLine
  <2>1. /\ ingested' = ingested + 1 /\ ingested + 1 \in LogLines
        /\ ingest_one_line(ingested + 1, ruleSet)
        /\ UNCHANGED <<ruleSet, syncedTo, inFlight, serverKeys, walk, rewalk>>
    BY <1>0, <1>1 DEF TailLine, LogLines
  <2>2. /\ RowsTyped' /\ lastRowId <= lastRowId' /\ sample' \in 0 .. LogLength
        /\ \A s \in evRows' : s \in evRows \/ s.id > lastRowId
        /\ BatchWhole' /\ SentIsSynced'
    BY <1>0, <2>1, IngestKept
  <2>3. LogTyped'
    BY <1>0, <2>1, <2>2 DEF LogTyped, LogLines
  <2>. QED  BY <2>1, <2>2, <2>3, WalkKept DEF ReparseInv
<1>2. CASE TailBurst
  <2>. DEFINE BKey(n) == BurstKey([line |-> ingested + 1, offset |-> ingested + 1], n)
  <2>1. PICK n \in MinBurst .. LogLength :
          /\ (ingested + 1) .. (ingested + n) \subseteq BurstLines
          /\ insert_event(BKey(n), "summary") /\ ingested' = ingested + n
    BY <1>2 DEF TailBurst
  <2>2. UNCHANGED <<ruleSet, sample, syncedTo, inFlight, serverKeys, walk, rewalk>>
    BY <1>2 DEF TailBurst
  <2>3. n \in Nat /\ n >= 1 /\ ingested + n \in LogLines /\ ingested + 1 \in LogLines
    BY <1>0, <2>1, ReparseAssumption DEF LogLines
  <2>4. BKey(n) \in EventKeys /\ "summary" \in EventClasses
    BY <1>0, <2>3 DEF BurstKey, EventKeys, EventClasses
  <2>5. /\ RowsTyped' /\ lastRowId <= lastRowId'
        /\ \A r \in evRows' : r \in evRows \/ r.id > lastRowId
        /\ BatchWhole' /\ SentIsSynced'
    BY <2>1, <2>2, <2>4, InsertKept
  <2>6. LogTyped'
    BY <1>0, <2>1, <2>2, <2>3 DEF LogTyped, LogLines
  <2>. QED  BY <2>2, <2>5, <2>6, WalkKept DEF ReparseInv
<1>3. CASE FetchRules \/ ReingestStart
  <2>1. UNCHANGED <<evRows, lastRowId, sample, ingested, syncedTo, inFlight, serverKeys, walk>>
    BY <1>3 DEF FetchRules, ReingestStart
  <2>2. LogTyped'
    <3>1. CASE FetchRules
      BY <1>0, <2>1, <3>1 DEF FetchRules, LogTyped
    <3>2. CASE ReingestStart
      BY <1>0, <2>1, <3>2 DEF ReingestStart, LogTyped
    <3>. QED  BY <1>3, <3>1, <3>2
  <2>. QED  BY <2>1, <2>2 DEF ReparseInv, RowsTyped, WalkTyped, BatchCurrent, WalkedRight,
                              RightClass, BatchWhole, SentIsSynced
<1>4. CASE ReingestLine
  <2>1. /\ rewalk.next > 0 /\ ingest_one_line(rewalk.next, rewalk.rules)
        /\ rewalk' = [rewalk EXCEPT !.next = IF rewalk.next = ingested THEN 0 ELSE rewalk.next + 1]
        /\ UNCHANGED <<ingested, ruleSet, syncedTo, inFlight, serverKeys, walk>>
    BY <1>4 DEF ReingestLine
  <2>2. rewalk.next \in LogLines /\ rewalk.rules \in 0 .. 1
    BY <1>0, <2>1 DEF LogLines
  <2>3. /\ RowsTyped' /\ lastRowId <= lastRowId' /\ sample' \in 0 .. LogLength
        /\ \A s \in evRows' : s \in evRows \/ s.id > lastRowId
        /\ BatchWhole' /\ SentIsSynced'
    BY <2>1, <2>2, IngestKept
  <2>4. LogTyped'
    BY <1>0, <2>1, <2>3 DEF LogTyped
  <2>. QED  BY <2>1, <2>3, <2>4, WalkKept DEF ReparseInv
<1>. QED  BY <1>1, <1>2, <1>3, <1>4
-----------------------------------------------------------------------------
(* The sync worker and the end of the tray.                                *)
LEMMA SyncSteps ==
  ASSUME ReparseInv, SyncRead \/ SyncAnswered
  PROVE  ReparseInv'
<1>1. UNCHANGED <<ingested, ruleSet, evRows, lastRowId, sample, walk, rewalk>>
  BY DEF SyncRead, SyncAnswered
<1>2. RowsTyped' /\ LogTyped' /\ WalkTyped' /\ BatchCurrent' /\ WalkedRight'
  BY <1>1 DEF ReparseInv, RowsTyped, LogTyped, WalkTyped, BatchCurrent, WalkedRight, RightClass
<1>3. lastRowId \in Nat /\ syncedTo \in 0 .. lastRowId /\ inFlight \in SUBSET EventRows
      /\ \A r \in evRows : r \in EventRows /\ r.id <= lastRowId /\ r.id \in Nat
  BY DEF ReparseInv, RowsTyped, BatchWhole, EventRows
<1>4. CASE SyncRead
  <2>1. inFlight' = {r \in evRows : r.id > syncedTo} /\ UNCHANGED <<syncedTo, serverKeys>>
    BY <1>4 DEF SyncRead
  <2>2. BatchWhole'
    BY <1>1, <1>3, <2>1 DEF BatchWhole
  <2>3. SentIsSynced'
    BY <1>1, <2>1 DEF ReparseInv, SentIsSynced
  <2>. QED  BY <1>2, <2>2, <2>3 DEF ReparseInv
<1>5. CASE SyncAnswered
  <2>. DEFINE ids == {r.id : r \in inFlight}
  <2>0. inFlight' = {}
    BY <1>5 DEF SyncAnswered
  <2>1. CASE UNCHANGED <<serverKeys, syncedTo>>
    <3>1. BatchWhole'
      BY <1>1, <1>3, <2>0, <2>1 DEF BatchWhole
    <3>2. SentIsSynced'
      BY <1>1, <2>1 DEF ReparseInv, SentIsSynced
    <3>. QED  BY <1>2, <3>1, <3>2 DEF ReparseInv
  <2>2. CASE serverKeys' = serverKeys \cup {r.key : r \in inFlight} /\ syncedTo' = Max(ids)
    <3>1. ids \in SUBSET (0 .. lastRowId) /\ ids # {}
      BY <1>3, <1>5 DEF SyncAnswered, ReparseInv, BatchWhole, EventRows
    <3>2. Max(ids) \in ids
      <4>. HIDE DEF ids
      <4>. QED  BY <1>3, <3>1, GreatestNat
    <3>3. PICK b \in inFlight : b.id = syncedTo'
      BY <2>2, <3>2
    <3>4. BatchWhole'
      BY <1>1, <1>3, <2>0, <2>2, <3>1, <3>2 DEF BatchWhole
    <3>5. SentIsSynced'
      <4>. SUFFICES ASSUME NEW r \in evRows, r.id <= syncedTo'  PROVE r.key \in serverKeys'
        BY <1>1 DEF SentIsSynced
      <4>1. CASE r.id <= syncedTo
        BY <2>2, <4>1 DEF ReparseInv, SentIsSynced
      <4>2. CASE r.id > syncedTo
        <5>1. PICK c \in inFlight : c.id = r.id /\ c.key = r.key
          BY <3>3, <4>2 DEF ReparseInv, BatchWhole
        <5>. QED  BY <2>2, <5>1
      <4>. QED  BY <1>3, <4>1, <4>2
    <3>. QED  BY <1>2, <3>4, <3>5 DEF ReparseInv
  <2>. QED  BY <1>5, <2>1, <2>2 DEF SyncAnswered
<1>. QED  BY <1>4, <1>5

(* A walk that is over, or that goes on in a phase after the first.        *)
LEMMA WalkOver ==
  ASSUME walk' = NoWalk, lastRowId' \in Nat
  PROVE  WalkTyped' /\ BatchCurrent' /\ WalkedRight'
<1>1. /\ DOMAIN NoWalk = WalkFields /\ NoWalk.at = "off" /\ NoWalk.rules = 0 /\ NoWalk.last = 0
      /\ NoWalk.promote = 0 /\ NoWalk.hits = {}
  BY DEF NoWalk, WalkFields
<1>. QED  BY <1>1, ReparseAssumption DEF WalkTyped, BatchCurrent, WalkedRight

LEMMA TrayEndsStep ==
  ASSUME ReparseInv, TrayEnds
  PROVE  ReparseInv'
<1>1. /\ walk' = NoWalk /\ rewalk' = [next |-> 0, rules |-> 0] /\ inFlight' = {}
      /\ UNCHANGED <<ingested, ruleSet, evRows, lastRowId, sample, syncedTo, serverKeys>>
  BY DEF TrayEnds
<1>2. RowsTyped' /\ lastRowId' \in Nat /\ SentIsSynced'
  BY <1>1 DEF ReparseInv, RowsTyped, SentIsSynced
<1>3. LogTyped'
  BY <1>1, ReparseAssumption DEF ReparseInv, LogTyped
<1>4. BatchWhole'
  BY <1>1 DEF ReparseInv, BatchWhole
<1>. QED  BY <1>1, <1>2, <1>3, <1>4, WalkOver DEF ReparseInv
-----------------------------------------------------------------------------
(* The walk: a field it is not told to change stays.                       *)
LEMMA WalkToFields ==
  ASSUME NEW fields, WalkTo(fields), DOMAIN walk = WalkFields, DOMAIN fields \subseteq WalkFields
  PROVE  /\ DOMAIN walk' = WalkFields
         /\ \A f \in WalkFields : walk'[f] = IF f \in DOMAIN fields THEN fields[f] ELSE walk[f]
BY DEF WalkTo

LEMMA FirstRowsFacts ==
  ASSUME NEW S \in SUBSET EventRows, IsFiniteSet(S)
  PROVE  /\ FirstRows(S) \subseteq S
         /\ FirstRows(S) = {} => S = {}
         /\ \A m \in FirstRows(S) : \A r \in S : r.id <= m.id => r \in FirstRows(S)
<1>. DEFINE Below(r) == {s \in S : s.id < r.id}
<1>1. \A r \in S : r.id \in Nat
  BY DEF EventRows
<1>2. \A r \in S : IsFiniteSet(Below(r)) /\ Cardinality(Below(r)) \in Nat
  <2>1. \A r \in S : Below(r) \subseteq S
    OBVIOUS
  <2>. QED  BY <2>1, FS_Subset, FS_CardinalityType
<1>3. FirstRows(S) = {r \in S : Cardinality(Below(r)) < PageSize}
  BY DEF FirstRows
<1>4. FirstRows(S) # {} \/ S = {}
  <2>. SUFFICES ASSUME S # {}  PROVE FirstRows(S) # {}
    OBVIOUS
  <2>. DEFINE ids == {r.id : r \in S}
  <2>1. ids \in SUBSET Nat /\ ids # {}
    BY <1>1
  <2>2. \E x \in ids : \A y \in ids : x <= y
    <3>. HIDE DEF ids
    <3>. QED  BY <2>1, LeastNat
  <2>3. PICK a \in S : \A r \in S : a.id <= r.id
    BY <2>2
  <2>4. Below(a) = {}
    BY <1>1, <2>3
  <2>5. Cardinality(Below(a)) = 0
    BY <2>4, FS_EmptySet
  <2>. QED  BY <1>3, <2>5, ReparseAssumption
<1>5. ASSUME NEW m \in FirstRows(S), NEW r \in S, r.id <= m.id  PROVE r \in FirstRows(S)
  <2>1. m \in S /\ Cardinality(Below(m)) < PageSize
    BY <1>3, <1>5
  <2>2. Below(r) \subseteq Below(m)
    BY <1>1, <1>5, <2>1
  <2>3. Cardinality(Below(r)) <= Cardinality(Below(m))
    BY <1>2, <2>1, <2>2, FS_Subset
  <2>4. Cardinality(Below(r)) \in Nat /\ Cardinality(Below(m)) \in Nat /\ PageSize \in Nat
    BY <1>2, <2>1, ReparseAssumption
  <2>5. Cardinality(Below(r)) < PageSize
    <3>. HIDE DEF Below
    <3>. QED  BY <2>1, <2>3, <2>4
  <2>. QED  BY <1>3, <2>5
<1>. QED  BY <1>3, <1>4, <1>5

LEMMA StartStep ==
  ASSUME ReparseInv, ReparseStart
  PROVE  ReparseInv'
<1>1. /\ walk' = [NoWalk EXCEPT !.at = "read", !.rules = ruleSet]
      /\ UNCHANGED <<ingested, ruleSet, evRows, lastRowId, sample, syncedTo, inFlight, serverKeys, rewalk>>
  BY DEF ReparseStart
<1>2. /\ DOMAIN walk' = WalkFields /\ walk'.at = "read" /\ walk'.rules = ruleSet /\ walk'.last = 0
      /\ walk'.promote = 0 /\ walk'.hits = {}
  BY <1>1 DEF NoWalk, WalkFields
<1>3. lastRowId \in Nat /\ ruleSet \in 0 .. 1 /\ LogLength \in Nat /\ \A r \in evRows : r.id \in Nat /\ r.id > 0
  BY ReparseAssumption DEF ReparseInv, RowsTyped, LogTyped, EventRows
<1>4. WalkTyped' /\ BatchCurrent' /\ WalkedRight'
  BY <1>1, <1>2, <1>3 DEF WalkTyped, BatchCurrent, WalkedRight
<1>. QED  BY <1>1, <1>4 DEF ReparseInv, RowsTyped, LogTyped, BatchWhole, SentIsSynced

(* A page: the rows behind the last one, as far as its own last one.       *)
LEMMA ReadBatchStep ==
  ASSUME ReparseInv, ReadBatch
  PROVE  ReparseInv'
<1>1. /\ walk.at = "read"
      /\ UNCHANGED <<ingested, ruleSet, evRows, lastRowId, sample, syncedTo, inFlight, serverKeys, rewalk>>
  BY DEF ReadBatch
<1>2. RowsTyped' /\ LogTyped' /\ BatchWhole' /\ SentIsSynced'
  BY <1>1 DEF ReparseInv, RowsTyped, LogTyped, BatchWhole, SentIsSynced
<1>3. /\ lastRowId \in Nat /\ walk.last \in 0 .. lastRowId /\ DOMAIN walk = WalkFields
      /\ \A r \in evRows : r \in EventRows /\ r.id \in Nat /\ r.id <= lastRowId
  BY DEF ReparseInv, RowsTyped, WalkTyped, EventRows
<1>. DEFINE ahead == {r \in evRows : r.id > walk.last}
            firstRows == FirstRows(ahead)
<1>4. /\ firstRows \subseteq ahead /\ (firstRows = {} => ahead = {})
      /\ \A m \in firstRows : \A r \in ahead : r.id <= m.id => r \in firstRows
  <2>1. ahead \in SUBSET EventRows /\ ahead \subseteq evRows
    BY <1>3
  <2>2. IsFiniteSet(ahead)
    BY <2>1, FS_Subset DEF ReparseInv, RowsTyped
  <2>. HIDE DEF ahead
  <2>. QED  BY <2>1, <2>2, FirstRowsFacts
<1>5. Page.batch = firstRows /\ (firstRows # {} => Page.last = Max({r.id : r \in firstRows}))
  BY DEF Page
<1>. HIDE DEF firstRows
<1>6. CASE firstRows = {}
  <2>1. WalkTo([at |-> "promote", promote |-> sample])
    BY <1>5, <1>6 DEF ReadBatch
  <2>2. /\ DOMAIN walk' = WalkFields /\ walk'.at = "promote" /\ walk'.promote = sample
        /\ walk'.rules = walk.rules /\ walk'.last = walk.last /\ walk'.hits = walk.hits
    BY <1>3, <2>1, WalkToFields DEF WalkFields
  <2>3. WalkTyped' /\ BatchCurrent'
    BY <1>1, <2>2 DEF ReparseInv, LogTyped, WalkTyped, BatchCurrent
  <2>4. WalkedRight'
    BY <1>1, <2>2 DEF ReparseInv, WalkedRight, RightClass
  <2>. QED  BY <1>2, <2>3, <2>4 DEF ReparseInv
<1>7. CASE firstRows # {}
  <2>1. WalkTo([at |-> "update", batch |-> Page.batch, last |-> Page.last])
    BY <1>5, <1>7 DEF ReadBatch
  <2>2. /\ DOMAIN walk' = WalkFields /\ walk'.at = "update" /\ walk'.batch = firstRows
        /\ walk'.last = Max({r.id : r \in firstRows})
        /\ walk'.rules = walk.rules /\ walk'.promote = walk.promote /\ walk'.hits = walk.hits
    <3>1. /\ DOMAIN walk' = WalkFields /\ walk'.at = "update" /\ walk'.batch = Page.batch
          /\ walk'.last = Page.last
          /\ walk'.rules = walk.rules /\ walk'.promote = walk.promote /\ walk'.hits = walk.hits
      BY <1>3, <2>1, WalkToFields DEF WalkFields
    <3>. QED  BY <1>5, <1>7, <3>1
  <2>3. walk'.last \in 0 .. lastRowId /\ (\A b \in firstRows : b.id <= walk'.last)
        /\ \E m \in firstRows : m.id = walk'.last
    <3>. DEFINE ids == {r.id : r \in firstRows}
    <3>1. ids \in SUBSET (0 .. lastRowId) /\ ids # {}
      BY <1>3, <1>4, <1>7
    <3>2. Max(ids) \in ids /\ \A x \in ids : x <= Max(ids)
      <4>. HIDE DEF ids
      <4>. QED  BY <1>3, <3>1, GreatestNat
    <3>3. walk'.last = Max(ids)
      BY <2>2
    <3>. QED  BY <3>1, <3>2, <3>3
  <2>4. WalkTyped'
    BY <1>1, <2>2, <2>3 DEF ReparseInv, WalkTyped
  <2>5. BatchCurrent'
    <3>1. firstRows \subseteq evRows /\ firstRows \in SUBSET EventRows
      BY <1>3, <1>4
    <3>2. \A b, c \in evRows : b.id = c.id => b = c
      BY DEF ReparseInv, RowsTyped
    <3>. QED  BY <1>1, <2>2, <2>3, <3>1, <3>2 DEF BatchCurrent
  <2>6. WalkedRight'
    <3>. SUFFICES ASSUME NEW r \in evRows, r.id <= walk'.last, r \notin firstRows
         PROVE RightClass(r)'
      BY <1>1, <2>2 DEF WalkedRight
    <3>1. r.id <= walk.last
      <4>1. PICK m \in firstRows : m.id = walk'.last
        BY <2>3
      <4>2. r \notin ahead
        BY <1>4, <4>1
      <4>. QED  BY <1>3, <4>2
    <3>2. RightClass(r)
      BY <1>1, <3>1 DEF ReparseInv, WalkedRight
    <3>. QED  BY <2>2, <3>2 DEF RightClass
  <2>. QED  BY <1>2, <2>4, <2>5, <2>6 DEF ReparseInv
<1>. QED  BY <1>6, <1>7
-----------------------------------------------------------------------------
LEMMA UpdateRowStep ==
  ASSUME ReparseInv, UpdateRow
  PROVE  ReparseInv'
<1>0. PICK row \in walk.batch :
        /\ IF Recognised(row.line, walk.rules) /\ Class(row.line, walk.rules) # row.class
             THEN update_event_classification(row.id, Class(row.line, walk.rules))
             ELSE UNCHANGED evRows
        /\ WalkTo([batch |-> walk.batch \ {row},
                   at |-> IF walk.batch = {row} THEN "read" ELSE "update"])
  BY DEF UpdateRow
<1>1. /\ walk.at = "update"
      /\ UNCHANGED <<ingested, ruleSet, lastRowId, sample, syncedTo, inFlight, serverKeys, rewalk>>
  BY DEF UpdateRow
<1>2. /\ lastRowId \in Nat /\ DOMAIN walk = WalkFields /\ row \in EventRows
      /\ \A r \in evRows : r \in EventRows /\ (r.id = row.id => r = row)
  BY <1>1 DEF ReparseInv, RowsTyped, WalkTyped, BatchCurrent
<1>3. /\ DOMAIN walk' = WalkFields /\ walk'.batch = walk.batch \ {row}
      /\ walk'.at = (IF walk.batch = {row} THEN "read" ELSE "update")
      /\ walk'.rules = walk.rules /\ walk'.last = walk.last
      /\ walk'.promote = walk.promote /\ walk'.hits = walk.hits
  BY <1>0, <1>2, WalkToFields DEF WalkFields
<1>. DEFINE class == Class(row.line, walk.rules)
            new(r) == IF r.id = row.id THEN [r EXCEPT !.class = class] ELSE r
<1>4. class \in EventClasses
  BY DEF Class, EventClasses
<1>5. \/ UNCHANGED evRows /\ (Recognised(row.line, walk.rules) => class = row.class)
      \/ evRows' = {new(r) : r \in evRows}
  BY <1>0 DEF update_event_classification
<1>. HIDE DEF class
<1>6. \A r \in evRows : /\ new(r) \in EventRows /\ new(r).id = r.id /\ new(r).key = r.key
                        /\ new(r).line = r.line
                        /\ r.id = row.id => new(r).class = class
                        /\ r.id # row.id => new(r) = r
  BY <1>2, <1>4 DEF EventRows
<1>. HIDE DEF new
<1>7. \A r \in evRows' : \E s \in evRows :
        /\ r \in EventRows /\ r.id = s.id /\ r.key = s.key /\ r.line = s.line
        /\ s.id = row.id => (Recognised(row.line, walk.rules) => r.class = class)
        /\ s.id # row.id => r = s
  <2>1. CASE UNCHANGED evRows /\ (Recognised(row.line, walk.rules) => class = row.class)
    BY <1>2, <2>1
  <2>2. CASE evRows' = {new(r) : r \in evRows}
    BY <1>6, <2>2
  <2>. QED  BY <1>5, <2>1, <2>2
<1>8. RowsTyped'
  <2>1. IsFiniteSet(evRows')
    <3>1. CASE UNCHANGED evRows
      BY <3>1 DEF ReparseInv, RowsTyped
    <3>2. CASE evRows' = {new(r) : r \in evRows}
      <4>1. \A r \in evRows' : r \in evRows \cup {new(row)}
        BY <1>2, <1>6, <3>2
      <4>2. IsFiniteSet(evRows \cup {new(row)})
        BY FS_AddElement DEF ReparseInv, RowsTyped
      <4>. QED  BY <4>1, <4>2, FS_Subset
    <3>. QED  BY <1>5, <3>1, <3>2
  <2>2. \A r, s \in evRows' : r # s => r.id # s.id /\ r.key # s.key
    <3>1. CASE UNCHANGED evRows
      BY <3>1 DEF ReparseInv, RowsTyped
    <3>2. CASE evRows' = {new(r) : r \in evRows}
      BY <1>6, <3>2 DEF ReparseInv, RowsTyped
    <3>. QED  BY <1>5, <3>1, <3>2
  <2>3. evRows' \in SUBSET EventRows /\ \A r \in evRows' : r.id <= lastRowId
    BY <1>7 DEF ReparseInv, RowsTyped
  <2>. QED  BY <1>1, <2>1, <2>2, <2>3 DEF ReparseInv, RowsTyped
<1>9. BatchWhole' /\ SentIsSynced'
  <2>1. \A r \in evRows' : \E s \in evRows : s.id = r.id /\ s.key = r.key
    BY <1>7
  <2>2. lastRowId <= lastRowId'
    BY <1>1, <1>2
  <2>. QED  BY <1>1, <1>8, <2>1, <2>2, BatchKept DEF ReparseInv
<1>10. LogTyped' /\ WalkTyped'
  BY <1>1, <1>3 DEF ReparseInv, LogTyped, WalkTyped
<1>11. BatchCurrent'
  <2>1. /\ walk.batch \in SUBSET EventRows
        /\ \A b \in walk.batch : b.id <= walk.last
        /\ \A b, c \in walk.batch : b.id = c.id => b = c
        /\ \A b \in walk.batch : \A r \in evRows : r.id = b.id => r = b
    BY <1>1 DEF ReparseInv, BatchCurrent
  <2>2. \A b \in walk.batch \ {row} : \A r \in evRows' : r.id = b.id => r = b
    <3>. SUFFICES ASSUME NEW b \in walk.batch \ {row}, NEW r \in evRows', r.id = b.id
         PROVE r = b
      OBVIOUS
    <3>1. PICK s \in evRows : r.id = s.id /\ (s.id # row.id => r = s)
      BY <1>7
    <3>2. s = b
      BY <2>1, <3>1
    <3>3. b.id # row.id
      BY <2>1
    <3>. QED  BY <3>1, <3>2, <3>3
  <2>. QED  BY <1>3, <2>1, <2>2 DEF BatchCurrent
<1>12. WalkedRight'
  <2>. SUFFICES ASSUME NEW r \in evRows', r.id <= walk.last
       PROVE RightClass(r)' \/ (walk'.at = "update" /\ r \in walk'.batch)
    BY <1>3 DEF WalkedRight
  <2>1. PICK s \in evRows :
          /\ r.id = s.id /\ r.line = s.line
          /\ s.id = row.id => (Recognised(row.line, walk.rules) => r.class = class)
          /\ s.id # row.id => r = s
    BY <1>7
  <2>2. CASE s.id = row.id
    <3>1. s = row /\ r.line = row.line
      BY <1>2, <2>1, <2>2
    <3>2. Recognised(row.line, walk.rules) => r.class = Class(r.line, walk.rules)
      BY <2>1, <2>2, <3>1 DEF class
    <3>. QED  BY <1>3, <3>1, <3>2 DEF RightClass
  <2>3. CASE s.id # row.id
    <3>1. r \in evRows /\ r.id # row.id
      BY <2>1, <2>3
    <3>2. RightClass(r) \/ r \in walk.batch
      BY <1>1, <3>1 DEF ReparseInv, WalkedRight
    <3>3. CASE RightClass(r)
      BY <1>3, <3>3 DEF RightClass
    <3>4. CASE r \in walk.batch
      <4>1. r # row /\ walk.batch # {row}
        BY <3>1, <3>4
      <4>. QED  BY <1>3, <3>4, <4>1
    <3>. QED  BY <3>2, <3>3, <3>4
  <2>. QED  BY <2>2, <2>3
<1>. QED  BY <1>8, <1>9, <1>10, <1>11, <1>12 DEF ReparseInv

LEMMA PromoteStep ==
  ASSUME ReparseInv, Promote
  PROVE  ReparseInv'
<1>1. /\ walk.at = "promote"
      /\ UNCHANGED <<ingested, ruleSet, sample, syncedTo, inFlight, serverKeys, rewalk>>
  BY DEF Promote
<1>2. lastRowId \in Nat /\ DOMAIN walk = WalkFields /\ walk.promote \in 0 .. LogLength /\ LogLength \in Nat
      /\ walk.last \in 0 .. lastRowId
  BY ReparseAssumption DEF ReparseInv, RowsTyped, WalkTyped
<1>3. PICK p, c : p = walk.promote /\ c = Class(walk.promote, walk.rules)
  OBVIOUS
<1>4. /\ \/ p \in LogLines /\ insert_event(SampleKey(p), c)
         \/ UNCHANGED <<evRows, lastRowId>>
      /\ WalkTo([at |-> "forget"]) \/ WalkTo([at |-> "scan"])
  BY <1>2, <1>3 DEF Promote, LogLines
<1>5. /\ RowsTyped' /\ lastRowId <= lastRowId'
      /\ \A r \in evRows' : r \in evRows \/ r.id > lastRowId
      /\ BatchWhole' /\ SentIsSynced'
  <2>1. c \in EventClasses
    BY <1>3 DEF Class, EventClasses
  <2>2. CASE p \in LogLines /\ insert_event(SampleKey(p), c)
    <3>1. SampleKey(p) \in EventKeys
      BY <1>2, <2>2 DEF SampleKey, EventKeys
    <3>. QED  BY <1>1, <2>1, <2>2, <3>1, InsertKept
  <2>3. CASE UNCHANGED <<evRows, lastRowId>>
    <3>1. RowsTyped' /\ BatchWhole' /\ SentIsSynced'
      BY <1>1, <2>3 DEF ReparseInv, RowsTyped, BatchWhole, SentIsSynced
    <3>. QED  BY <1>2, <2>3, <3>1
  <2>. QED  BY <1>4, <2>2, <2>3
<1>6. /\ DOMAIN walk' = WalkFields /\ walk'.at \in {"forget", "scan"}
      /\ walk'.rules = walk.rules /\ walk'.last = walk.last
      /\ walk'.promote = walk.promote /\ walk'.hits = walk.hits
  BY <1>2, <1>4, WalkToFields DEF WalkFields
<1>7. LogTyped' /\ WalkTyped' /\ BatchCurrent'
  <2>1. lastRowId' \in Nat
    BY <1>5 DEF RowsTyped
  <2>. QED  BY <1>1, <1>2, <1>5, <1>6, <2>1 DEF ReparseInv, LogTyped, WalkTyped, BatchCurrent
<1>8. WalkedRight'
  <2>. SUFFICES ASSUME NEW r \in evRows', r.id <= walk.last
       PROVE RightClass(r)'
    BY <1>6 DEF WalkedRight
  <2>1. r \in evRows
    <3>1. r.id \in Nat
      BY <1>5 DEF RowsTyped, EventRows
    <3>. QED  BY <1>2, <1>5, <3>1
  <2>2. RightClass(r)
    BY <1>1, <2>1 DEF ReparseInv, WalkedRight
  <2>. QED  BY <1>6, <2>2 DEF RightClass
<1>. QED  BY <1>5, <1>7, <1>8 DEF ReparseInv

LEMMA ForgetStep ==
  ASSUME ReparseInv, ForgetSample
  PROVE  ReparseInv'
<1>1. /\ WalkTo([at |-> "scan"]) /\ sample' = 0
      /\ UNCHANGED <<ingested, ruleSet, evRows, lastRowId, syncedTo, inFlight, serverKeys, rewalk>>
  BY DEF ForgetSample, delete_unknown
<1>2. /\ DOMAIN walk' = WalkFields /\ walk'.at = "scan"
      /\ walk'.rules = walk.rules /\ walk'.last = walk.last
      /\ walk'.promote = walk.promote /\ walk'.hits = walk.hits
  BY <1>1, WalkToFields DEF WalkFields, ReparseInv, WalkTyped
<1>3. RowsTyped' /\ BatchWhole' /\ SentIsSynced'
  BY <1>1 DEF ReparseInv, RowsTyped, BatchWhole, SentIsSynced
<1>4. LogTyped' /\ WalkTyped' /\ BatchCurrent' /\ WalkedRight'
  BY <1>1, <1>2, ReparseAssumption DEF ReparseInv, LogTyped, WalkTyped, BatchCurrent, WalkedRight
<1>. QED  BY <1>3, <1>4 DEF ReparseInv
-----------------------------------------------------------------------------
(* The rows of the scan have a first one, and so does each run of them: a  *)
(* summary's key is made from a row.                                       *)
LEMMA RunAnchor ==
  ASSUME RowsTyped, NEW run \in SUBSET evRows, run # {}
  PROVE  \E a \in run : \A b \in run \ {a} : Before(a, b)
<1>1. \A r \in run : r.id \in Nat /\ r.offset \in Nat
  BY DEF RowsTyped, EventRows
<1>. DEFINE offsets == {r.offset : r \in run}
<1>2. PICK m \in Nat : (\E r \in run : r.offset = m) /\ \A r \in run : m <= r.offset
  <2>1. offsets \in SUBSET Nat /\ offsets # {}
    BY <1>1
  <2>2. \E x \in offsets : \A y \in offsets : x <= y
    <3>. HIDE DEF offsets
    <3>. QED  BY <2>1, LeastNat
  <2>. QED  BY <2>1, <2>2
<1>. DEFINE ids == {r.id : r \in {s \in run : s.offset = m}}
<1>3. PICK a \in run : a.offset = m /\ \A r \in run : r.offset = m => a.id <= r.id
  <2>1. ids \in SUBSET Nat /\ ids # {}
    BY <1>1, <1>2
  <2>2. \E x \in ids : \A y \in ids : x <= y
    <3>. HIDE DEF ids
    <3>. QED  BY <2>1, LeastNat
  <2>. QED  BY <2>1, <2>2
<1>4. \A b \in run \ {a} : b.id # a.id
  BY DEF RowsTyped
<1>5. \A b \in run \ {a} : Before(a, b)
  BY <1>1, <1>2, <1>3, <1>4 DEF Before
<1>. QED  BY <1>5

LEMMA HitKeys ==
  ASSUME RowsTyped, NEW run \in RunsOf(events_for_burst_scan)
  PROVE  Hit(run).key \in EventKeys
<1>1. run \in SUBSET evRows /\ Cardinality(run) >= MinBurst
  BY DEF RunsOf, events_for_burst_scan
<1>2. IsFiniteSet(run) /\ Cardinality(run) \in Nat
  BY <1>1, FS_Subset, FS_CardinalityType DEF RowsTyped
<1>3. run # {}
  BY <1>1, FS_EmptySet, ReparseAssumption
<1>. DEFINE anchor == CHOOSE a \in run : \A b \in run \ {a} : Before(a, b)
<1>4. anchor \in run
  BY <1>1, <1>3, RunAnchor
<1>5. Hit(run).key = BurstKey(anchor, Cardinality(run))
  BY DEF Hit
<1>. HIDE DEF anchor
<1>6. anchor.line \in LogLines /\ anchor.offset \in Nat
  BY <1>1, <1>4 DEF RowsTyped, EventRows
<1>. QED  BY <1>2, <1>5, <1>6 DEF BurstKey, EventKeys

LEMMA ScanStep ==
  ASSUME ReparseInv, ScanBursts
  PROVE  ReparseInv'
<1>. DEFINE hits == {Hit(run) : run \in RunsOf(events_for_burst_scan)}
<1>1. /\ walk' = NoWalk \/ WalkTo([at |-> "fold", hits |-> hits])
      /\ UNCHANGED <<ingested, ruleSet, evRows, lastRowId, sample, syncedTo, inFlight, serverKeys, rewalk>>
  BY DEF ScanBursts
<1>2. \A h \in hits : h.key \in EventKeys
  BY HitKeys DEF ReparseInv
<1>. HIDE DEF hits
<1>3. RowsTyped' /\ LogTyped' /\ BatchWhole' /\ SentIsSynced' /\ lastRowId' \in Nat
  BY <1>1 DEF ReparseInv, RowsTyped, LogTyped, BatchWhole, SentIsSynced
<1>4. CASE walk' = NoWalk
  BY <1>3, <1>4, WalkOver DEF ReparseInv
<1>5. CASE WalkTo([at |-> "fold", hits |-> hits])
  <2>1. /\ DOMAIN walk' = WalkFields /\ walk'.at = "fold" /\ walk'.hits = hits
        /\ walk'.rules = walk.rules /\ walk'.last = walk.last /\ walk'.promote = walk.promote
    BY <1>5, WalkToFields DEF WalkFields, ReparseInv, WalkTyped
  <2>2. WalkTyped' /\ BatchCurrent' /\ WalkedRight'
    BY <1>1, <1>2, <2>1 DEF ReparseInv, WalkTyped, BatchCurrent, WalkedRight
  <2>. QED  BY <1>3, <2>2 DEF ReparseInv
<1>. QED  BY <1>1, <1>4, <1>5

LEMMA FoldStep ==
  ASSUME ReparseInv, FoldBurst
  PROVE  ReparseInv'
<1>1. /\ walk.at = "fold"
      /\ UNCHANGED <<ingested, ruleSet, sample, syncedTo, inFlight, serverKeys, rewalk>>
  BY DEF FoldBurst
<1>2. PICK hit \in walk.hits :
        \/ /\ insert_event(hit.key, "summary")
           /\ WalkTo([hits |-> walk.hits \ {hit}, doomed |-> hit.ids, at |-> "delete"])
        \/ /\ walk' = NoWalk \/ WalkTo([hits |-> walk.hits \ {hit}])
           /\ UNCHANGED <<evRows, lastRowId>>
  BY DEF FoldBurst
<1>3. hit.key \in EventKeys /\ "summary" \in EventClasses /\ DOMAIN walk = WalkFields
  BY DEF ReparseInv, WalkTyped, EventClasses
<1>4. /\ RowsTyped' /\ lastRowId <= lastRowId' /\ BatchWhole' /\ SentIsSynced'
  BY <1>1, <1>2, <1>3, InsertKept
<1>5. LogTyped' /\ lastRowId' \in Nat
  BY <1>1, <1>4 DEF ReparseInv, LogTyped, RowsTyped
<1>6. CASE walk' = NoWalk
  BY <1>4, <1>5, <1>6, WalkOver DEF ReparseInv
<1>7. CASE walk' # NoWalk
  <2>1. /\ DOMAIN walk' = WalkFields /\ walk'.at \in {"fold", "delete"} /\ walk'.hits = walk.hits \ {hit}
        /\ walk'.rules = walk.rules /\ walk'.last = walk.last /\ walk'.promote = walk.promote
    <3>1. CASE WalkTo([hits |-> walk.hits \ {hit}, doomed |-> hit.ids, at |-> "delete"])
      BY <1>3, <3>1, WalkToFields DEF WalkFields
    <3>2. CASE WalkTo([hits |-> walk.hits \ {hit}])
      BY <1>1, <1>3, <3>2, WalkToFields DEF WalkFields
    <3>. QED  BY <1>2, <1>7, <3>1, <3>2
  <2>2. WalkTyped' /\ BatchCurrent' /\ WalkedRight'
    <3>1. lastRowId \in Nat
      BY DEF ReparseInv, RowsTyped
    <3>. QED  BY <1>4, <1>5, <2>1, <3>1 DEF ReparseInv, WalkTyped, BatchCurrent, WalkedRight
  <2>. QED  BY <1>4, <1>5, <2>2 DEF ReparseInv
<1>. QED  BY <1>6, <1>7

LEMMA DeleteStep ==
  ASSUME ReparseInv, DeleteMember
  PROVE  ReparseInv'
<1>0. PICK id : id = Min(walk.doomed)
  OBVIOUS
<1>1. /\ walk.at = "delete" /\ evRows' = {r \in evRows : r.id # id}
      /\ \/ WalkTo([doomed |-> walk.doomed \ {id}])
         \/ walk' = NoWalk
         \/ WalkTo([doomed |-> {}, at |-> "fold"])
      /\ UNCHANGED <<ingested, ruleSet, lastRowId, sample, syncedTo, inFlight, serverKeys, rewalk>>
  BY <1>0 DEF DeleteMember, delete_event_by_id
<1>2. evRows' \subseteq evRows /\ lastRowId \in Nat /\ DOMAIN walk = WalkFields
  BY <1>1 DEF ReparseInv, RowsTyped, WalkTyped
<1>3. RowsTyped'
  <2>1. IsFiniteSet(evRows')
    BY <1>2, FS_Subset DEF ReparseInv, RowsTyped
  <2>. QED  BY <1>1, <1>2, <2>1 DEF ReparseInv, RowsTyped
<1>4. BatchWhole' /\ SentIsSynced'
  BY <1>1, <1>2, <1>3, BatchKept DEF ReparseInv
<1>5. LogTyped'
  BY <1>1 DEF ReparseInv, LogTyped
<1>6. CASE walk' = NoWalk
  BY <1>1, <1>2, <1>3, <1>4, <1>5, <1>6, WalkOver DEF ReparseInv
<1>7. CASE walk' # NoWalk
  <2>1. /\ DOMAIN walk' = WalkFields /\ walk'.at \in {"fold", "delete"} /\ walk'.hits = walk.hits
        /\ walk'.rules = walk.rules /\ walk'.last = walk.last /\ walk'.promote = walk.promote
    <3>1. CASE WalkTo([doomed |-> walk.doomed \ {id}])
      BY <1>1, <1>2, <3>1, WalkToFields DEF WalkFields
    <3>2. CASE WalkTo([doomed |-> {}, at |-> "fold"])
      BY <1>2, <3>2, WalkToFields DEF WalkFields
    <3>. QED  BY <1>1, <1>7, <3>1, <3>2
  <2>2. WalkTyped' /\ BatchCurrent' /\ WalkedRight'
    BY <1>1, <1>2, <2>1 DEF ReparseInv, WalkTyped, BatchCurrent, WalkedRight
  <2>. QED  BY <1>3, <1>4, <1>5, <2>2 DEF ReparseInv
<1>. QED  BY <1>6, <1>7
-----------------------------------------------------------------------------
LEMMA ReparseInductive ==
  ASSUME ReparseInv, [ReparseNext]_reparseVars
  PROVE  ReparseInv'
<1>1. CASE ReparseNext
  BY <1>1, TailStep, StartStep, ReadBatchStep, UpdateRowStep, PromoteStep, ForgetStep,
     ScanStep, FoldStep, DeleteStep, SyncSteps, TrayEndsStep DEF ReparseNext
<1>2. CASE UNCHANGED reparseVars
  <2>1. UNCHANGED <<ingested, ruleSet, evRows, lastRowId, sample, syncedTo, inFlight, serverKeys,
                    walk, rewalk>>
    BY <1>2 DEF reparseVars
  <2>. QED  BY <2>1 DEF ReparseInv, RowsTyped, LogTyped, WalkTyped, BatchCurrent, WalkedRight,
                        RightClass, BatchWhole, SentIsSynced
<1>. QED  BY <1>1, <1>2

LEMMA ReparseInvSuffices ==
  ASSUME ReparseInv
  PROVE  ReparseTypeOK /\ ReclassifiedAll /\ SentIsSynced
<1>1. ReparseTypeOK
  <2>1. \A r \in evRows \cup inFlight :
          r.id \in 1 .. lastRowId /\ r.line \in LogLines /\ r.class \in {"plain", "refined", "summary"}
    <3>1. lastRowId \in Nat
      BY DEF ReparseInv, RowsTyped
    <3>2. \A r \in evRows \cup inFlight : r \in EventRows /\ r.id <= lastRowId
      BY DEF ReparseInv, RowsTyped, BatchWhole
    <3>. QED  BY <3>1, <3>2 DEF EventRows, EventClasses
  <2>. QED  BY <2>1 DEF ReparseInv, RowsTyped, LogTyped, BatchWhole, ReparseTypeOK
<1>2. ReclassifiedAll
  BY DEF ReparseInv, WalkedRight, RightClass, ReclassifiedAll
<1>. QED  BY <1>1, <1>2 DEF ReparseInv
-----------------------------------------------------------------------------
(* Dismissals: the one who dismisses has the lock and a copy of the file   *)
(* with all that was answered, and so has the file itself when nobody      *)
(* saves, unless it lost dismissals that the lock cannot keep.             *)
FileKept(file) == "dismissed" \in DOMAIN file /\ \A x \in file.dismissed : severity(x[1]) # 0

HasAsked(r) == {"at", "asked", "acked", "dismissed"} \subseteq DOMAIN r

HasFile(r) == {"at", "file"} \subseteq DOMAIN r /\ (r.at = "save" => "item" \in DOMAIN r)
HasCopy(c) == hcalls[c].at \in {"save", "write", "edit", "rewrite"}
Dismisses(c) == hcalls[c].at \in {"save", "write"}

CallsKept ==
  /\ DOMAIN hcalls = HealthCalls
  /\ \A c \in HealthCalls : hcalls[c].at = "sysinfo" => HasAsked(hcalls[c])
  /\ \A c \in HealthCalls : hcalls[c].at \in {"save", "edit"} => HasFile(hcalls[c])
  /\ \A c \in HealthCalls : hcalls[c].at \in {"lock", "save", "write"} =>
       severity(hcalls[c].item[1]) # 0

DismissalsKept ==
  /\ FileKept(configFile) /\ configFile.dismissed \subseteq acked
  /\ \A c \in HealthCalls : HasCopy(c) =>
       FileKept(hcalls[c].file) /\ hcalls[c].file.dismissed \subseteq acked
  /\ \A c \in HealthCalls : Dismisses(c) => configLock = {c}
  /\ ~overrun =>
       /\ ~Saving => acked \subseteq configFile.dismissed
       /\ \A c \in HealthCalls : Dismisses(c) => acked \subseteq hcalls[c].file.dismissed

(* What a command has read of dismissals and of the system.                *)
SnapshotsKept ==
  /\ hclock \in Nat
  /\ sysinfo.stamped \in Nat \cup {-1} /\ sysinfo.measured \in Int
  /\ sysinfo.stamped # -1 => sysinfo.stamped <= sysinfo.measured /\ sysinfo.measured <= hclock
  /\ \A c \in HealthCalls :
       /\ hcalls[c].at = "sysinfo" =>
            hcalls[c].asked \in Nat \cup {-1} /\ hcalls[c].asked <= hclock
       /\ hcalls[c].at = "derive" => hcalls[c].age \in Int /\ hcalls[c].age < SysinfoTtl
       /\ hcalls[c].at \in {"sysinfo", "derive"} =>
            /\ hcalls[c].dismissed \subseteq acked
            /\ \A x \in hcalls[c].dismissed : severity(x[1]) # 0
            /\ ~overrun => hcalls[c].acked \subseteq hcalls[c].dismissed

HealthInv == CallsKept /\ DismissalsKept /\ SnapshotsKept

LEMMA HealthInitially ==
  ASSUME HealthInit
  PROVE  HealthInv
<1>1. /\ DOMAIN hcalls = HealthCalls /\ \A c \in HealthCalls : hcalls[c].at = "free"
      /\ FileKept(configFile) /\ configFile.dismissed = {} /\ acked = {}
      /\ sysinfo.stamped = -1 /\ sysinfo.measured = -1 /\ hclock = 0
  BY DEF HealthInit, NoHealthCall, NoSysinfo, FileKept
<1>. QED  BY <1>1 DEF HealthInv, CallsKept, DismissalsKept, HasCopy, Dismisses, SnapshotsKept

(* What is in the file between and after the steps of a save.              *)
LEMMA CutKept ==
  ASSUME NEW f \in Cut
  PROVE  FileKept(f) /\ f.dismissed = {}
BY DEF Cut, Broken, Emptied, FileKept

LEMMA WrittenKept ==
  ASSUME NEW f, FileKept(f), NEW g \in Written(f)
  PROVE  /\ FileKept(g) /\ g.dismissed \subseteq f.dismissed
         /\ g # Broken => g.dismissed = f.dismissed
<1>1. CASE g = [f EXCEPT !.is = "whole"]
  BY <1>1 DEF FileKept
<1>2. CASE g = Broken
  BY <1>2, CutKept DEF Cut
<1>. QED  BY <1>1, <1>2 DEF Written

LEMMA EditedKept ==
  ASSUME NEW f, FileKept(f), NEW g \in Edited(f)
  PROVE  FileKept(g) /\ g.dismissed = f.dismissed
BY DEF Edited, FileKept

(* A step of one command that leaves the file and its lock alone.          *)
LEMMA CallMoves ==
  ASSUME HealthInv, NEW c \in HealthCalls, NEW r, hcalls' = [hcalls EXCEPT ![c] = r],
         UNCHANGED <<configFile, configLock, hclock, acked, overrun>>,
         sysinfo'.stamped \in Nat \cup {-1}, sysinfo'.measured \in Int,
         sysinfo'.stamped # -1 => sysinfo'.stamped <= sysinfo'.measured /\ sysinfo'.measured <= hclock,
         hcalls[c].at \notin {"write", "rewrite"}, r.at \notin {"save", "write", "rewrite"},
         r.at = "lock" => severity(r.item[1]) # 0,
         r.at = "edit" => r.file = configFile /\ HasFile(r),
         r.at = "sysinfo" => /\ HasAsked(r) /\ r.asked \in Nat \cup {-1} /\ r.asked <= hclock,
         r.at = "derive" => r.age \in Int /\ r.age < SysinfoTtl,
         r.at \in {"sysinfo", "derive"} =>
            /\ r.dismissed \subseteq acked
            /\ \A x \in r.dismissed : severity(x[1]) # 0
            /\ ~overrun => r.acked \subseteq r.dismissed
  PROVE  HealthInv'
<1>1. DOMAIN hcalls' = HealthCalls /\ hcalls'[c] = r /\ \A d \in HealthCalls : d # c => hcalls'[d] = hcalls[d]
  BY DEF HealthInv, CallsKept
<1>2. CallsKept'
  <2>1. \A d \in HealthCalls : hcalls'[d].at = "sysinfo" => HasAsked(hcalls'[d])
    BY <1>1 DEF HealthInv, CallsKept
  <2>2. \A d \in HealthCalls : hcalls'[d].at \in {"lock", "save", "write"} =>
          severity(hcalls'[d].item[1]) # 0
    BY <1>1 DEF HealthInv, CallsKept
  <2>3. \A d \in HealthCalls : hcalls'[d].at \in {"save", "edit"} => HasFile(hcalls'[d])
    BY <1>1 DEF HealthInv, CallsKept
  <2>. QED  BY <1>1, <2>1, <2>2, <2>3 DEF CallsKept
<1>3. DismissalsKept'
  <2>1. \A d \in HealthCalls : HasCopy(d)' =>
          \/ hcalls'[d] = hcalls[d] /\ HasCopy(d)
          \/ hcalls'[d].at = "edit" /\ hcalls'[d].file = configFile
    BY <1>1 DEF HasCopy
  <2>2. \A d \in HealthCalls : Dismisses(d)' => hcalls'[d] = hcalls[d] /\ Dismisses(d)
    BY <1>1 DEF Dismisses
  <2>3. Saving' => Saving
    BY <1>1 DEF Saving
  <2>4. Saving => Saving'
    BY <1>1 DEF Saving
  <2>. QED  BY <2>1, <2>2, <2>3, <2>4 DEF HealthInv, DismissalsKept, FileKept
<1>4. SnapshotsKept'
  BY <1>1 DEF HealthInv, SnapshotsKept
<1>. QED  BY <1>2, <1>3, <1>4 DEF HealthInv
-----------------------------------------------------------------------------
LEMMA WorldStep ==
  ASSUME HealthInv, WorldChanges \/ HangarRefresh \/ HealthTick \/ UNCHANGED healthVars
  PROVE  HealthInv'
<1>1. UNCHANGED <<configFile, configLock, sysinfo, hcalls, acked, overrun>>
  BY DEF WorldChanges, HangarRefresh, HealthTick, healthVars, hHistory
<1>2. hclock' \in Nat /\ hclock <= hclock' /\ hclock \in Nat
  BY DEF WorldChanges, HangarRefresh, HealthTick, healthVars, HealthInv, SnapshotsKept
<1>3. CallsKept' /\ DismissalsKept'
  BY <1>1 DEF HealthInv, CallsKept, DismissalsKept, FileKept, HasCopy, Dismisses, Saving
<1>4. SnapshotsKept'
  BY <1>1, <1>2 DEF HealthInv, SnapshotsKept
<1>. QED  BY <1>3, <1>4 DEF HealthInv

(* The commands read, and derive their list.                               *)
LEMMA ReadSteps ==
  ASSUME HealthInv, NEW c \in HealthCalls,
         \/ SnapshotStats(c) \/ SnapshotConfig(c) \/ cached_sysinfo(c) \/ compute_sysinfo(c)
         \/ get_health(c) \/ DismissFinds(c) \/ UnlockedLoad(c)
  PROVE  HealthInv'
<1>1. UNCHANGED <<configFile, configLock, hclock, acked, overrun>>
  BY DEF SnapshotStats, SnapshotConfig, cached_sysinfo, compute_sysinfo, get_health, DismissFinds,
         UnlockedLoad, world, hHistory
<1>2. /\ sysinfo.stamped \in Nat \cup {-1} /\ sysinfo.measured \in Int /\ hclock \in Nat
      /\ sysinfo.stamped # -1 => sysinfo.stamped <= sysinfo.measured /\ sysinfo.measured <= hclock
      /\ SysinfoTtl \in Nat \ {0}
  BY HealthBounds DEF HealthInv, SnapshotsKept
<1>0. hcalls[c].at \notin {"write", "rewrite"}
  BY DEF SnapshotStats, SnapshotConfig, cached_sysinfo, compute_sysinfo, get_health, DismissFinds,
         UnlockedLoad
<1>3. CASE SnapshotStats(c)
  <2>. DEFINE r == [at |-> "config", facts |-> facts, num |-> num, now |-> hclock]
  <2>1. hcalls' = [hcalls EXCEPT ![c] = r] /\ UNCHANGED sysinfo /\ r.at = "config"
    BY <1>3 DEF SnapshotStats
  <2>. HIDE DEF r
  <2>. QED  BY <1>0, <1>1, <1>2, <2>1, CallMoves
<1>4. CASE SnapshotConfig(c)
  <2>. DEFINE live == {"gamelog", "cookie"}
              r == [at |-> "sysinfo", facts |-> (hcalls[c].facts \ live) \cup (facts \cap live),
                    num |-> hcalls[c].num, now |-> hcalls[c].now, asked |-> -1,
                    acked |-> IF Saving THEN {} ELSE acked,
                    settings |-> configFile.settings, dismissed |-> configFile.dismissed]
  <2>1. /\ r.at = "sysinfo" /\ r.asked = -1 /\ (~Saving => r.acked = acked) /\ (Saving => r.acked = {})
        /\ r.dismissed = configFile.dismissed /\ HasAsked(r)
    BY DEF HasAsked
  <2>2. /\ hcalls' = [hcalls EXCEPT ![c] = r] \/ hcalls' = [hcalls EXCEPT ![c] = NoHealthCall]
        /\ UNCHANGED sysinfo
    BY <1>4 DEF SnapshotConfig
  <2>. HIDE DEF r
  <2>3. /\ r.dismissed \subseteq acked /\ \A x \in r.dismissed : severity(x[1]) # 0
        /\ ~overrun => r.acked \subseteq r.dismissed
    BY <2>1 DEF HealthInv, DismissalsKept, FileKept
  <2>4. r.asked \in Nat \cup {-1} /\ r.asked <= hclock
    BY <1>2, <2>1
  <2>5. r.at \notin {"save", "write", "rewrite"} /\ r.at # "lock" /\ r.at # "edit" /\ r.at # "derive"
    BY <2>1
  <2>6. CASE hcalls' = [hcalls EXCEPT ![c] = r]
    BY <1>0, <1>1, <1>2, <2>1, <2>2, <2>3, <2>4, <2>5, <2>6, CallMoves
  <2>7. CASE hcalls' = [hcalls EXCEPT ![c] = NoHealthCall]
    BY <1>0, <1>1, <1>2, <2>2, <2>7, CallMoves DEF NoHealthCall
  <2>. QED  BY <2>2, <2>6, <2>7
<1>5. ASSUME hcalls[c].at = "sysinfo"
      PROVE  /\ hcalls[c].dismissed \subseteq acked
             /\ \A x \in hcalls[c].dismissed : severity(x[1]) # 0
             /\ ~overrun => hcalls[c].acked \subseteq hcalls[c].dismissed
             /\ hcalls[c].asked \in Nat \cup {-1} /\ hcalls[c].asked <= hclock
             /\ HasAsked(hcalls[c])
  BY <1>5 DEF HealthInv, SnapshotsKept, CallsKept
<1>6. ASSUME NEW s, s.measured \in Int, hclock - s.measured < SysinfoTtl, hcalls[c].at = "sysinfo",
             hcalls' = [hcalls EXCEPT ![c] = WithSysinfo(c, s)],
             sysinfo' = sysinfo \/ (sysinfo'.stamped \in Nat /\ sysinfo'.stamped <= hclock
                                    /\ sysinfo'.measured = hclock)
      PROVE  HealthInv'
  <2>1. /\ WithSysinfo(c, s).at = "derive" /\ WithSysinfo(c, s).age = hclock - s.measured
        /\ WithSysinfo(c, s).dismissed = hcalls[c].dismissed
        /\ WithSysinfo(c, s).acked = hcalls[c].acked
    BY DEF WithSysinfo
  <2>2. WithSysinfo(c, s).age \in Int /\ WithSysinfo(c, s).age < SysinfoTtl
    BY <1>2, <1>6, <2>1
  <2>3. /\ sysinfo'.stamped \in Nat \cup {-1} /\ sysinfo'.measured \in Int
        /\ sysinfo'.stamped # -1 => sysinfo'.stamped <= sysinfo'.measured /\ sysinfo'.measured <= hclock
    BY <1>2, <1>6
  <2>. QED  BY <1>0, <1>1, <1>5, <1>6, <2>1, <2>2, <2>3, CallMoves
<1>7. CASE cached_sysinfo(c)
  <2>1. hcalls[c].at = "sysinfo" /\ UNCHANGED sysinfo
    BY <1>7 DEF cached_sysinfo
  <2>2. CASE Fresh(hclock)
    <3>1. hcalls' = [hcalls EXCEPT ![c] = WithSysinfo(c, sysinfo)]
      BY <1>7, <2>2 DEF cached_sysinfo
    <3>2. hclock - sysinfo.measured < SysinfoTtl
      BY <1>2, <2>2 DEF Fresh
    <3>. QED  BY <1>2, <1>6, <2>1, <3>1, <3>2
  <2>3. CASE ~Fresh(hclock)
    <3>. DEFINE r == [hcalls[c] EXCEPT !.asked = hclock]
    <3>1. hcalls' = [hcalls EXCEPT ![c] = r]
      BY <1>7, <2>3 DEF cached_sysinfo
    <3>2. /\ r.at = "sysinfo" /\ r.asked = hclock /\ r.acked = hcalls[c].acked
          /\ r.dismissed = hcalls[c].dismissed /\ HasAsked(r)
      BY <1>5, <2>1 DEF HasAsked
    <3>. HIDE DEF r
    <3>3. r.asked \in Nat \cup {-1} /\ r.asked <= hclock
      BY <1>2, <3>2
    <3>4. r.at \notin {"save", "write", "rewrite"} /\ r.at # "lock" /\ r.at # "edit" /\ r.at # "derive"
      BY <3>2
    <3>5. /\ r.dismissed \subseteq acked
          /\ \A x \in r.dismissed : severity(x[1]) # 0
          /\ ~overrun => r.acked \subseteq r.dismissed
      BY <1>5, <2>1, <3>2
    <3>. QED  BY <1>0, <1>1, <1>2, <2>1, <3>1, <3>2, <3>3, <3>4, <3>5, CallMoves
  <2>. QED  BY <2>2, <2>3
<1>8. CASE compute_sysinfo(c)
  <2>1. /\ hcalls[c].at = "sysinfo" /\ hcalls[c].asked # -1
        /\ sysinfo'.stamped = hcalls[c].asked /\ sysinfo'.measured = hclock
        /\ hcalls' = [hcalls EXCEPT ![c] = WithSysinfo(c, sysinfo')]
    BY <1>8 DEF compute_sysinfo
  <2>2. sysinfo'.stamped \in Nat /\ sysinfo'.stamped <= hclock /\ hclock - sysinfo'.measured < SysinfoTtl
    BY <1>2, <1>5, <2>1
  <2>3. PICK s : s = sysinfo'
    OBVIOUS
  <2>4. /\ s.measured \in Int /\ hclock - s.measured < SysinfoTtl
        /\ hcalls' = [hcalls EXCEPT ![c] = WithSysinfo(c, s)]
    BY <1>2, <2>1, <2>2, <2>3
  <2>. QED  BY <1>6, <2>1, <2>2, <2>4
<1>9. CASE get_health(c)
  <2>1. hcalls' = [hcalls EXCEPT ![c] = NoHealthCall] /\ UNCHANGED sysinfo /\ NoHealthCall.at = "free"
    BY <1>9 DEF get_health, NoHealthCall
  <2>. QED  BY <1>0, <1>1, <1>2, <2>1, CallMoves
<1>10. CASE DismissFinds(c)
  <2>1. PICK item : hcalls' = [hcalls EXCEPT ![c] =
                      IF dismissible_for(item[1]) THEN [at |-> "lock", item |-> item] ELSE NoHealthCall]
    BY <1>10 DEF DismissFinds
  <2>2. UNCHANGED sysinfo
    BY <1>10 DEF DismissFinds
  <2>3. CASE dismissible_for(item[1])
    <3>. DEFINE r == [at |-> "lock", item |-> item]
    <3>1. hcalls' = [hcalls EXCEPT ![c] = r] /\ r.at = "lock" /\ severity(r.item[1]) # 0
      BY <2>1, <2>3 DEF dismissible_for
    <3>. HIDE DEF r
    <3>. QED  BY <1>0, <1>1, <1>2, <2>2, <3>1, CallMoves
  <2>4. CASE ~dismissible_for(item[1])
    <3>1. hcalls' = [hcalls EXCEPT ![c] = NoHealthCall] /\ NoHealthCall.at = "free"
      BY <2>1, <2>4 DEF NoHealthCall
    <3>. QED  BY <1>0, <1>1, <1>2, <2>2, <3>1, CallMoves
  <2>. QED  BY <2>3, <2>4
<1>11. CASE UnlockedLoad(c)
  <2>. DEFINE r == [at |-> "edit", file |-> configFile]
  <2>1. /\ hcalls' = [hcalls EXCEPT ![c] = r] /\ UNCHANGED sysinfo
        /\ r.at = "edit" /\ r.file = configFile /\ HasFile(r)
    BY <1>11 DEF UnlockedLoad, HasFile
  <2>. HIDE DEF r
  <2>. QED  BY <1>0, <1>1, <1>2, <2>1, CallMoves
<1>. QED  BY <1>3, <1>4, <1>7, <1>8, <1>9, <1>10, <1>11
-----------------------------------------------------------------------------
(* A call that has or gets a copy of the file goes on; the file and the    *)
(* lock are as the step makes them.                                        *)
LEMMA FileMoves ==
  ASSUME HealthInv, NEW c \in HealthCalls, NEW r, hcalls' = [hcalls EXCEPT ![c] = r],
         UNCHANGED <<sysinfo, hclock>>, acked \subseteq acked', overrun => overrun',
         r.at \notin {"sysinfo", "derive", "lock", "edit"}, r.at = "save" => HasFile(r),
         r.at \in {"save", "write"} => severity(r.item[1]) # 0,
         FileKept(configFile'), configFile'.dismissed \subseteq acked',
         r.at \in {"save", "write", "rewrite"} =>
           FileKept(r.file) /\ r.file.dismissed \subseteq acked',
         r.at \in {"save", "write"} =>
           /\ configLock' = {c} /\ \A d \in HealthCalls \ {c} : ~Dismisses(d)
           /\ ~overrun' => acked' \subseteq r.file.dismissed,
         \A d \in HealthCalls \ {c} : Dismisses(d) => configLock' = {d} /\ acked' = acked,
         ~overrun' /\ ~Saving' => acked' \subseteq configFile'.dismissed
  PROVE  HealthInv'
<1>1. DOMAIN hcalls' = HealthCalls /\ hcalls'[c] = r /\ \A d \in HealthCalls : d # c => hcalls'[d] = hcalls[d]
  BY DEF HealthInv, CallsKept
<1>2. CallsKept'
  <2>1. \A d \in HealthCalls : hcalls'[d].at = "sysinfo" => HasAsked(hcalls'[d])
    BY <1>1 DEF HealthInv, CallsKept
  <2>2. \A d \in HealthCalls : hcalls'[d].at \in {"lock", "save", "write"} =>
          severity(hcalls'[d].item[1]) # 0
    BY <1>1 DEF HealthInv, CallsKept
  <2>3. \A d \in HealthCalls : hcalls'[d].at \in {"save", "edit"} => HasFile(hcalls'[d])
    BY <1>1 DEF HealthInv, CallsKept
  <2>. QED  BY <1>1, <2>1, <2>2, <2>3 DEF CallsKept
<1>3. DismissalsKept'
  <2>1. \A d \in HealthCalls : HasCopy(d)' =>
          FileKept(hcalls'[d].file) /\ hcalls'[d].file.dismissed \subseteq acked'
    <3>1. \A d \in HealthCalls \ {c} : HasCopy(d)' =>
            HasCopy(d) /\ hcalls'[d] = hcalls[d]
      BY <1>1 DEF HasCopy
    <3>2. HasCopy(c)' => r.at \in {"save", "write", "rewrite"}
      BY <1>1 DEF HasCopy
    <3>. QED  BY <1>1, <3>1, <3>2 DEF HealthInv, DismissalsKept
  <2>2. \A d \in HealthCalls : Dismisses(d)' => configLock' = {d}
    BY <1>1 DEF Dismisses
  <2>3. ASSUME NEW d \in HealthCalls, Dismisses(d)', ~overrun'
        PROVE  acked' \subseteq hcalls'[d].file.dismissed
    <3>1. CASE d = c
      BY <1>1, <2>3, <3>1 DEF Dismisses
    <3>2. CASE d # c
      <4>1. Dismisses(d) /\ hcalls'[d] = hcalls[d] /\ acked' = acked /\ ~overrun
        BY <1>1, <2>3, <3>2 DEF Dismisses
      <4>. QED  BY <4>1 DEF HealthInv, DismissalsKept
    <3>. QED  BY <3>1, <3>2
  <2>. QED  BY <2>1, <2>2, <2>3 DEF DismissalsKept
<1>4. SnapshotsKept'
  BY <1>1 DEF HealthInv, SnapshotsKept
<1>. QED  BY <1>2, <1>3, <1>4 DEF HealthInv

(* The file is written: by dismiss_health under the lock, which loads it,  *)
LEMMA DismissLockStep ==
  ASSUME HealthInv, NEW c \in HealthCalls, DismissLock(c)
  PROVE  HealthInv'
<1>1. /\ hcalls[c].at = "lock" /\ configLock = {} /\ severity(hcalls[c].item[1]) # 0
      /\ UNCHANGED <<configFile, sysinfo, hclock, acked>>
  BY DEF DismissLock, world, HealthInv, CallsKept
<1>2. CASE hcalls' = [hcalls EXCEPT ![c] = NoHealthCall] /\ UNCHANGED <<configLock, overrun>>
  <2>1. NoHealthCall.at = "free"
    BY DEF NoHealthCall
  <2>2. /\ sysinfo.stamped \in Nat \cup {-1} /\ sysinfo.measured \in Int /\ hclock \in Nat
        /\ sysinfo.stamped # -1 => sysinfo.stamped <= sysinfo.measured /\ sysinfo.measured <= hclock
    BY DEF HealthInv, SnapshotsKept
  <2>. QED  BY <1>1, <1>2, <2>1, <2>2, CallMoves
<1>3. CASE /\ configLock' = {c} /\ overrun' = (overrun \/ Saving)
           /\ hcalls' = [hcalls EXCEPT ![c] = [at |-> "save", item |-> hcalls[c].item, file |-> configFile]]
  <2>. DEFINE r == [at |-> "save", item |-> hcalls[c].item, file |-> configFile]
  <2>1. r.at = "save" /\ r.item = hcalls[c].item /\ r.file = configFile /\ HasFile(r)
    BY DEF HasFile
  <2>2. hcalls' = [hcalls EXCEPT ![c] = r]
    BY <1>3
  <2>. HIDE DEF r
  <2>3. \A d \in HealthCalls : ~Dismisses(d)
    BY <1>1 DEF HealthInv, DismissalsKept
  <2>4. ~overrun' => acked \subseteq configFile.dismissed
    BY <1>3 DEF HealthInv, DismissalsKept
  <2>5. FileKept(configFile') /\ configFile'.dismissed \subseteq acked'
    BY <1>1 DEF HealthInv, DismissalsKept
  <2>6. FileKept(r.file) /\ r.file.dismissed \subseteq acked' /\ severity(r.item[1]) # 0
    BY <1>1, <2>1 DEF HealthInv, DismissalsKept
  <2>7. /\ acked \subseteq acked' /\ (overrun => overrun') /\ UNCHANGED <<sysinfo, hclock>>
        /\ ~overrun' => acked' \subseteq r.file.dismissed /\ acked' \subseteq configFile'.dismissed
    BY <1>1, <1>3, <2>1, <2>4
  <2>8. configLock' = {c} /\ \A d \in HealthCalls \ {c} : ~Dismisses(d)
    BY <1>3, <2>3
  <2>. QED  BY <2>1, <2>2, <2>5, <2>6, <2>7, <2>8, FileMoves
<1>. QED  BY <1>2, <1>3 DEF DismissLock

(* truncates it ...                                                        *)
LEMMA TruncateSteps ==
  ASSUME HealthInv, NEW c \in HealthCalls, DismissTruncate(c) \/ UnlockedTruncate(c)
  PROVE  HealthInv'
<1>1. /\ UNCHANGED <<sysinfo, hclock, acked, overrun>>
      /\ hcalls[c].at \in {"save", "edit"} /\ HasFile(hcalls[c])
  BY DEF DismissTruncate, UnlockedTruncate, world, hHistory, HealthInv, CallsKept
<1>2. FileKept(hcalls[c].file) /\ hcalls[c].file.dismissed \subseteq acked
  BY <1>1 DEF HealthInv, DismissalsKept, HasCopy
<1>3. hcalls[c].at = "save" =>
        /\ configLock = {c} /\ severity(hcalls[c].item[1]) # 0
        /\ \A d \in HealthCalls \ {c} : ~Dismisses(d)
        /\ ~overrun => acked \subseteq hcalls[c].file.dismissed
  BY DEF HealthInv, CallsKept, DismissalsKept, Dismisses
<1>4. CASE hcalls' = [hcalls EXCEPT ![c] = NoHealthCall] /\ configLock' = {} /\ UNCHANGED configFile
           /\ hcalls[c].at = "save"
  <2>1. NoHealthCall.at = "free"
    BY DEF NoHealthCall
  <2>2. Saving => Saving'
    BY <1>4 DEF Saving, HealthInv, CallsKept
  <2>3. FileKept(configFile') /\ configFile'.dismissed \subseteq acked'
    BY <1>1, <1>4 DEF HealthInv, DismissalsKept
  <2>4. ~overrun' /\ ~Saving' => acked' \subseteq configFile'.dismissed
    BY <1>1, <1>4, <2>2 DEF HealthInv, DismissalsKept
  <2>. QED  BY <1>1, <1>3, <1>4, <2>1, <2>3, <2>4, FileMoves
<1>5. ASSUME NEW at \in {"write", "rewrite"}, hcalls' = [hcalls EXCEPT ![c].at = at],
             at = "write" => hcalls[c].at = "save", UNCHANGED configLock, configFile' = Emptied
      PROVE  HealthInv'
  <2>. DEFINE r == [hcalls[c] EXCEPT !.at = at]
  <2>1. /\ hcalls' = [hcalls EXCEPT ![c] = r] /\ r.at = at /\ r.file = hcalls[c].file
        /\ at = "write" => r.item = hcalls[c].item
    BY <1>1, <1>5 DEF HasFile
  <2>. HIDE DEF r
  <2>2. Saving'
    BY <1>5, <2>1 DEF Saving, HealthInv, CallsKept
  <2>3. FileKept(configFile') /\ configFile'.dismissed \subseteq acked'
    BY <1>5, CutKept DEF Cut
  <2>4. \A d \in HealthCalls \ {c} : Dismisses(d) => configLock' = {d} /\ acked' = acked
    BY <1>1, <1>5 DEF HealthInv, DismissalsKept
  <2>5. /\ acked \subseteq acked' /\ (overrun => overrun') /\ UNCHANGED <<sysinfo, hclock>>
        /\ FileKept(r.file) /\ r.file.dismissed \subseteq acked'
    BY <1>1, <1>2, <2>1
  <2>6. r.at = "write" => /\ configLock' = {c} /\ severity(r.item[1]) # 0
                          /\ \A d \in HealthCalls \ {c} : ~Dismisses(d)
                          /\ ~overrun' => acked' \subseteq r.file.dismissed
    BY <1>1, <1>3, <1>5, <2>1
  <2>7. r.at \in {"write", "rewrite"}
    BY <2>1
  <2>. QED  BY <2>1, <2>2, <2>3, <2>4, <2>5, <2>6, <2>7, FileMoves
<1>. QED  BY <1>1, <1>4, <1>5 DEF DismissTruncate, UnlockedTruncate

(* and writes it, or fails ...                                             *)
LEMMA DismissSaveStep ==
  ASSUME HealthInv, NEW c \in HealthCalls, DismissSave(c)
  PROVE  HealthInv'
<1>0. PICK file, item : file = hcalls[c].file /\ item = hcalls[c].item
  OBVIOUS
<1>1. /\ hcalls[c].at = "write" /\ hcalls' = [hcalls EXCEPT ![c] = NoHealthCall]
      /\ NoHealthCall.at = "free" /\ UNCHANGED <<sysinfo, hclock>>
  BY DEF DismissSave, NoHealthCall, world
<1>2. /\ FileKept(file) /\ file.dismissed \subseteq acked /\ severity(item[1]) # 0
      /\ \A d \in HealthCalls \ {c} : ~Dismisses(d)
      /\ ~overrun => acked \subseteq file.dismissed
  BY <1>0, <1>1 DEF HealthInv, CallsKept, DismissalsKept, HasCopy, Dismisses
<1>3. CASE /\ configFile' \in Written([file EXCEPT !.dismissed = @ \cup {item}])
           /\ acked' = acked \cup {item} /\ overrun' = (overrun \/ configFile' = Broken)
  <2>. DEFINE f == [file EXCEPT !.dismissed = file.dismissed \cup {item}]
  <2>1. FileKept(f) /\ f.dismissed = file.dismissed \cup {item}
    BY <1>2 DEF FileKept
  <2>2. configFile' \in Written(f)
    BY <1>3
  <2>. HIDE DEF f
  <2>3. PICK g \in Written(f) : g = configFile'
    BY <2>2
  <2>4. /\ FileKept(g) /\ g.dismissed \subseteq f.dismissed
        /\ g # Broken => g.dismissed = f.dismissed
    BY <2>1, WrittenKept
  <2>5. FileKept(configFile') /\ configFile'.dismissed \subseteq acked'
    BY <1>2, <1>3, <2>1, <2>3, <2>4
  <2>6. ~overrun' => acked' \subseteq configFile'.dismissed
    BY <1>2, <1>3, <2>1, <2>3, <2>4
  <2>. QED  BY <1>1, <1>2, <1>3, <2>5, <2>6, FileMoves
<1>4. CASE /\ configFile' \in Cut /\ UNCHANGED acked
           /\ overrun' = (overrun \/ ~(acked \subseteq configFile'.dismissed))
  <2>1. PICK g \in Cut : g = configFile'
    BY <1>4
  <2>2. FileKept(g) /\ g.dismissed = {}
    BY CutKept
  <2>. QED  BY <1>1, <1>2, <1>4, <2>1, <2>2, FileMoves
<1>. QED  BY <1>0, <1>3, <1>4 DEF DismissSave

(* ... or by a writer without the lock.                                    *)
LEMMA UnlockedSaveStep ==
  ASSUME HealthInv, NEW c \in HealthCalls, UnlockedSave(c)
  PROVE  HealthInv'
<1>0. PICK file : file = hcalls[c].file
  OBVIOUS
<1>1. /\ hcalls[c].at = "rewrite" /\ hcalls' = [hcalls EXCEPT ![c] = NoHealthCall]
      /\ NoHealthCall.at = "free" /\ UNCHANGED <<hclock, configLock, sysinfo, acked>>
      /\ configFile' \in Cut \cup UNION {Written(f) : f \in Edited(file)}
      /\ overrun' = (overrun \/ ~(acked \subseteq configFile'.dismissed))
  BY <1>0 DEF UnlockedSave, NoHealthCall, world
<1>2. FileKept(file) /\ file.dismissed \subseteq acked
  BY <1>0, <1>1 DEF HealthInv, DismissalsKept, HasCopy
<1>3. PICK g : g = configFile'
  OBVIOUS
<1>4. FileKept(g) /\ g.dismissed \subseteq file.dismissed
  <2>1. CASE g \in Cut
    BY <2>1, CutKept
  <2>2. ASSUME NEW f \in Edited(file), g \in Written(f)
        PROVE  FileKept(g) /\ g.dismissed \subseteq file.dismissed
    BY <1>2, <2>2, EditedKept, WrittenKept
  <2>. QED  BY <1>1, <1>3, <2>1, <2>2
<1>5. \A d \in HealthCalls \ {c} : Dismisses(d) => configLock' = {d} /\ acked' = acked
  BY <1>1 DEF HealthInv, DismissalsKept
<1>. QED  BY <1>1, <1>2, <1>3, <1>4, <1>5, FileMoves

LEMMA HealthInductive ==
  ASSUME HealthInv, [HealthNext]_healthVars
  PROVE  HealthInv'
BY WorldStep, ReadSteps, DismissLockStep, TruncateSteps, DismissSaveStep, UnlockedSaveStep
   DEF HealthNext, HealthStep
-----------------------------------------------------------------------------
(* Whatever the tail, a re-ingest, the sync worker and the end of the tray *)
(* do between two steps of a re-parse, each row it walked has the class of *)
(* its rules, and a row behind the sync cursor is on the server; whatever  *)
(* the launcher writes during a drain, the tail that waits has read all of *)
(* it and each of its lines is stored once; and so is each crash.          *)
THEOREM LogsAlwaysKept == ClientSpec => []LogsKept
<1>. DEFINE Inv == ReparseInv /\ LauncherInv /\ CrashInv
<1>1. ClientInit => Inv
  BY ReparseInitially, LauncherInitially, CrashInitially DEF ClientInit
<1>2. Inv /\ [ClientNext]_clientVars => Inv'
  <2>1. [ClientNext]_clientVars =>
          [ReparseNext]_reparseVars /\ [LauncherNext]_launcherVars /\ [CrashNext]_crashVars
    BY DEF ClientNext, clientVars
  <2>. QED  BY <2>1, ReparseInductive, LauncherInductive, CrashInductive
<1>3. Inv => LogsKept
  BY ReparseInvSuffices, LauncherInvSuffices, CrashInvSuffices DEF LogsKept
<1>. QED  BY <1>1, <1>2, <1>3, PTL DEF ClientSpec

(* The items of a snapshot: one per id at most, so that severity and id    *)
(* tell any two of them apart.                                             *)
LEMMA IdsDiffer ==
  /\ DOMAIN HealthIds = 1..11 /\ Len(HealthIds) = 11
  /\ \A a, b \in 1..11 : HealthIds[a] = HealthIds[b] => a = b
  /\ \A a \in 1..11 : id_order(HealthIds[a]) = a
<1>1. DOMAIN HealthIds = 1..11 /\ Len(HealthIds) = 11
  BY DEF HealthIds
<1>2. \A a, b \in 1..11 : HealthIds[a] = HealthIds[b] => a = b
  BY DEF HealthIds
<1>3. \A a \in 1..11 : id_order(HealthIds[a]) = a
  BY <1>1, <1>2 DEF id_order
<1>. QED  BY <1>1, <1>2, <1>3

Item(i, n) ==
  CASE n = 6 -> <<"SyncFailing", i.num["syncError"]>>
    [] n = 7 -> <<"HangarSkip", <<i.num["skip"], i.num["attempt"]>>>>
    [] n = 9 -> <<"GameLogStale", i.num["lastEvent"]>>
    [] n = 10 -> <<"UpdateAvailable", i.num["version"]>>
    [] n = 11 -> <<"DiskFreeLow", i.free>>
    [] OTHER -> <<HealthIds[n], 0>>

LEMMA ItemsDerived ==
  ASSUME NEW i
  PROVE  /\ IsFiniteSet(Derived(i))
         /\ \A x \in Derived(i) : \E n \in 1..11 : x = Item(i, n) /\ x[1] = HealthIds[n]
<1>1. \A x \in Derived(i) : \E n \in 1..11 : x = Item(i, n)
  BY DEF Derived, Item, HealthIds
<1>2. \A n \in 1..11 : Item(i, n)[1] = HealthIds[n]
  BY DEF Item, HealthIds
<1>3. IsFiniteSet(Derived(i))
  <2>. DEFINE f == [n \in 1..11 |-> Item(i, n)]
              T == {f[n] : n \in 1..11}
  <2>1. f \in Surjection(1..11, T)
    BY DEF Surjection
  <2>2. IsFiniteSet(T)
    <3>. HIDE DEF f
    <3>1. IsFiniteSet(1..11)
      <4>1. 1 \in Int /\ 11 \in Int
        OBVIOUS
      <4>. QED  BY <4>1, FS_Interval, Zenon
    <3>. QED  BY <2>1, <3>1, FS_Surjection
  <2>3. Derived(i) \subseteq T
    BY <1>1
  <2>. QED  BY <2>2, <2>3, FS_Subset
<1>. QED  BY <1>1, <1>2, <1>3

LEMMA CardSorted ==
  ASSUME NEW i
  PROVE  /\ Range(current_health(i)) = {x \in Derived(i) : ~is_dismissed(x, i.dismissed)}
         /\ \A j, k \in DOMAIN current_health(i) :
              j < k => severity(current_health(i)[j][1]) <= severity(current_health(i)[k][1])
<1>. DEFINE items == {x \in Derived(i) : ~is_dismissed(x, i.dismissed)}
            rank == [x \in items |-> HealthOrder(x)]
            list == current_health(i)
<1>1. IsFiniteSet(items)
  BY ItemsDerived, FS_Subset
<1>2. \A x \in items : \E n \in 1..11 : x = Item(i, n) /\ x[1] = HealthIds[n] /\ id_order(x[1]) = n
  BY ItemsDerived, IdsDiffer
<1>3. \A x \in items : severity(x[1]) \in 0..2 /\ id_order(x[1]) \in 1..11
  BY <1>2 DEF severity
<1>4. \A x, y \in items : id_order(x[1]) = id_order(y[1]) => x = y
  BY <1>2
<1>5. \A x \in items : rank[x] = severity(x[1]) * 12 + id_order(x[1])
  BY IdsDiffer DEF HealthOrder
<1>. HIDE DEF items
<1>6. rank \in [items -> Int]
  BY <1>3, <1>5
<1>7. list = SortedBy(items, rank)
  BY DEF current_health, items
<1>. HIDE DEF rank
<1>8. \A x, y \in items : rank[x] = rank[y] => id_order(x[1]) = id_order(y[1])
  BY <1>3, <1>5
<1>9. \A x, y \in items : rank[x] < rank[y] => severity(x[1]) <= severity(y[1])
  BY <1>3, <1>5
<1>. HIDE DEF list
<1>10. /\ {list[k] : k \in DOMAIN list} = items
       /\ \A j, k \in DOMAIN list : j < k => rank[list[j]] < rank[list[k]]
  BY <1>1, <1>4, <1>6, <1>7, <1>8, SortedByIs
<1>11. \A j, k \in DOMAIN list : j < k => severity(list[j][1]) <= severity(list[k][1])
  BY <1>9, <1>10
<1>. QED  BY <1>10, <1>11 DEF Range, items, list

(* The health card: a dismissal that was answered is in the file whenever  *)
(* nobody saves, unless the file lost dismissals where the lock cannot     *)
(* help (overrun); the card shows every item but those that were           *)
(* dismissed, never hides an error, has errors first, and hides what had   *)
(* been dismissed when the file was read, unless it was read during a      *)
(* save; what it knows of the game and the disk is younger than the limit. *)
THEOREM DismissalsHold == ClientSpec => []HealthHolds
<1>1. ClientInit => HealthInv
  BY HealthInitially DEF ClientInit
<1>2. HealthInv /\ [ClientNext]_clientVars => HealthInv'
  <2>1. [ClientNext]_clientVars => [HealthNext]_healthVars
    BY DEF ClientNext, clientVars
  <2>. QED  BY <2>1, HealthInductive
<1>3. HealthInv => HealthHolds
  <2>. SUFFICES ASSUME HealthInv PROVE HealthHolds
    OBVIOUS
  <2>1. ~overrun /\ ~Saving => acked \subseteq configFile.dismissed
    BY DEF HealthInv, DismissalsKept
  <2>2. ASSUME NEW c \in HealthCalls, hcalls[c].at = "derive"
        PROVE  LET list == current_health(hcalls[c]) IN
                 /\ \A x \in Derived(hcalls[c]) : x \in Range(list) \/ (severity(x[1]) # 0 /\ x \in acked)
                 /\ ~overrun => Range(list) \cap hcalls[c].acked = {}
                 /\ \A j, k \in DOMAIN list : j < k => severity(list[j][1]) <= severity(list[k][1])
                 /\ hcalls[c].age < SysinfoTtl
    <3>. DEFINE i == hcalls[c]
                list == current_health(i)
    <3>1. /\ \A x \in i.dismissed : x \in acked /\ severity(x[1]) # 0
          /\ ~overrun => i.acked \subseteq i.dismissed
          /\ i.age < SysinfoTtl
      BY <2>2 DEF HealthInv, SnapshotsKept
    <3>2. /\ Range(list) = {x \in Derived(i) : x \notin i.dismissed}
          /\ \A j, k \in DOMAIN list : j < k => severity(list[j][1]) <= severity(list[k][1])
      BY CardSorted DEF is_dismissed
    <3>. HIDE DEF list, i
    <3>3. \A x \in Derived(i) : x \in Range(list) \/ (severity(x[1]) # 0 /\ x \in acked)
      BY <3>1, <3>2
    <3>4. ~overrun => Range(list) \cap i.acked = {}
      BY <3>1, <3>2
    <3>. QED  BY <3>1, <3>2, <3>3, <3>4, Zenon DEF list, i
  <2>. QED  BY <2>1, <2>2, Zenon DEF HealthHolds
<1>. QED  BY <1>1, <1>2, <1>3, PTL DEF ClientSpec
-----------------------------------------------------------------------------
(* The fold of rule_implicit_location_change after k events: the last      *)
(* terrain load, and moves from the one before each.                       *)
Planet(k) == logged[k].kind \in {"planetA", "planetB"}

Moved(p, i) ==
  Inferred(i, "location_changed", <<p, i>>, primary_entity_for("location_changed"))

Travelling(n) ==
  [prev : 0..n, anchored : BOOLEAN, out : SUBSET {Moved(x[1], x[2]) : x \in (1..n) \X (1..n)}]

IsMove(row, k) ==
  \E i \in 1..k, p \in 1..k :
    /\ row = Moved(p, i) /\ p < i /\ Planet(p) /\ Planet(i) /\ logged[p].kind # logged[i].kind
    /\ \A j \in 1..k : Planet(j) /\ j < i => j <= p

Travelled(acc, k) ==
  /\ acc.prev \in 0..k /\ (acc.prev # 0 => Planet(acc.prev))
  /\ \A j \in 1..k : Planet(j) => j <= acc.prev
  /\ \A row \in acc.out : IsMove(row, k)

LEMMA TravelsTyped ==
  ASSUME NEW n \in Nat, NEW k \in 1..n, NEW acc \in Travelling(n)
  PROVE  Travels(acc, k) \in Travelling(n)
<1>. DEFINE S == {Moved(x[1], x[2]) : x \in (1..n) \X (1..n)}
<1>1. acc \in [prev : 0..n, anchored : BOOLEAN, out : SUBSET S]
  BY DEF Travelling
<1>2. ASSUME acc.prev # 0 PROVE Moved(acc.prev, k) \in S
  <2>1. <<acc.prev, k>> \in (1..n) \X (1..n)
    BY <1>1, <1>2
  <2>2. Moved(<<acc.prev, k>>[1], <<acc.prev, k>>[2]) = Moved(acc.prev, k)
    OBVIOUS
  <2>. QED  BY <2>1, <2>2, Zenon
<1>. HIDE DEF S
<1>3. CASE Planet(k)
  <2>1. Travels(acc, k) =
          [prev |-> k, anchored |-> FALSE,
           out |-> IF acc.prev # 0 /\ ~acc.anchored /\ logged[acc.prev].kind # logged[k].kind
                   THEN acc.out \cup {Moved(acc.prev, k)} ELSE acc.out]
    BY <1>3, Zenon DEF Travels, Planet, Moved
  <2>2. Travels(acc, k) \in [prev : 0..n, anchored : BOOLEAN, out : SUBSET S]
    BY <1>1, <1>2, <2>1
  <2>. QED  BY <2>2, Zenon DEF Travelling, S
<1>4. CASE ~Planet(k)
  <2>1. Travels(acc, k) \in {acc, [acc EXCEPT !.anchored = TRUE]}
    BY <1>4 DEF Travels, Planet
  <2>2. Travels(acc, k) \in [prev : 0..n, anchored : BOOLEAN, out : SUBSET S]
    BY <1>1, <2>1
  <2>. QED  BY <2>2, Zenon DEF Travelling, S
<1>. QED  BY <1>3, <1>4

LEMMA MovesStay ==
  ASSUME NEW k \in Nat, NEW row, IsMove(row, k)
  PROVE  IsMove(row, k + 1)
<1>1. PICK i \in 1..k, p \in 1..k :
        /\ row = Moved(p, i) /\ p < i /\ Planet(p) /\ Planet(i) /\ logged[p].kind # logged[i].kind
        /\ \A j \in 1..k : Planet(j) /\ j < i => j <= p
  BY DEF IsMove
<1>2. i \in 1..(k + 1) /\ p \in 1..(k + 1)
  OBVIOUS
<1>3. \A j \in 1..(k + 1) : j < i => j \in 1..k
  OBVIOUS
<1>. QED  BY <1>1, <1>2, <1>3, Zenon DEF IsMove

LEMMA TravelsOn ==
  ASSUME NEW k \in Nat \ {0}, NEW acc, Travelled(acc, k - 1),
         acc = [prev |-> acc.prev, anchored |-> acc.anchored, out |-> acc.out]
  PROVE  Travelled(Travels(acc, k), k)
<1>1. /\ acc.prev \in 0..(k - 1) /\ (acc.prev # 0 => Planet(acc.prev))
      /\ \A j \in 1..(k - 1) : Planet(j) => j <= acc.prev
      /\ \A row \in acc.out : IsMove(row, k - 1)
  BY DEF Travelled
<1>2. k - 1 \in Nat /\ k - 1 + 1 = k /\ \A j \in 1..k : j = k \/ j \in 1..(k - 1)
  OBVIOUS
<1>3. \A row \in acc.out : IsMove(row, k)
  BY <1>1, <1>2, MovesStay
<1>4. CASE Planet(k)
  <2>. DEFINE move == acc.prev # 0 /\ ~acc.anchored /\ logged[acc.prev].kind # logged[k].kind
              out == IF move THEN acc.out \cup {Moved(acc.prev, k)} ELSE acc.out
  <2>1. Travels(acc, k) = [prev |-> k, anchored |-> FALSE, out |-> out]
    BY <1>4, Zenon DEF Travels, Planet, Moved
  <2>2. ASSUME move PROVE IsMove(Moved(acc.prev, k), k)
    <3>1. k \in 1..k /\ acc.prev \in 1..k /\ acc.prev < k /\ Planet(acc.prev) /\ logged[acc.prev].kind # logged[k].kind
      BY <1>1, <2>2
    <3>2. \A j \in 1..k : Planet(j) /\ j < k => j <= acc.prev
      BY <1>1, <1>2
    <3>. QED  BY <1>4, <3>1, <3>2, Zenon DEF IsMove
  <2>3. \A row \in out : IsMove(row, k)
    BY <1>3, <2>2
  <2>. HIDE DEF out
  <2>4. Travels(acc, k).prev = k /\ Travels(acc, k).out = out
    BY <2>1
  <2>5. k \in 0..k /\ \A j \in 1..k : j <= k
    OBVIOUS
  <2>. QED  BY <1>4, <2>3, <2>4, <2>5, Zenon DEF Travelled
<1>5. CASE ~Planet(k)
  <2>1. Travels(acc, k) \in {acc, [acc EXCEPT !.anchored = TRUE]}
    BY <1>5 DEF Travels, Planet
  <2>2. Travels(acc, k).prev = acc.prev /\ Travels(acc, k).out = acc.out
    BY <2>1
  <2>3. acc.prev \in 0..k
    BY <1>1
  <2>4. \A j \in 1..k : Planet(j) => j <= acc.prev
    BY <1>1, <1>2, <1>5
  <2>. QED  BY <1>1, <1>3, <2>2, <2>3, <2>4, Zenon DEF Travelled
<1>. QED  BY <1>4, <1>5

LEMMA MovesAre ==
  ASSUME NEW n, EventsOK(logged, n)
  PROVE  \A row \in rule_implicit_location_change : IsMove(row, n)
<1>. DEFINE A == Travelling(n)
            base == [prev |-> 0, anchored |-> FALSE, out |-> {}]
            step == [x \in (1..n) \X A |-> Travels(x[2], x[1])]
            Is(f) == f = [k \in 0..n |-> IF k = 0 THEN base ELSE Travels(f[k - 1], k)]
            some == CHOOSE f : Is(f)
<1>1. n \in Nat /\ Len(logged) = n
  BY DEF EventsOK
<1>2. base \in A
  BY <1>1 DEF Travelling
<1>3. \A k \in 1..n, p \in A : Travels(p, k) \in A
  BY <1>1, TravelsTyped
<1>20. \A acc \in A : acc = [prev |-> acc.prev, anchored |-> acc.anchored, out |-> acc.out]
  BY DEF Travelling
<1>21. Travelled(base, 0)
  BY DEF Travelled
<1>. HIDE DEF A, base
<1>4. \A k \in 1..n, p \in A : step[<<k, p>>] = Travels(p, k)
  OBVIOUS
<1>5. step \in [(1..n) \X A -> A]
  <2>1. \A x \in (1..n) \X A : Travels(x[2], x[1]) \in A
    BY <1>3
  <2>. QED  BY <2>1, Zenon
<1>. HIDE DEF step
<1>6. PICK g : Recursion(g, A, n, base, step)
  BY <1>1, <1>2, <1>5, RecursionIs, Zenon
<1>7. \A k \in 1..n : k - 1 \in 0..n /\ k \in 0..n /\ k # 0 /\ k \in Nat \ {0}
  BY <1>1
<1>8. \A k \in 0..n : k = 0 \/ k \in 1..n
  BY <1>1
<1>9. Is(g)
  <2>1. \A k \in 1..n : g[k - 1] \in A /\ g[k] = Travels(g[k - 1], k)
    BY <1>4, <1>6, <1>7 DEF Recursion
  <2>2. \A k \in 0..n : g[k] = IF k = 0 THEN base ELSE Travels(g[k - 1], k)
    BY <1>6, <1>7, <1>8, <2>1, Zenon DEF Recursion
  <2>3. g = [k \in 0..n |-> g[k]]
    BY <1>6 DEF Recursion
  <2>. QED  BY <2>2, <2>3, Zenon
<1>10. Is(some)
  BY <1>9, Zenon
<1>11. rule_implicit_location_change = some[n].out
  BY <1>1, Zenon DEF rule_implicit_location_change, base
<1>. HIDE DEF some
<1>12. \A k \in 0..n : some[k] = IF k = 0 THEN base ELSE Travels(some[k - 1], k)
  BY <1>10, Zenon
<1>. DEFINE P == {k \in 0..n : some[k] \in A /\ Travelled(some[k], k)}
<1>13. 0 \in P
  <2>1. 0 \in 0..n
    BY <1>1
  <2>. QED  BY <1>2, <1>12, <1>21, <2>1, Zenon
<1>14. ASSUME NEW k \in 1..n, k - 1 \in P PROVE k \in P
  <2>1. some[k] = Travels(some[k - 1], k) /\ some[k - 1] \in A /\ Travelled(some[k - 1], k - 1)
    BY <1>7, <1>12, <1>14, Zenon
  <2>2. Travelled(some[k], k)
    BY <1>7, <1>20, <2>1, TravelsOn
  <2>. QED  BY <1>3, <1>7, <2>1, <2>2, Zenon
<1>15. n \in P
  <2>1. n \in 0..n
    BY <1>1
  <2>. HIDE DEF P
  <2>. QED  BY <1>1, <1>13, <1>14, <2>1, UpTo, Zenon
<1>. QED  BY <1>11, <1>15, Zenon DEF Travelled

LEMMA InOrderIs ==
  ASSUME NEW n, EventsOK(logged, n), InOrder
  PROVE  \A i, j \in 1..n : i <= j => logged[i].t <= logged[j].t
<1>1. n \in Nat /\ (\A k \in 1..n : logged[k].t \in Int) /\ \A i \in 1..(n - 1) : logged[i].t <= logged[i + 1].t
  BY DEF EventsOK, InOrder
<1>2. SUFFICES ASSUME NEW i \in 1..n PROVE \A j \in 1..n : i <= j => logged[i].t <= logged[j].t
  OBVIOUS
<1>. DEFINE P == {j \in 0..n : i <= j => logged[i].t <= logged[j].t}
<1>3. 0 \in P
  BY <1>1
<1>4. ASSUME NEW j \in 1..n, j - 1 \in P PROVE j \in P
  <2>1. CASE i = j
    BY <1>1, <2>1
  <2>2. CASE i < j
    <3>1. j - 1 \in 1..(n - 1) /\ j - 1 + 1 = j /\ j - 1 \in 1..n
      BY <1>1, <2>2
    <3>2. logged[j - 1].t <= logged[j].t /\ logged[i].t <= logged[j - 1].t
      BY <1>1, <1>4, <2>2, <3>1
    <3>3. logged[i].t <= logged[j].t
      BY <1>1, <3>1, <3>2
    <3>. QED  BY <1>1, <3>3
  <2>3. CASE j < i
    BY <1>1, <2>3
  <2>. QED  BY <1>1, <2>1, <2>2, <2>3
<1>. HIDE DEF P
<1>5. \A j \in 0..n : j \in P
  BY <1>1, <1>3, <1>4, UpTo
<1>. QED  BY <1>1, <1>5 DEF P

LEMMA FirstIs ==
  ASSUME NEW S, S \subseteq Nat, S # {}
  PROVE  First(S) \in S
<1>1. \E j \in S : \A k \in S : j <= k
  BY LeastNat, Zenon
<1>. QED  BY <1>1, Zenon DEF First

(* A row of infer is one of a rule, with what supersedes it.               *)
IsRow(row, raw) ==
  /\ row.trigger = raw.trigger /\ row.event = raw.event /\ row.t = raw.t /\ row.inputs = raw.inputs
  /\ row.superseded_by = reconcile_supersedes(raw)

Raw ==
  rule_implicit_death_after_vehicle_destruction \cup rule_implicit_location_change
    \cup rule_implicit_shop_request_timeout

LEMMA InferredIs ==
  ASSUME NEW i, NEW e, NEW ins, NEW en
  PROVE  /\ Inferred(i, e, ins, en).trigger = i /\ Inferred(i, e, ins, en).event = e
         /\ Inferred(i, e, ins, en).t = logged[i].t /\ Inferred(i, e, ins, en).inputs = ins
         /\ Inferred(i, e, ins, en).entity = en
         /\ IsRow([Inferred(i, e, ins, en) EXCEPT !.superseded_by =
                     reconcile_supersedes(Inferred(i, e, ins, en))], Inferred(i, e, ins, en))
<1>. DEFINE row == Inferred(i, e, ins, en) by == reconcile_supersedes(row)
<1>1. row = [trigger |-> i, event |-> e, t |-> logged[i].t, inputs |-> ins, entity |-> en,
             superseded_by |-> 0]
  BY DEF Inferred
<1>. HIDE DEF by, row
<1>2. [row EXCEPT !.superseded_by = by] =
        [trigger |-> i, event |-> e, t |-> logged[i].t, inputs |-> ins, entity |-> en, superseded_by |-> by]
  BY <1>1
<1>3. IsRow([row EXCEPT !.superseded_by = by], row)
  BY <1>1, <1>2 DEF IsRow, by
<1>4. row.trigger = i /\ row.event = e /\ row.t = logged[i].t /\ row.inputs = ins /\ row.entity = en
  BY <1>1
<1>. QED  BY <1>3, <1>4 DEF row, by

(* The three kinds of rows.                                                *)
IsDeath(raw, n) ==
  raw.event = "death" /\ raw.entity = primary_entity_for("death") /\ raw.trigger \in 1..n

IsTimeout(raw, n) ==
  /\ raw.event = "timed_out" /\ raw.trigger \in 1..n
  /\ ~\E j \in Scanned(raw.trigger, ShopSecs) :
        logged[j].kind \in Responses /\ SameShop(logged[raw.trigger].kind, logged[j].kind)

LEMMA RawIs ==
  ASSUME NEW n, EventsOK(logged, n), NEW raw \in Raw
  PROVE  /\ IsDeath(raw, n) \/ IsMove(raw, n) \/ IsTimeout(raw, n)
         /\ IsRow([raw EXCEPT !.superseded_by = reconcile_supersedes(raw)], raw)
<1>1. DOMAIN logged = 1..n
  BY DEF EventsOK
<1>2. CASE raw \in rule_implicit_death_after_vehicle_destruction
  <2>1. PICK i \in 1..n : \E ins : raw = Inferred(i, "death", ins, primary_entity_for("death"))
    BY <1>1, <1>2 DEF rule_implicit_death_after_vehicle_destruction
  <2>. QED  BY <2>1, InferredIs DEF IsDeath
<1>3. CASE raw \in rule_implicit_location_change
  <2>1. IsMove(raw, n)
    BY <1>3, MovesAre
  <2>2. PICK i, p : raw = Moved(p, i)
    BY <2>1 DEF IsMove
  <2>. QED  BY <2>1, <2>2, InferredIs DEF Moved
<1>4. CASE raw \in rule_implicit_shop_request_timeout
  <2>1. PICK i \in 1..n :
          /\ raw = Inferred(i, "timed_out", <<i>>, primary_entity_for(logged[i].kind))
          /\ ~\E j \in Scanned(i, ShopSecs) :
                logged[j].kind \in Responses /\ SameShop(logged[i].kind, logged[j].kind)
    BY <1>1, <1>4 DEF rule_implicit_shop_request_timeout
  <2>2. raw.trigger = i /\ raw.event = "timed_out"
    BY <2>1 DEF Inferred
  <2>3. IsTimeout(raw, n)
    BY <2>1, <2>2, Zenon DEF IsTimeout
  <2>. QED  BY <2>1, <2>3, InferredIs
<1>. QED  BY <1>2, <1>3, <1>4 DEF Raw

(* What is inferred agrees with what is observed, for a log of any length. *)
LEMMA InferenceAgreesWith ==
  ASSUME NEW n, EventsOK(logged, n)
  PROVE  InferenceAgrees
<1>. DEFINE paired == pair_transactions(logged)
            timedOut == {row.trigger : row \in {r \in infer : r.event = "timed_out"}}
            moves == {row \in infer : row.event = "location_changed"}
<1>1. SUFFICES ASSUME InOrder
      PROVE
       /\ \A q \in DOMAIN paired :
            /\ paired[q] \in (q + 1)..(q + InferWindow)
            /\ logged[paired[q]].t - logged[q].t <= ShopSecs
            => q \notin timedOut
       /\ \A q \in timedOut :
            age_status(logged, paired, q, logged[q].t + ShopSecs + 1, ShopSecs) # "pending"
       /\ \A row \in infer, j \in DOMAIN logged :
            /\ row.event = "death" /\ logged[j].kind = "death"
            /\ logged[j].t - row.t \in 0..ReconcileSecs
            => row.superseded_by # 0
       /\ \A a, b \in moves : a.trigger < b.trigger =>
            \E k \in a.trigger..(b.trigger - 1) :
              logged[k].kind \in {"planetA", "planetB"} /\ logged[k].kind # logged[b.trigger].kind
  BY DEF InferenceAgrees
<1>2. /\ n \in Nat /\ DOMAIN logged = 1..n /\ Len(logged) = n /\ \A k \in 1..n : logged[k].t \in Int
      /\ \A i, j \in 1..n : i <= j => logged[i].t <= logged[j].t
      /\ InferWindow \in Nat /\ ReconcileSecs \in Nat /\ ShopSecs \in Nat
  BY <1>1, InOrderIs, InferenceAssumption DEF EventsOK
<1>3. \A row \in infer : \E raw \in Raw :
        IsRow(row, raw) /\ (IsDeath(raw, n) \/ IsMove(raw, n) \/ IsTimeout(raw, n))
  BY RawIs DEF infer, Raw
<1>4. \A raw : ~(IsMove(raw, n) /\ (raw.event = "timed_out" \/ raw.event = "death"))
  <2>1. SUFFICES ASSUME NEW raw, IsMove(raw, n) PROVE raw.event = "location_changed"
    OBVIOUS
  <2>2. PICK i, p : raw = Moved(p, i)
    BY <2>1 DEF IsMove
  <2>. QED  BY <2>2 DEF Moved, Inferred
<1>5. ASSUME NEW q \in timedOut
      PROVE  /\ q \in 1..n
             /\ ~\E j \in Scanned(q, ShopSecs) : logged[j].kind \in Responses /\ SameShop(logged[q].kind, logged[j].kind)
  <2>1. PICK row \in infer : row.event = "timed_out" /\ q = row.trigger
    OBVIOUS
  <2>2. PICK raw \in Raw : IsRow(row, raw) /\ (IsDeath(raw, n) \/ IsMove(raw, n) \/ IsTimeout(raw, n))
    BY <1>3
  <2>3. raw.event = "timed_out" /\ raw.trigger = q
    BY <2>1, <2>2 DEF IsRow
  <2>4. IsTimeout(raw, n)
    BY <1>4, <2>2, <2>3 DEF IsDeath
  <2>. QED  BY <2>3, <2>4 DEF IsTimeout
<1>6. ASSUME NEW q \in DOMAIN paired, paired[q] \in (q + 1)..(q + InferWindow),
             logged[paired[q]].t - logged[q].t <= ShopSecs, q \in timedOut
      PROVE  FALSE
  <2>1. IsPair(logged, n, paired, q)
    BY PairsArePairs DEF PairedTo, Pairings
  <2>. DEFINE j == paired[q]
  <2>2. q \in 1..n /\ j \in 1..n /\ j \in (q + 1)..(q + InferWindow) /\ q <= j
    BY <1>2, <1>6, <2>1 DEF IsPair
  <2>3. j \in Scanned(q, ShopSecs)
    <3>. HIDE DEF j
    <3>1. j \in (q + 1)..Len(logged) /\ j <= q + InferWindow
      BY <1>2, <2>2
    <3>2. logged[j].t >= logged[q].t
      BY <1>2, <2>2
    <3>3. ASSUME NEW k \in (q + 1)..j PROVE ~(logged[k].t - logged[q].t > ShopSecs)
      <4>1. k \in 1..n /\ k <= j
        BY <1>2, <2>2
      <4>2. logged[k].t <= logged[j].t /\ logged[k].t \in Int /\ logged[j].t \in Int /\ logged[q].t \in Int
        BY <1>2, <2>2, <4>1
      <4>3. logged[j].t - logged[q].t <= ShopSecs
        BY <1>6 DEF j
      <4>. QED  BY <1>2, <4>2, <4>3
    <3>. QED  BY <3>1, <3>2, <3>3 DEF Scanned
  <2>4. logged[j].kind \in Responses /\ SameShop(logged[q].kind, logged[j].kind)
    BY <2>1 DEF IsPair
  <2>. HIDE DEF j
  <2>. QED  BY <1>5, <1>6, <2>3, <2>4
<1>7. ASSUME NEW q \in timedOut
      PROVE  age_status(logged, paired, q, logged[q].t + ShopSecs + 1, ShopSecs) # "pending"
  <2>1. logged[q].t \in Int
    BY <1>2, <1>5
  <2>2. (logged[q].t + ShopSecs + 1) - logged[q].t > ShopSecs
    BY <1>2, <2>1
  <2>3. age_status(logged, paired, q, logged[q].t + ShopSecs + 1, ShopSecs) \in {"confirmed", "timed_out"}
    BY <2>2, Zenon DEF age_status
  <2>. QED  BY <2>3
<1>8. ASSUME NEW row \in infer, NEW j \in DOMAIN logged, row.event = "death", logged[j].kind = "death",
             logged[j].t - row.t \in 0..ReconcileSecs
      PROVE  row.superseded_by # 0
  <2>1. PICK raw \in Raw : IsRow(row, raw) /\ (IsDeath(raw, n) \/ IsMove(raw, n) \/ IsTimeout(raw, n))
    BY <1>3
  <2>2. raw.event = "death" /\ raw.t = row.t
    BY <1>8, <2>1 DEF IsRow
  <2>3. raw.entity = primary_entity_for("death")
    BY <1>4, <2>1, <2>2 DEF IsDeath, IsTimeout
  <2>. DEFINE seen == {k \in DOMAIN logged : /\ event_type_key(logged[k].kind) = raw.event
                                             /\ primary_entity_for(logged[k].kind) = raw.entity
                                             /\ logged[k].t - raw.t \in 0..ReconcileSecs}
  <2>4. j \in seen
    BY <1>8, <2>2, <2>3 DEF event_type_key
  <2>5. seen \subseteq 1..n
    BY <1>2
  <2>6. reconcile_supersedes(raw) = IF seen = {} THEN 0 ELSE First(seen)
    BY DEF reconcile_supersedes
  <2>. HIDE DEF seen
  <2>7. First(seen) \in seen
    BY <2>4, <2>5, FirstIs
  <2>8. reconcile_supersedes(raw) # 0
    BY <2>4, <2>5, <2>6, <2>7
  <2>. QED  BY <2>1, <2>8 DEF IsRow
<1>9. ASSUME NEW row \in moves PROVE \E raw : IsRow(row, raw) /\ IsMove(raw, n)
  <2>1. PICK raw \in Raw : IsRow(row, raw) /\ (IsDeath(raw, n) \/ IsMove(raw, n) \/ IsTimeout(raw, n))
    BY <1>3
  <2>2. raw.event = "location_changed"
    BY <2>1 DEF IsRow
  <2>. QED  BY <2>1, <2>2 DEF IsDeath, IsTimeout
<1>10. ASSUME NEW a \in moves, NEW b \in moves, a.trigger < b.trigger
       PROVE  \E k \in a.trigger..(b.trigger - 1) :
                logged[k].kind \in {"planetA", "planetB"} /\ logged[k].kind # logged[b.trigger].kind
  <2>1. PICK ra : IsRow(a, ra) /\ IsMove(ra, n)
    BY <1>9
  <2>2. PICK rb : IsRow(b, rb) /\ IsMove(rb, n)
    BY <1>9
  <2>3. PICK x \in 1..n, o \in 1..n : ra = Moved(o, x) /\ Planet(x)
    BY <2>1 DEF IsMove
  <2>4. PICK i \in 1..n, p \in 1..n :
          /\ rb = Moved(p, i) /\ p < i /\ Planet(p) /\ logged[p].kind # logged[i].kind
          /\ \A j \in 1..n : Planet(j) /\ j < i => j <= p
    BY <2>2 DEF IsMove
  <2>5. a.trigger = x /\ b.trigger = i
    BY <2>1, <2>2, <2>3, <2>4, InferredIs DEF IsRow, Moved
  <2>6. x <= p
    BY <1>10, <2>3, <2>4, <2>5
  <2>7. p \in a.trigger..(b.trigger - 1)
    BY <2>4, <2>5, <2>6
  <2>. QED  BY <2>4, <2>5, <2>7 DEF Planet
<1>. HIDE DEF paired, timedOut, moves
<1>. QED  BY <1>6, <1>7, <1>8, <1>10

LoggedTyped == logged \in Seq([t : Int, kind : LoggedKinds])

LEMMA LoggedInitially == LoggedInit => LoggedTyped
BY DEF LoggedInit, LoggedTyped

LEMMA LoggedEvents ==
  ASSUME NEW E, NEW s \in Seq(E)
  PROVE  Len(s) \in Nat /\ DOMAIN s = 1..Len(s) /\ \A k \in 1..Len(s) : s[k] \in E
OBVIOUS

LEMMA LoggedInductive == LoggedTyped /\ [LoggedNext]_logged => LoggedTyped'
<1>. SUFFICES ASSUME LoggedTyped, [LoggedNext]_logged PROVE LoggedTyped'
  OBVIOUS
<1>1. ASSUME NEW kind \in LoggedKinds, NEW gap \in LoggedGaps, Logs(kind, gap) PROVE LoggedTyped'
  <2>1. (IF logged = <<>> THEN 0 ELSE Last(logged).t) \in Int
    <3>1. CASE logged # <<>>
      <4>1. Len(logged) \in 1..Len(logged)
        BY <3>1 DEF LoggedTyped
      <4>2. logged[Len(logged)] \in [t : Int, kind : LoggedKinds]
        BY <4>1, LoggedEvents, Zenon DEF LoggedTyped
      <4>. QED  BY <3>1, <4>2 DEF Last
    <3>. QED  BY <3>1
  <2>2. gap + (IF logged = <<>> THEN 0 ELSE Last(logged).t) \in Int
    BY <2>1, InferenceAssumption
  <2>3. [t |-> gap + (IF logged = <<>> THEN 0 ELSE Last(logged).t), kind |-> kind] \in [t : Int, kind : LoggedKinds]
    BY <2>2
  <2>. QED  BY <1>1, <2>3 DEF Logs, LoggedTyped
<1>2. CASE UNCHANGED logged
  BY <1>2 DEF LoggedTyped
<1>. QED  BY <1>1, <1>2 DEF LoggedNext
-----------------------------------------------------------------------------
(* The parser: what is kept of each line read, by which rules, and what    *)
(* the tray counts.                                                        *)
RulesCurrent == fetcher = "idle" => rules = compile_rules(cached)

MadeEvents == {k \in DOMAIN parsed : parsed[k].as # Unknown}

AsBuiltIn(read) ==
  structural_parse(read.line) /\ classify(read.line) # Unknown => read.as = classify(read.line)

ParserInv ==
  /\ Len(parsed) \in Nat /\ DOMAIN parsed = 1..Len(parsed)
  /\ \A k \in DOMAIN parsed : AsBuiltIn(parsed[k])
  /\ counts \in [Outcomes -> Nat]
  /\ counts["recognised"] = Cardinality(MadeEvents) /\ IsFiniteSet(MadeEvents)
  /\ RulesCurrent /\ NoiseNotSampled

LEMMA NoRules == compile_rules(<<>>) = <<>>
<1>. DEFINE S == {r \in ToSet(<<>>) : r.compiles}
<1>1. <<>> \in Seq({}) /\ Len(<<>>) = 0
  OBVIOUS
<1>. HIDE DEF S
<1>2. PICK f : IsFilter(f, {}, <<>>, S) /\ Filtered(<<>>, S) = f[0]
  BY <1>1, FilteredIs
<1>. QED  BY <1>2 DEF IsFilter, compile_rules, S

LEMMA ParserInitially == ParserInit => ParserInv
<1>. SUFFICES ASSUME ParserInit PROVE ParserInv
  OBVIOUS
<1>1. MadeEvents = {} /\ Len(parsed) \in Nat /\ DOMAIN parsed = 1..Len(parsed) /\ DOMAIN parsed = {}
  BY DEF ParserInit, MadeEvents
<1>2. Cardinality(MadeEvents) = 0 /\ IsFiniteSet(MadeEvents)
  BY <1>1, FS_EmptySet, Zenon
<1>3. counts \in [Outcomes -> Nat] /\ counts["recognised"] = 0
  BY DEF ParserInit, Outcomes
<1>4. RulesCurrent /\ NoiseNotSampled
  BY NoRules DEF ParserInit, RulesCurrent, NoiseNotSampled
<1>. QED  BY <1>1, <1>2, <1>3, <1>4 DEF ParserInv

LEMMA LineCounted ==
  ASSUME ParserInv, NEW w \in LineWorkers, NEW line \in GameLines, IngestLine(w, line)
  PROVE  ParserInv'
<1>. DEFINE as == IF structural_parse(line) THEN Outcome(line, rules) ELSE Unknown
            n == Len(parsed) + 1
<1>1. /\ Len(parsed) \in Nat /\ DOMAIN parsed = 1..Len(parsed)
      /\ counts \in [Outcomes -> Nat] /\ counts["recognised"] = Cardinality(MadeEvents)
      /\ IsFiniteSet(MadeEvents)
  BY DEF ParserInv
<1>2. /\ parsed' = Append(parsed, [line |-> line, as |-> as])
      /\ UNCHANGED <<published, cached, fetcher, rules, noise, samples, raced>>
  BY DEF IngestLine
<1>3. Cardinality(MadeEvents) \in Nat
  BY <1>1, FS_CardinalityType
<1>4. \E o \in Outcomes : Count(o) /\ (o = "recognised" <=> as # Unknown)
  BY DEF IngestLine, Outcomes
<1>. HIDE DEF as
<1>5. /\ Len(parsed') = n /\ DOMAIN parsed' = 1..n /\ n \in Nat
      /\ parsed'[n] = [line |-> line, as |-> as]
      /\ \A k \in 1..Len(parsed) : parsed'[k] = parsed[k]
  BY <1>1, <1>2
<1>6. n \notin DOMAIN parsed /\ DOMAIN parsed' = DOMAIN parsed \cup {n}
  BY <1>1, <1>5
<1>7. MadeEvents' = IF as # Unknown THEN MadeEvents \cup {n} ELSE MadeEvents
  <2>1. parsed'[n].as = as
    BY <1>5
  <2>. QED  BY <1>1, <1>5, <1>6, <2>1 DEF MadeEvents
<1>8. counts' \in [Outcomes -> Nat]
      /\ counts'["recognised"] = IF as # Unknown THEN counts["recognised"] + 1 ELSE counts["recognised"]
  <2>1. PICK o \in Outcomes : counts' = [counts EXCEPT ![o] = @ + 1] /\ (o = "recognised" <=> as # Unknown)
    BY <1>4 DEF Count
  <2>2. "recognised" \in Outcomes
    BY DEF Outcomes
  <2>3. \A p \in Outcomes : counts[p] \in Nat /\ counts[p] + 1 \in Nat
    BY <1>1
  <2>4. counts' \in [Outcomes -> Nat]
    BY <1>1, <2>1, <2>3
  <2>5. counts'["recognised"] = IF o = "recognised" THEN counts["recognised"] + 1 ELSE counts["recognised"]
    BY <1>1, <2>1, <2>2
  <2>. QED  BY <2>1, <2>4, <2>5, Zenon
<1>9. counts'["recognised"] = Cardinality(MadeEvents') /\ IsFiniteSet(MadeEvents')
  <2>1. n \notin MadeEvents
    BY <1>6 DEF MadeEvents
  <2>2. Cardinality(MadeEvents \cup {n}) = Cardinality(MadeEvents) + 1 /\ IsFiniteSet(MadeEvents \cup {n})
    BY <1>1, <2>1, FS_AddElement
  <2>. QED  BY <1>1, <1>7, <1>8, <2>2
<1>10. \A k \in DOMAIN parsed' : AsBuiltIn(parsed'[k])
  <2>1. AsBuiltIn([line |-> line, as |-> as])
    BY DEF as, Outcome, AsBuiltIn
  <2>2. \A k \in DOMAIN parsed : AsBuiltIn(parsed[k])
    BY DEF ParserInv
  <2>. QED  BY <1>1, <1>5, <1>6, <2>1, <2>2
<1>11. RulesCurrent' /\ NoiseNotSampled'
  <2>1. RulesCurrent /\ NoiseNotSampled
    BY DEF ParserInv
  <2>. QED  BY <1>2, <2>1, Zenon DEF RulesCurrent, NoiseNotSampled
<1>. QED  BY <1>5, <1>8, <1>9, <1>10, <1>11 DEF ParserInv

LEMMA ParserInductive == ParserInv /\ [ParserNext]_parserVars => ParserInv'
<1>. SUFFICES ASSUME ParserInv, [ParserNext]_parserVars PROVE ParserInv'
  OBVIOUS
<1>. DEFINE History == /\ Len(parsed) \in Nat /\ DOMAIN parsed = 1..Len(parsed)
                       /\ \A k \in DOMAIN parsed : AsBuiltIn(parsed[k])
                       /\ counts \in [Outcomes -> Nat]
                       /\ counts["recognised"] = Cardinality(MadeEvents) /\ IsFiniteSet(MadeEvents)
<1>1. History /\ RulesCurrent /\ NoiseNotSampled
  BY DEF ParserInv
<1>2. ASSUME UNCHANGED <<parsed, counts>> PROVE History'
  BY <1>1, <1>2 DEF MadeEvents
<1>3. ASSUME History', RulesCurrent', NoiseNotSampled' PROVE ParserInv'
  BY <1>3 DEF ParserInv
<1>. HIDE DEF History
<1>4. CASE fetch_once
  BY <1>1, <1>2, <1>3, <1>4 DEF fetch_once, RulesCurrent, NoiseNotSampled
<1>5. CASE replace
  <2>1. RulesCurrent'
    BY <1>5, Zenon DEF replace, RulesCurrent
  <2>. QED  BY <1>1, <1>2, <1>3, <1>5, <2>1 DEF replace, NoiseNotSampled
<1>6. CASE ParserRestart
  <2>1. RulesCurrent'
    BY <1>6, Zenon DEF ParserRestart, RulesCurrent
  <2>2. NoiseNotSampled'
    BY <1>6 DEF ParserRestart, NoiseNotSampled
  <2>. QED  BY <1>2, <1>3, <1>6, <2>1, <2>2 DEF ParserRestart
<1>7. ASSUME NEW manifest, Publish(manifest) PROVE ParserInv'
  BY <1>1, <1>2, <1>3, <1>7 DEF Publish, RulesCurrent, NoiseNotSampled
<1>8. ASSUME NEW name, mark_event_as_noise(name) PROVE ParserInv'
  BY <1>1, <1>2, <1>3, <1>8 DEF mark_event_as_noise, RulesCurrent, NoiseNotSampled
<1>9. ASSUME NEW w, RecordSample(w) PROVE ParserInv'
  BY <1>1, <1>2, <1>3, <1>9 DEF RecordSample, RulesCurrent, NoiseNotSampled
<1>10. CASE UNCHANGED parserVars
  BY <1>1, <1>2, <1>3, <1>10 DEF parserVars, RulesCurrent, NoiseNotSampled
<1>. QED  BY <1>4, <1>5, <1>6, <1>7, <1>8, <1>9, <1>10, LineCounted DEF ParserNext

LEMMA ParserInvSuffices == ParserInv => RulesOnlyAdd /\ NoiseNotSampled
<1>. SUFFICES ASSUME ParserInv PROVE RulesOnlyAdd
  BY DEF ParserInv
<1>1. \A line : classify(line) # Unknown => Outcome(line, rules) = classify(line)
  BY DEF Outcome
<1>. QED  BY <1>1, Zenon DEF ParserInv, RulesOnlyAdd, RulesCurrent, MadeEvents, AsBuiltIn
-----------------------------------------------------------------------------
WindowTyped == window \in Seq(WindowKinds)

LEMMA WindowInductive == WindowTyped /\ (Grow \/ UNCHANGED window) => WindowTyped'
BY DEF WindowTyped, Grow

LEMMA RulesAreFit == RulesOK(MCRules) /\ RulesMean(MCRules)
<1>1. /\ Len(MCRules) = 2 /\ DOMAIN MCRules = 1..2
      /\ MCRules[1] = [id |-> "loadout", anchor |-> "a", member |-> "a", min |-> 3, gap |-> 1]
      /\ MCRules[2] = [id |-> "stowed", anchor |-> "b", member |-> "b", min |-> 2, gap |-> 0]
  BY DEF MCRules
<1>2. \A k \in 1..2 : k = 1 \/ k = 2
  OBVIOUS
<1>3. RuleOK(MCRules[1]) /\ RuleOK(MCRules[2])
  BY <1>1 DEF RuleOK
<1>4. RulesMean(MCRules)
  BY <1>1, <1>2, <1>3 DEF RulesMean
<1>5. RulesOK(MCRules)
  BY <1>1, <1>2 DEF RulesOK
<1>. QED  BY <1>4, <1>5

LEMMA BurstsAsMeant == WindowTyped => FindsWhatIsMeant /\ BurstsOnlyGrow
<1>. SUFFICES ASSUME WindowTyped PROVE FindsWhatIsMeant /\ BurstsOnlyGrow
  OBVIOUS
<1>. DEFINE n == Len(window)
<1>1. n \in Nat /\ DOMAIN window = 1..n
  BY DEF WindowTyped
<1>2. Hits(window) = MeantBursts(window, MCRules)
  BY <1>1, RulesAreFit, DetectMeans DEF Hits
<1>3. \A g, h \in Hits(window) : g # h => g.members \cap h.members = {}
  <2>1. WindowOK(window)
    BY <1>1, LastOf
  <2>2. Apart(DetectBursts(window, MCRules))
    BY <2>1, RulesAreFit, DetectHits
  <2>. QED  BY <2>2, Zenon DEF Apart, Hits
<1>4. ASSUME window # <<>>
      PROVE  \A h \in Hits(Front(window)) : \E g \in Hits(window) :
               g.rule = h.rule /\ Anchor(g) = Anchor(h) /\ h.members \subseteq g.members
  <2>. DEFINE small == Front(window)
  <2>1. n - 1 \in Nat /\ n - 1 <= n /\ small = SubSeq(window, 1, n - 1)
    BY <1>1, <1>4 DEF WindowTyped, Front
  <2>2. DOMAIN small = 1..(n - 1) /\ \A i \in 1..(n - 1) : small[i] = window[i]
    BY <1>1, <2>1 DEF WindowTyped
  <2>. DEFINE k == n - 1
  <2>4. k \in Nat /\ k <= n /\ DOMAIN small = 1..k /\ \A i \in 1..k : small[i] = window[i]
    BY <2>1, <2>2
  <2>. HIDE DEF small, k, n
  <2>3. BurstsStay(small, window, MCRules)
    BY <1>1, <2>4, RulesAreFit, DetectGrows
  <2>. QED  BY <2>3, Zenon DEF BurstsStay, Hits, small
<1>. QED  BY <1>2, <1>3, <1>4 DEF FindsWhatIsMeant, BurstsOnlyGrow

(* Whatever rules are published, fetched and compiled while lines are      *)
(* read, the built-in rules decide first, the active rules are the cached  *)
(* ones and every recognised line is counted; noise is not sampled; the    *)
(* bursts of a window are what the rules mean, and stay as it grows; and   *)
(* what is inferred from a log agrees with its events and transactions.    *)
THEOREM DerivationsHold == ClientSpec => []DerivedAsMeant
<1>. DEFINE Inv == ParserInv /\ LoggedTyped /\ WindowTyped
<1>1. ClientInit => Inv
  BY ParserInitially, LoggedInitially DEF ClientInit, WindowTyped
<1>2. Inv /\ [ClientNext]_clientVars => Inv'
  <2>1. [ClientNext]_clientVars =>
          [ParserNext]_parserVars /\ [LoggedNext]_logged /\ (Grow \/ UNCHANGED window)
    BY DEF ClientNext, clientVars
  <2>. QED  BY <2>1, ParserInductive, LoggedInductive, WindowInductive
<1>3. Inv => DerivedAsMeant
  <2>. SUFFICES ASSUME Inv PROVE DerivedAsMeant
    OBVIOUS
  <2>1. EventsOK(logged, Len(logged))
    <3>1. /\ Len(logged) \in Nat /\ DOMAIN logged = 1..Len(logged)
          /\ \A k \in 1..Len(logged) : logged[k] \in [t : Int, kind : LoggedKinds]
      BY LoggedEvents, Zenon DEF LoggedTyped
    <3>. QED  BY <3>1 DEF EventsOK
  <2>2. InferenceAgrees
    BY <2>1, InferenceAgreesWith
  <2>. QED  BY <2>2, ParserInvSuffices, BurstsAsMeant DEF DerivedAsMeant
<1>. QED  BY <1>1, <1>2, <1>3, PTL DEF ClientSpec
-----------------------------------------------------------------------------
(* A batch in flight, with what was answered before, covers every row up   *)
(* to its highest id: ids are handed out in order, so no row can appear    *)
(* below it later.                                                         *)
BatchCovers ==
  \A w \in Workers :
    pc[w] \in {"awaiting", "answered"} =>
      \A i \in stored : i =< high[w] => i \in answered \cup batch[w]

(* A worker past the answer writes a cursor that is already covered.       *)
AnswerCovers ==
  \A w \in Workers : pc[w] = "answered" => batch[w] \subseteq answered

(* An answered event is stored or its own insert was refused.              *)
AnsweredSettled == \A i \in answered : rows[i] # {} \/ i \in refused

(* Every task but the current one has been told to stop, or is gone.       *)
OnlyCurrentRuns ==
  \A w \in Workers :
    /\ pc[w] # "off" => w =< spawned
    /\ pc[w] # "off" /\ ~aborted[w] => w = spawned

(* What was behind the cursor when an account's worker started stays       *)
(* behind it and out of that account's requests: a task that may still     *)
(* write the cursor writes it no lower.                                    *)
SettledKept ==
  \A p \in settled :
    /\ p[1] =< cursor /\ p[2] \notin rows[p[1]] /\ p \notin late
    /\ \A w \in Workers :
         /\ pc[w] = "answered" => p[1] =< high[w]
         /\ pc[w] = "awaiting" /\ ~aborted[w] => p[1] =< high[w]
         /\ pc[w] = "awaiting" /\ account[w] = p[2] => p[1] \notin batch[w]

(* The inductive invariant: what the cursor means, and what the change of  *)
(* workers and accounts leaves alone.                                      *)
DeliveryCore ==
  TypeOK /\ BatchCovers /\ AnswerCovers /\ AnsweredSettled /\ CursorOnlyPastAnswered
DeliveryInv == DeliveryCore /\ OnlyCurrentRuns /\ SettledKept
-----------------------------------------------------------------------------
(* What the ON CONFLICT insert does to the table: the events of S have a   *)
(* row for the account, and no row ever goes away.                         *)
LEMMA InsertKeepsRows ==
  ASSUME NEW a \in Accounts \cup {NoAccount}, NEW S, Insert(a, S),
         rows \in [Ids -> SUBSET (Accounts \cup {NoAccount})]
  PROVE  /\ rows' \in [Ids -> SUBSET (Accounts \cup {NoAccount})]
         /\ \A i \in Ids : i \in S => rows'[i] # {}
         /\ \A i \in Ids : rows[i] # {} => rows'[i] # {}
         /\ \A i \in Ids : \A b : b \in rows'[i] => b \in rows[i] \/ (b = a /\ i \in S)
BY DEF Insert

(* Requests that nobody waits for any more are of events given out.        *)
LEMMA LostTyped ==
  ASSUME TypeOK, NEW S \in SUBSET ((1..lastId) \X (Accounts \cup {NoAccount})), Lost(S)
  PROVE  /\ late' \subseteq (1..lastId) \X (Accounts \cup {NoAccount})
         /\ late' \subseteq late \cup S
BY DEF TypeOK, Lost

(* Leaving drain_once touches only the locals of the worker that leaves.   *)
LEMMA LeaveLocals ==
  ASSUME NEW w \in Workers, NEW place \in {"off", "idle"}, Leave(w, place), TypeOK
  PROVE  /\ pc' \in [Workers -> Places]
         /\ batch' \in [Workers -> SUBSET (1..lastId)]
         /\ high' \in [Workers -> 0..lastId]
         /\ pc'[w] = place
         /\ \A v \in Workers :
              \/ v = w
              \/ pc'[v] = pc[v] /\ batch'[v] = batch[v] /\ high'[v] = high[v]
BY DEF Leave, TypeOK, Places

(* Ids given out are numbers and rows of the server's table.               *)
LEMMA IdFacts ==
  ASSUME TypeOK
  PROVE  /\ lastId \in Nat /\ cursor \in Nat
         /\ 1..lastId \subseteq Ids
         /\ \A w \in Workers : batch[w] \subseteq 1..lastId /\ high[w] \in Nat
         /\ \A w \in Workers : account[w] \in Accounts \cup {NoAccount}
         /\ \A w \in Workers : Underway(w) \in SUBSET ((1..lastId) \X (Accounts \cup {NoAccount}))
         /\ \A p \in settled : p[1] \in Nat /\ p[1] \in Ids
BY MaxEventsAssumption DEF TypeOK, Ids, Underway

(* The steps of a task in drain_once, but the cursor write.                *)
LEMMA DrainCore ==
  ASSUME DeliveryCore, NEW w \in Workers,
         StartDrain(w) \/ Ingest(w) \/ IngestFails(w) \/ IngestRejected(w)
  PROVE  DeliveryCore'
<1>. USE DEF DeliveryCore
<1>1. CASE StartDrain(w)
  <2>1. PICK h \in stored :
          /\ batch' = [batch EXCEPT ![w] = Unsent(h)]
          /\ high' = [high EXCEPT ![w] = h]
    BY <1>1 DEF StartDrain
  <2>2. TypeOK'
    <3>1. Unsent(h) \subseteq 1..lastId /\ h \in 0..lastId
      <4>1. \A i \in stored : i \in 1..lastId
        BY DEF TypeOK
      <4>. QED  BY <4>1, IdFacts DEF Unsent
    <3>2. /\ batch' \in [Workers -> SUBSET (1..lastId)]
          /\ high' \in [Workers -> 0..lastId]
      BY <2>1, <3>1 DEF TypeOK
    <3>. QED  BY <1>1, <3>2 DEF StartDrain, table, session, server, TypeOK, Places
  <2>3. BatchCovers'
    <3>. SUFFICES ASSUME NEW v \in Workers, pc'[v] \in {"awaiting", "answered"},
                         NEW i \in stored, i =< high'[v]
                  PROVE  i \in answered \cup batch'[v]
      BY <1>1 DEF BatchCovers, StartDrain, table, server
    <3>1. CASE v = w
      <4>1. i =< h /\ batch'[v] = Unsent(h)
        BY <2>1, <3>1 DEF TypeOK
      <4>2. i \in Nat /\ cursor \in Nat
        BY IdFacts DEF TypeOK
      <4>. QED  BY <4>1, <4>2 DEF Unsent, CursorOnlyPastAnswered
    <3>2. CASE v # w
      BY <1>1, <2>1, <3>2 DEF StartDrain, TypeOK, BatchCovers
    <3>. QED  BY <3>1, <3>2
  <2>4. AnswerCovers'
    BY <1>1, <2>1 DEF StartDrain, server, TypeOK, AnswerCovers
  <2>. QED
    BY <1>1, <2>2, <2>3, <2>4
       DEF StartDrain, table, server, AnsweredSettled, CursorOnlyPastAnswered
<1>2. CASE Ingest(w)
  <2>1. PICK bad \in SUBSET batch[w] :
          Insert(account[w], batch[w] \ bad) /\ refused' = refused \cup bad
    BY <1>2 DEF Ingest
  <2>. DEFINE acc == account[w]
  <2>. acc \in Accounts \cup {NoAccount}
    BY IdFacts
  <2>2. /\ rows' \in [Ids -> SUBSET (Accounts \cup {NoAccount})]
        /\ \A i \in Ids : i \in batch[w] \ bad => rows'[i] # {}
        /\ \A i \in Ids : rows[i] # {} => rows'[i] # {}
    <3>1. Insert(acc, batch[w] \ bad) /\ rows \in [Ids -> SUBSET (Accounts \cup {NoAccount})]
      BY <2>1 DEF TypeOK
    <3>. HIDE DEF acc
    <3>. QED  BY <3>1, InsertKeepsRows
  <2>3. batch[w] \subseteq 1..lastId /\ 1..lastId \subseteq Ids
    BY IdFacts
  <2>4. late' \subseteq (1..lastId) \X (Accounts \cup {NoAccount})
    BY <1>2, LostTyped DEF Ingest
  <2>5. TypeOK'
    BY <1>2, <2>1, <2>2, <2>3, <2>4 DEF Ingest, table, session, TypeOK, Places
  <2>6. AnsweredSettled'
    BY <1>2, <2>1, <2>2, <2>3 DEF Ingest, TypeOK, AnsweredSettled
  <2>7. BatchCovers' /\ AnswerCovers' /\ CursorOnlyPastAnswered'
    BY <1>2 DEF Ingest, table, TypeOK, BatchCovers, AnswerCovers, CursorOnlyPastAnswered
  <2>. QED  BY <2>5, <2>6, <2>7
<1>3. CASE IngestFails(w)
  <2>1. PICK done \in SUBSET batch[w] : Insert(account[w], done)
    BY <1>3 DEF IngestFails
  <2>2. /\ rows' \in [Ids -> SUBSET (Accounts \cup {NoAccount})]
        /\ \A i \in Ids : rows[i] # {} => rows'[i] # {}
    BY <2>1, InsertKeepsRows, IdFacts DEF TypeOK
  <2>3. /\ Leave(w, "idle") /\ Lost({})
        /\ UNCHANGED <<table, cursor, session, answered, refused>>
    BY <1>3 DEF IngestFails
  <2>4. late' \subseteq (1..lastId) \X (Accounts \cup {NoAccount})
    BY <2>3, LostTyped
  <2>5. TypeOK'
    BY <2>2, <2>3, <2>4, LeaveLocals DEF TypeOK, table, session
  <2>6. BatchCovers' /\ AnswerCovers'
    BY <2>3, LeaveLocals DEF BatchCovers, AnswerCovers, table
  <2>7. AnsweredSettled'
    BY <2>2, <2>3, IdFacts DEF AnsweredSettled, TypeOK
  <2>. QED  BY <2>3, <2>5, <2>6, <2>7 DEF CursorOnlyPastAnswered, table
<1>4. CASE IngestRejected(w)
  <2>1. /\ Leave(w, "idle") /\ authLost' = TRUE /\ config' \in {NoAccount, config}
        /\ UNCHANGED <<table, cursor, spawned, account, aborted, settled, late, server>>
    BY <1>4 DEF IngestRejected
  <2>2. TypeOK'
    BY <2>1, LeaveLocals DEF TypeOK, table, server
  <2>3. BatchCovers' /\ AnswerCovers'
    BY <2>1, LeaveLocals DEF BatchCovers, AnswerCovers, table, server
  <2>. QED  BY <2>1, <2>2, <2>3 DEF CursorOnlyPastAnswered, AnsweredSettled, table, server
<1>. QED  BY <1>1, <1>2, <1>3, <1>4

(* A task that gives up, is dropped or writes its cursor.                  *)
LEMMA LeaveCore ==
  ASSUME DeliveryCore, NEW w \in Workers,
         Timeout(w) \/ Drop(w) \/ WriteCursor(w) \/ WriteCursorFails(w)
  PROVE  DeliveryCore'
<1>. USE DEF DeliveryCore
<1>1. CASE Timeout(w) \/ Drop(w)
  <2>1. PICK place \in {"off", "idle"} : Leave(w, place)
    BY <1>1 DEF Timeout, Drop
  <2>2. /\ Lost(Underway(w)) /\ UNCHANGED <<table, cursor, server>>
        /\ UNCHANGED <<config, authLost, spawned, account, settled>>
        /\ aborted' = aborted \/ aborted' = [aborted EXCEPT ![w] = FALSE]
    BY <1>1 DEF Timeout, Drop, session
  <2>3. late' \subseteq (1..lastId) \X (Accounts \cup {NoAccount})
    BY <2>2, LostTyped, IdFacts
  <2>4. TypeOK'
    BY <2>1, <2>2, <2>3, LeaveLocals DEF TypeOK, table, server
  <2>5. BatchCovers' /\ AnswerCovers'
    BY <2>1, <2>2, LeaveLocals DEF BatchCovers, AnswerCovers, table, server
  <2>. QED
    BY <2>2, <2>4, <2>5 DEF table, server, AnsweredSettled, CursorOnlyPastAnswered
<1>2. CASE WriteCursor(w)
  <2>1. /\ Leave(w, "idle") /\ cursor' = high[w]
        /\ UNCHANGED <<table, session, late, server>>
    BY <1>2 DEF WriteCursor
  <2>2. TypeOK'
    BY <2>1, LeaveLocals DEF TypeOK, table, session, server
  <2>3. BatchCovers' /\ AnswerCovers'
    BY <2>1, LeaveLocals DEF BatchCovers, AnswerCovers, table, server
  <2>4. CursorOnlyPastAnswered'
    BY <1>2, <2>1 DEF WriteCursor, BatchCovers, AnswerCovers, CursorOnlyPastAnswered, table,
                      server
  <2>. QED  BY <2>1, <2>2, <2>3, <2>4 DEF server, AnsweredSettled
<1>3. CASE WriteCursorFails(w)
  <2>1. /\ Leave(w, "idle")
        /\ UNCHANGED <<table, cursor, session, late, server>>
    BY <1>3 DEF WriteCursorFails
  <2>2. TypeOK' /\ BatchCovers' /\ AnswerCovers'
    BY <2>1, LeaveLocals DEF TypeOK, BatchCovers, AnswerCovers, table, session, server
  <2>. QED
    BY <2>1, <2>2 DEF table, server, AnsweredSettled, CursorOnlyPastAnswered
<1>. QED  BY <1>1, <1>2, <1>3

(* What start does: the next worker is one of the slots, and what it finds *)
(* behind the cursor are ids given out.                                    *)
LEMMA StartTyped ==
  ASSUME TypeOK, NEW a \in Accounts \cup {NoAccount}, start(a)
  PROVE  /\ spawned' \in Workers /\ account' \in [Workers -> Accounts \cup {NoAccount}]
         /\ settled' \subseteq (1..lastId) \X Accounts
         /\ a # NoAccount => spawned' = spawned + 1 /\ spawned + 1 \in Workers
         /\ a = NoAccount => spawned' = spawned
<1>1. Behind(a) \subseteq 1..lastId
  BY DEF TypeOK, Behind
<1>2. a # NoAccount => spawned + 1 \in Workers
  BY MaxSpawnsAssumption DEF start, TypeOK, Workers
<1>. QED  BY <1>1, <1>2 DEF start, TypeOK

(* Pairing, settings and restarts.                                         *)
LEMMA SessionCore ==
  ASSUME DeliveryCore, NEW a \in Accounts \cup {NoAccount},
         Pair(a) \/ SaveConfig(a) \/ (a = config /\ Restart)
  PROVE  DeliveryCore'
<1>. USE DEF DeliveryCore
<1>1. CASE Pair(a) \/ SaveConfig(a)
  <2>1. /\ config' = a /\ start(a) /\ authLost' \in BOOLEAN
        /\ aborted' = [aborted EXCEPT ![spawned] = pc[spawned] # "off"]
        /\ pc' = IF a = NoAccount THEN pc ELSE [pc EXCEPT ![spawned'] = "idle"]
        /\ UNCHANGED <<table, cursor, batch, high, late, server>>
    BY <1>1 DEF Pair, SaveConfig, Respawn, TypeOK
  <2>2. aborted' \in [Workers -> BOOLEAN] /\ pc' \in [Workers -> Places]
    BY <2>1, StartTyped DEF TypeOK, Places
  <2>3. TypeOK'
    BY <2>1, <2>2, StartTyped DEF TypeOK, table, server
  <2>4. \A w \in Workers : pc'[w] = pc[w] \/ pc'[w] = "idle"
    BY <2>1, StartTyped DEF TypeOK
  <2>. QED
    BY <2>1, <2>3, <2>4 DEF table, server, BatchCovers, AnswerCovers, AnsweredSettled,
                            CursorOnlyPastAnswered
<1>2. CASE a = config /\ Restart
  <2>1. \A w \in Workers : pc'[w] \in {"idle", "off"} /\ batch'[w] = {} /\ high'[w] = 0
    BY <1>2 DEF Restart
  <2>2. /\ start(a) /\ Lost(UNION {Underway(w) : w \in Workers})
        /\ UNCHANGED <<table, cursor, config, server>>
        /\ aborted' \in [Workers -> BOOLEAN] /\ authLost' \in BOOLEAN
    BY <1>2 DEF Restart
  <2>3. late' \subseteq (1..lastId) \X (Accounts \cup {NoAccount})
    <3>1. UNION {Underway(w) : w \in Workers}
            \in SUBSET ((1..lastId) \X (Accounts \cup {NoAccount}))
      BY IdFacts
    <3>. QED  BY <2>2, <3>1, LostTyped
  <2>4. /\ pc' \in [Workers -> Places]
        /\ batch' \in [Workers -> SUBSET (1..lastId)]
        /\ high' \in [Workers -> 0..lastId]
    BY <1>2, IdFacts DEF Restart, Places
  <2>5. TypeOK'
    BY <2>2, <2>3, <2>4, StartTyped DEF TypeOK, table, server
  <2>. QED
    BY <2>1, <2>2, <2>5 DEF table, server, BatchCovers, AnswerCovers, AnsweredSettled,
                            CursorOnlyPastAnswered
<1>. QED  BY <1>1, <1>2

(* Every step preserves what the cursor means.                             *)
LEMMA CoreStep ==
  ASSUME DeliveryCore, [Next]_vars
  PROVE  DeliveryCore'
<1>1. CASE InsertEvent
  <2>. USE DEF DeliveryCore
  <2>1. /\ lastId \in Nat /\ lastId' = lastId + 1 /\ lastId' \in 0..MaxEvents
        /\ stored' = stored \cup {lastId'}
    BY <1>1, MaxEventsAssumption DEF InsertEvent, TypeOK
  <2>2. TypeOK'
    BY <1>1, <2>1 DEF InsertEvent, session, flight, server, TypeOK
  <2>3. BatchCovers' /\ CursorOnlyPastAnswered'
    BY <1>1, <2>1 DEF InsertEvent, flight, server, TypeOK, BatchCovers, CursorOnlyPastAnswered
  <2>. QED
    BY <1>1, <2>2, <2>3 DEF InsertEvent, flight, server, AnswerCovers, AnsweredSettled
<1>2. ASSUME NEW i \in stored, DeleteEvent(i)
      PROVE  DeliveryCore'
  BY <1>2 DEF DeleteEvent, DeliveryCore, session, flight, server, TypeOK, BatchCovers,
              AnswerCovers, AnsweredSettled, CursorOnlyPastAnswered
<1>3. ASSUME NEW w \in Workers,
             \/ StartDrain(w) \/ Ingest(w) \/ IngestRejected(w) \/ IngestFails(w)
             \/ Timeout(w) \/ WriteCursor(w) \/ WriteCursorFails(w) \/ Drop(w)
      PROVE  DeliveryCore'
  BY <1>3, DrainCore, LeaveCore
<1>4. ASSUME NEW p \in late, IngestLate(p)
      PROVE  DeliveryCore'
  <2>. USE DEF DeliveryCore
  <2>1. p[2] \in Accounts \cup {NoAccount} /\ Insert(p[2], {p[1]})
    BY <1>4 DEF IngestLate, TypeOK
  <2>2. /\ rows' \in [Ids -> SUBSET (Accounts \cup {NoAccount})]
        /\ \A i \in Ids : rows[i] # {} => rows'[i] # {}
    BY <2>1, InsertKeepsRows DEF TypeOK
  <2>3. AnsweredSettled'
    BY <1>4, <2>2, IdFacts DEF IngestLate, AnsweredSettled, TypeOK
  <2>. QED
    BY <1>4, <2>2, <2>3 DEF IngestLate, table, session, flight, TypeOK, BatchCovers,
                            AnswerCovers, CursorOnlyPastAnswered
<1>5. ASSUME NEW a \in Accounts \cup {NoAccount}, Pair(a) \/ SaveConfig(a)
      PROVE  DeliveryCore'
  BY <1>5, SessionCore
<1>6. CASE Restart
  <2>1. config \in Accounts \cup {NoAccount}
    BY DEF DeliveryCore, TypeOK
  <2>. QED  BY <1>6, <2>1, SessionCore
<1>7. CASE AccountAnswer
  BY <1>7 DEF AccountAnswer, DeliveryCore, table, flight, server, TypeOK, BatchCovers,
              AnswerCovers, AnsweredSettled, CursorOnlyPastAnswered
<1>8. CASE UNCHANGED vars
  BY <1>8 DEF vars, DeliveryCore, table, session, flight, server, TypeOK, BatchCovers,
              AnswerCovers, AnsweredSettled, CursorOnlyPastAnswered
<1>. QED
  BY <1>1, <1>2, <1>3, <1>4, <1>5, <1>6, <1>7, <1>8 DEF Next
-----------------------------------------------------------------------------
(* Steps inside drain_once: a drain begins above the cursor, so what is    *)
(* behind it is in no new batch and below every cursor still to be written.*)
LEMMA DrainSettled ==
  ASSUME DeliveryInv, NEW w \in Workers,
         \/ StartDrain(w) \/ Ingest(w) \/ IngestRejected(w) \/ IngestFails(w)
         \/ Timeout(w) \/ WriteCursor(w) \/ WriteCursorFails(w) \/ Drop(w)
  PROVE  OnlyCurrentRuns' /\ SettledKept'
<1>. USE DEF DeliveryInv, DeliveryCore
<1>1. CASE StartDrain(w)
  <2>1. PICK h \in stored :
          /\ h > cursor
          /\ batch' = [batch EXCEPT ![w] = Unsent(h)]
          /\ high' = [high EXCEPT ![w] = h]
    BY <1>1 DEF StartDrain, IsBatchEnd
  <2>2. pc' = [pc EXCEPT ![w] = "awaiting"] /\ pc[w] = "idle"
        /\ UNCHANGED <<table, cursor, session, late, server>>
    BY <1>1 DEF StartDrain
  <2>3. OnlyCurrentRuns'
    BY <2>2 DEF OnlyCurrentRuns, session, TypeOK
  <2>4. ASSUME NEW p \in settled, NEW v \in Workers
        PROVE  /\ pc'[v] = "answered" => p[1] =< high'[v]
               /\ pc'[v] = "awaiting" /\ ~aborted[v] => p[1] =< high'[v]
               /\ pc'[v] = "awaiting" /\ account[v] = p[2] => p[1] \notin batch'[v]
    <3>1. p[1] \in Nat /\ cursor \in Nat /\ h \in Nat /\ p[1] =< cursor
      BY IdFacts DEF SettledKept, TypeOK
    <3>2. CASE v = w
      BY <2>1, <2>2, <3>1, <3>2 DEF TypeOK, Unsent
    <3>3. CASE v # w
      BY <2>1, <2>2, <3>3 DEF TypeOK, SettledKept
    <3>. QED  BY <3>2, <3>3
  <2>. QED  BY <2>2, <2>3, <2>4 DEF SettledKept, session, server
<1>2. CASE Ingest(w)
  <2>1. PICK bad \in SUBSET batch[w] : Insert(account[w], batch[w] \ bad)
    BY <1>2 DEF Ingest
  <2>2. /\ pc' = [pc EXCEPT ![w] = "answered"] /\ pc[w] = "awaiting" /\ ~aborted[w]
        /\ Lost({}) /\ UNCHANGED <<table, cursor, session, batch, high>>
    BY <1>2 DEF Ingest
  <2>3. \A i \in Ids : \A b : b \in rows'[i] => b \in rows[i] \/ (b = account[w] /\ i \in batch[w])
    BY <2>1, InsertKeepsRows, IdFacts DEF TypeOK
  <2>4. \A p \in settled : p[2] \notin rows'[p[1]] /\ p \notin late'
    BY <2>2, <2>3, IdFacts, LostTyped DEF SettledKept
  <2>5. OnlyCurrentRuns'
    BY <2>2 DEF OnlyCurrentRuns, session, TypeOK
  <2>. QED  BY <2>2, <2>4, <2>5 DEF SettledKept, session, TypeOK
<1>3. CASE IngestFails(w)
  <2>1. PICK done \in SUBSET batch[w] : Insert(account[w], done)
    BY <1>3 DEF IngestFails
  <2>2. /\ Leave(w, "idle") /\ pc[w] = "awaiting" /\ Lost({})
        /\ UNCHANGED <<table, cursor, session>>
    BY <1>3 DEF IngestFails
  <2>3. \A i \in Ids : \A b : b \in rows'[i] => b \in rows[i] \/ (b = account[w] /\ i \in batch[w])
    BY <2>1, InsertKeepsRows, IdFacts DEF TypeOK
  <2>4. \A p \in settled : p[2] \notin rows'[p[1]] /\ p \notin late'
    BY <2>2, <2>3, IdFacts, LostTyped DEF SettledKept
  <2>. QED  BY <2>2, <2>4, LeaveLocals DEF OnlyCurrentRuns, SettledKept, session
<1>4. CASE IngestRejected(w) \/ WriteCursorFails(w)
  <2>1. /\ Leave(w, "idle") /\ pc[w] # "off"
        /\ UNCHANGED <<cursor, spawned, account, aborted, settled, late, rows>>
    BY <1>4 DEF IngestRejected, WriteCursorFails, session, server
  <2>. QED  BY <2>1, LeaveLocals DEF OnlyCurrentRuns, SettledKept
<1>5. CASE Timeout(w) \/ Drop(w)
  <2>1. PICK place \in {"off", "idle"} :
          Leave(w, place) /\ (place = "off" \/ (aborted' = aborted /\ pc[w] # "off"))
    BY <1>5 DEF Timeout, Drop, session
  <2>2. /\ Lost(Underway(w)) /\ UNCHANGED <<cursor, spawned, account, settled, rows>>
        /\ \A v \in Workers : v # w => aborted'[v] = aborted[v]
    BY <1>5 DEF Timeout, Drop, session, server, TypeOK
  <2>3. \A p \in settled : p \notin late'
    <3>1. \A p \in settled : p \notin late /\ p \notin Underway(w)
      BY DEF SettledKept, Underway
    <3>. QED  BY <2>2, <3>1, LostTyped, IdFacts
  <2>4. OnlyCurrentRuns'
    <3>. SUFFICES ASSUME NEW v \in Workers, pc'[v] # "off"
                  PROVE  v =< spawned /\ (~aborted'[v] => v = spawned)
      BY <2>2 DEF OnlyCurrentRuns
    <3>1. pc[v] # "off" /\ aborted'[v] = aborted[v]
      BY <2>1, <2>2, LeaveLocals
    <3>. QED  BY <3>1 DEF OnlyCurrentRuns
  <2>. QED  BY <2>1, <2>2, <2>3, <2>4, LeaveLocals DEF SettledKept
<1>6. CASE WriteCursor(w)
  <2>1. /\ Leave(w, "idle") /\ pc[w] = "answered" /\ cursor' = high[w]
        /\ UNCHANGED <<table, session, late, server>>
    BY <1>6 DEF WriteCursor
  <2>. QED  BY <2>1, LeaveLocals DEF OnlyCurrentRuns, SettledKept, session, server
<1>. QED  BY <1>1, <1>2, <1>3, <1>4, <1>5, <1>6

(* What is new among the settled pairs is behind the cursor, behind every  *)
(* cursor still to be written, and neither stored for the account nor on   *)
(* its way; what was settled before stays so.                              *)
LEMMA StartSettled ==
  ASSUME DeliveryInv, NEW a \in Accounts \cup {NoAccount}, start(a)
  PROVE  \A p \in settled' :
           /\ p[1] =< cursor /\ p[2] \notin rows[p[1]] /\ p \notin late
           /\ \A w \in Workers :
                /\ pc[w] = "answered" => p[1] =< high[w]
                /\ pc[w] = "awaiting" /\ account[w] = p[2] => p[1] \notin batch[w]
<1>. USE DEF DeliveryInv, DeliveryCore
<1>. TAKE p \in settled'
<1>1. CASE p \in settled
  BY <1>1 DEF SettledKept
<1>2. CASE p \notin settled
  <2>1. PICK i \in Behind(a) : p = <<i, a>>
    BY <1>2 DEF start
  <2>. QED  BY <2>1, IdFacts DEF Behind
<1>. QED  BY <1>1, <1>2

(* The change of workers.                                                  *)
LEMMA SessionSettled ==
  ASSUME DeliveryInv, NEW a \in Accounts \cup {NoAccount},
         Pair(a) \/ SaveConfig(a) \/ (a = config /\ Restart)
  PROVE  OnlyCurrentRuns' /\ SettledKept'
<1>. USE DEF DeliveryInv, DeliveryCore
<1>1. CASE Pair(a) \/ SaveConfig(a)
  <2>1. /\ start(a)
        /\ aborted' = [aborted EXCEPT ![spawned] = pc[spawned] # "off"]
        /\ pc' = IF a = NoAccount THEN pc ELSE [pc EXCEPT ![spawned'] = "idle"]
        /\ UNCHANGED <<table, cursor, batch, high, late, server>>
    BY <1>1 DEF Pair, SaveConfig, Respawn
  <2>2. spawned \in Nat /\ spawned' \in Nat /\ (\A w \in Workers : w \in Nat)
    <3>1. spawned' \in Workers
      BY <2>1, StartTyped
    <3>. QED  BY <3>1 DEF TypeOK, Workers
  <2>3. ASSUME NEW w \in Workers, pc'[w] # "off"
        PROVE  w =< spawned' /\ (~aborted'[w] => w = spawned')
    <3>1. CASE a = NoAccount
      BY <2>1, <2>2, <2>3, <3>1, StartTyped DEF OnlyCurrentRuns, TypeOK
    <3>2. CASE a # NoAccount /\ w = spawned'
      BY <2>2, <3>2
    <3>3. CASE a # NoAccount /\ w # spawned'
      <4>1. pc'[w] = pc[w] /\ spawned' = spawned + 1
        BY <2>1, <3>3, StartTyped DEF TypeOK
      <4>2. pc[w] # "off" /\ w =< spawned
        BY <2>3, <4>1 DEF OnlyCurrentRuns
      <4>3. aborted'[w]
        <5>1. CASE w = spawned
          BY <2>1, <4>2, <5>1 DEF TypeOK
        <5>2. CASE w # spawned
          BY <2>1, <4>2, <5>2 DEF OnlyCurrentRuns, TypeOK
        <5>. QED  BY <5>1, <5>2
      <4>. QED  BY <2>2, <4>1, <4>2, <4>3
    <3>. QED  BY <3>1, <3>2, <3>3
  <2>4. \A w \in Workers : pc'[w] = pc[w] \/ pc'[w] = "idle"
    BY <2>1, StartTyped DEF TypeOK
  <2>5. \A w \in Workers : pc'[w] = "awaiting" => aborted'[w] \/ w = spawned'
    BY <2>3
  <2>6. \A w \in Workers : pc'[w] = "awaiting" => aborted'[w]
    <3>. SUFFICES ASSUME NEW w \in Workers, pc'[w] = "awaiting"
                  PROVE  aborted'[w]
      OBVIOUS
    <3>1. pc[w] = "awaiting"
      BY <2>4
    <3>2. CASE a = NoAccount
      BY <2>1, <2>5, <3>1, <3>2, StartTyped DEF TypeOK
    <3>3. CASE a # NoAccount
      BY <2>1, <2>5, <3>3, StartTyped DEF TypeOK
    <3>. QED  BY <3>2, <3>3
  <2>7. \A w \in Workers : pc[w] # "off" => account'[w] = account[w]
    <3>1. \A w \in Workers : w # spawned + 1 => account'[w] = account[w]
      BY <2>1 DEF start, TypeOK
    <3>. QED  BY <2>2, <3>1 DEF OnlyCurrentRuns
  <2>8. SettledKept'
    BY <2>1, <2>4, <2>6, <2>7, StartSettled DEF SettledKept, server
  <2>. QED  BY <2>3, <2>8 DEF OnlyCurrentRuns
<1>2. CASE a = config /\ Restart
  <2>1. /\ start(a) /\ Lost(UNION {Underway(w) : w \in Workers})
        /\ UNCHANGED <<cursor, rows>>
        /\ \A w \in Workers :
             pc'[w] = (IF w = spawned + 1 /\ a # NoAccount THEN "idle" ELSE "off")
    BY <1>2 DEF Restart, server
  <2>2. OnlyCurrentRuns'
    <3>1. \A w \in Workers : pc'[w] # "off" => w = spawned'
      BY <2>1, StartTyped
    <3>2. spawned' \in Nat
      BY <2>1, StartTyped DEF Workers
    <3>. QED  BY <3>1, <3>2 DEF OnlyCurrentRuns
  <2>3. \A p \in settled' : p \notin late'
    <3>1. \A p \in settled' : p \notin late /\ \A w \in Workers : p \notin Underway(w)
      BY <2>1, StartSettled DEF Underway
    <3>. QED  BY <2>1, <3>1 DEF Lost
  <2>. QED  BY <2>1, <2>2, <2>3, StartSettled DEF SettledKept
<1>. QED  BY <1>1, <1>2

(* Every step keeps what was settled.                                      *)
LEMMA SettledStep ==
  ASSUME DeliveryInv, [Next]_vars
  PROVE  OnlyCurrentRuns' /\ SettledKept'
<1>1. ASSUME NEW w \in Workers,
             \/ StartDrain(w) \/ Ingest(w) \/ IngestRejected(w) \/ IngestFails(w)
             \/ Timeout(w) \/ WriteCursor(w) \/ WriteCursorFails(w) \/ Drop(w)
      PROVE  OnlyCurrentRuns' /\ SettledKept'
  BY <1>1, DrainSettled
<1>2. CASE InsertEvent \/ (\E i \in stored : DeleteEvent(i)) \/ AccountAnswer \/ UNCHANGED vars
  <2>1. UNCHANGED <<cursor, spawned, account, aborted, settled, pc, batch, high, late, rows>>
    BY <1>2 DEF InsertEvent, DeleteEvent, AccountAnswer, vars, session, flight, server
  <2>. QED  BY <2>1 DEF DeliveryInv, OnlyCurrentRuns, SettledKept
<1>3. ASSUME NEW q \in late, IngestLate(q)
      PROVE  OnlyCurrentRuns' /\ SettledKept'
  <2>1. /\ Insert(q[2], {q[1]}) /\ late' = late \ {q}
        /\ UNCHANGED <<table, cursor, session, flight>>
    BY <1>3 DEF IngestLate
  <2>2. q[1] \in Ids /\ q = <<q[1], q[2]>> /\ q[2] \in Accounts \cup {NoAccount}
    BY <1>3, IdFacts DEF DeliveryInv, DeliveryCore, TypeOK
  <2>3. \A i \in Ids : \A b : b \in rows'[i] => b \in rows[i] \/ (b = q[2] /\ i = q[1])
    BY <2>1, <2>2, InsertKeepsRows DEF DeliveryInv, DeliveryCore, TypeOK
  <2>4. \A p \in settled : p[2] \notin rows'[p[1]]
    <3>1. \A p \in settled : p = <<p[1], p[2]>> /\ p[1] \in Ids /\ p # q
      BY <1>3, IdFacts DEF DeliveryInv, DeliveryCore, TypeOK, SettledKept
    <3>. QED  BY <2>2, <2>3, <3>1 DEF DeliveryInv, SettledKept
  <2>. QED
    BY <2>1, <2>4 DEF DeliveryInv, OnlyCurrentRuns, SettledKept, session, flight
<1>4. ASSUME NEW a \in Accounts \cup {NoAccount}, Pair(a) \/ SaveConfig(a)
      PROVE  OnlyCurrentRuns' /\ SettledKept'
  BY <1>4, SessionSettled
<1>5. CASE Restart
  <2>1. config \in Accounts \cup {NoAccount}
    BY DEF DeliveryInv, DeliveryCore, TypeOK
  <2>. QED  BY <1>5, <2>1, SessionSettled
<1>. QED  BY <1>1, <1>2, <1>3, <1>4, <1>5 DEF Next

(* The inductive invariant holds throughout.                               *)
LEMMA DeliveryInvariant == Spec => []DeliveryInv
<1>1. Init => DeliveryInv
  <2>. SUFFICES ASSUME Init
                PROVE  DeliveryInv
    OBVIOUS
  <2>. USE DEF Init
  <2>1. 1 \in Workers /\ 1 \in Accounts
    BY MaxSpawnsAssumption DEF Workers, Accounts
  <2>2. TypeOK
    <3>1. /\ account \in [Workers -> Accounts \cup {NoAccount}] /\ pc \in [Workers -> Places]
          /\ aborted \in [Workers -> BOOLEAN] /\ spawned \in Workers
      BY <2>1 DEF Places
    <3>2. batch \in [Workers -> SUBSET (1..lastId)] /\ high \in [Workers -> 0..lastId]
      OBVIOUS
    <3>3. lastId \in 0..MaxEvents /\ cursor \in 0..lastId
      BY MaxEventsAssumption
    <3>. QED  BY <2>1, <3>1, <3>2, <3>3 DEF TypeOK
  <2>3. BatchCovers /\ AnswerCovers /\ AnsweredSettled /\ CursorOnlyPastAnswered
    BY DEF BatchCovers, AnswerCovers, AnsweredSettled, CursorOnlyPastAnswered
  <2>4. OnlyCurrentRuns /\ SettledKept
    BY DEF OnlyCurrentRuns, SettledKept
  <2>. QED  BY <2>2, <2>3, <2>4 DEF DeliveryInv, DeliveryCore
<1>2. DeliveryInv /\ [Next]_vars => DeliveryInv'
  BY CoreStep, SettledStep DEF DeliveryInv
<1>. QED  BY <1>1, <1>2, PTL DEF Spec

(* The sync cursor never passes an event the server has not answered for,  *)
(* for any number of events, workers, pairings, retries and restarts.      *)
THEOREM CursorSafe == Spec => []CursorOnlyPastAnswered
<1>1. DeliveryInv => CursorOnlyPastAnswered
  BY DEF DeliveryInv, DeliveryCore
<1>. QED  BY <1>1, DeliveryInvariant, PTL

(* An event behind the cursor is on the server or was refused by itself.   *)
THEOREM DeliverySafe == Spec => []DeliveredOrRefused
<1>1. DeliveryInv => DeliveredOrRefused
  BY DEF DeliveryInv, DeliveryCore, CursorOnlyPastAnswered, AnsweredSettled, DeliveredOrRefused
<1>. QED  BY <1>1, DeliveryInvariant, PTL

(* What was behind the cursor when the worker of another account started   *)
(* is never sent to that account, however many aborted workers still write *)
(* the cursor and whatever requests are late.                              *)
THEOREM NextAccountSpared == Spec => []NotSentToNext
<1>1. DeliveryInv => NotSentToNext
  BY DEF DeliveryInv, SettledKept, NotSentToNext
<1>. QED  BY <1>1, DeliveryInvariant, PTL

(* Ids, cursors, batches and the two tables keep their types for any number *)
(* of events and workers: in particular the cursor and every batch stay    *)
(* within the ids handed out, across restarts.                             *)
THEOREM DeliveryTyped == Spec => []TypeOK
<1>1. DeliveryInv => TypeOK
  BY DEF DeliveryInv, DeliveryCore
<1>. QED  BY <1>1, DeliveryInvariant, PTL
=============================================================================
