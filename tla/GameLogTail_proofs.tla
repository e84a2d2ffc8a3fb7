------------------------- MODULE GameLogTail_proofs -------------------------
(***************************************************************************)
(* Proofs about GameLogTail for any kinds of lines, any rules that share   *)
(* no lines, and any number of lines, sessions, restarts and I/O errors.   *)
(*                                                                         *)
(* What makes the tail hard to reason about is the idempotency key: rows   *)
(* are dropped when their keys collide, and the key of a summary is only   *)
(* its first line, its rule and its size.  Walks from one anchor are       *)
(* nested (ChainsNest), so first line and size give the members            *)
(* (SameBurst), and an insert never drops a row that is not there already  *)
(* (InsertIs).                                                             *)
(***************************************************************************)
EXTENDS GameLogTail, BurstDetection_proofs

(* The logs, and what of them the parser takes.                            *)
LogsTyped ==
  /\ logs \in Seq(Seq(Kinds)) /\ Len(logs) \in 1 .. MaxSessions
  /\ \A s \in 1 .. Len(logs) : Len(logs[s]) <= MaxLines

LEMMA Bounds == MaxLines \in Nat /\ MaxEarlier \in Nat /\ MaxSessions \in Nat /\ MaxRestarts \in Nat /\ MaxErrors \in Nat
<1>. QED  BY BoundsAssumption

LEMMA LogIs ==
  ASSUME LogsTyped, NEW s \in 1 .. Len(logs)
  PROVE  /\ logs[s] \in Seq(Kinds) /\ Len(logs[s]) \in Nat /\ DOMAIN logs[s] = 1 .. Len(logs[s])
         /\ Len(logs) \in Nat /\ DOMAIN logs = 1 .. Len(logs) /\ s \in Nat /\ s \in Sessions
<1>1. logs \in Seq(Seq(Kinds)) /\ Len(logs) \in Nat /\ Len(logs) <= MaxSessions /\ MaxSessions \in Nat
  BY LenProperties, Bounds DEF LogsTyped
<1>2. logs[s] \in Seq(Kinds)
  BY <1>1, ElementOfSeq
<1>. QED  BY <1>1, <1>2, LenProperties DEF Sessions

LEMMA MaxOf ==
  ASSUME NEW S, NEW n \in Nat, S \subseteq 0 .. n, S # {}
  PROVE  Max(S) \in S /\ \A y \in S : y <= Max(S)
<1>. DEFINE T == {n - x : x \in S}
<1>0. \A x \in S : x \in Nat /\ n - x \in Nat
  <2>1. \A x \in 0 .. n : x \in Nat /\ n - x \in Nat
    OBVIOUS
  <2>. QED  BY <2>1
<1>1. T \subseteq Nat /\ T # {}
  BY <1>0, Zenon
<1>2. PICK t \in T : \A u \in T : t <= u
  BY <1>1, LeastNat, Zenon
<1>3. PICK x \in S : t = n - x
  BY Zenon
<1>4. \A y \in S : x >= y
  <2>1. TAKE y \in S
  <2>2. n - y \in T
    BY Zenon
  <2>3. t <= n - y /\ x \in Nat /\ y \in Nat
    BY <1>0, <1>2, <2>2, Zenon
  <2>. HIDE DEF T
  <2>. QED  BY <1>3, <2>3
<1>. DEFINE m == CHOOSE z \in S : \A y \in S : z >= y
<1>5. m \in S /\ \A y \in S : m >= y
  BY <1>3, <1>4, Zenon
<1>6. Max(S) = m
  BY DEF Max
<1>7. \A y \in S : y \in Nat
  OBVIOUS
<1>. HIDE DEF m
<1>. QED  BY <1>5, <1>6, <1>7

LEMMA WindowIs ==
  ASSUME LogsTyped, NEW s \in 1 .. Len(logs), NEW from \in Nat, NEW to \in Nat
  PROVE  /\ DOMAIN Window(s, from, to) = {k \in from + 1 .. to : Parsed(s, k)}
         /\ \A k \in DOMAIN Window(s, from, to) : Window(s, from, to)[k] = logs[s][k]
         /\ WindowOK(Window(s, from, to)) /\ LastLine(Window(s, from, to)) <= to
<1>. DEFINE w == Window(s, from, to)
<1>1. DOMAIN w = {k \in from + 1 .. to : Parsed(s, k)} /\ \A k \in DOMAIN w : w[k] = logs[s][k]
  BY DEF Window
<1>. HIDE DEF w
<1>2. DOMAIN w \cup {0} \subseteq 0 .. to /\ DOMAIN w \cup {0} # {}
  BY <1>1
<1>3. LastLine(w) \in DOMAIN w \cup {0} /\ \A y \in DOMAIN w \cup {0} : y <= LastLine(w)
  BY <1>2, MaxOf DEF LastLine
<1>4. WindowOK(w) /\ LastLine(w) <= to
  BY <1>1, <1>2, <1>3 DEF WindowOK
<1>. QED  BY <1>1, <1>4 DEF w

LEMMA RulesAreOK == RulesOK(Rules) /\ DOMAIN Rules = 1 .. Len(Rules)
<1>1. Len(Rules) \in Nat /\ DOMAIN Rules = 1 .. Len(Rules)
  BY RulesAssumption, LenProperties
<1>2. \A n \in 1 .. Len(Rules) : Rules[n] \in [id : STRING \ {"line"}, anchor : Kinds, member : Kinds, min : Nat, gap : Nat]
  BY RulesAssumption, ElementOfSeq
<1>3. \A n \in 1 .. Len(Rules) : Rules[n].gap \in Nat
  BY <1>2
<1>. QED  BY <1>1, <1>3, RulesAssumption DEF RulesOK

LEMMA RuleIds ==
  ASSUME NEW m \in 1 .. Len(Rules), NEW n \in 1 .. Len(Rules)
  PROVE  Rules[m].id # "line" /\ (Rules[m].id = Rules[n].id => m = n) /\ Rules[m].gap \in Nat
<1>1. Rules[m] \in [id : STRING \ {"line"}, anchor : Kinds, member : Kinds, min : Nat, gap : Nat]
  BY RulesAssumption, ElementOfSeq
<1>. QED  BY <1>1, RulesAreOK, RulesAssumption
-----------------------------------------------------------------------------
(* Rows as the log means them: a line, or the walk of a rule from the      *)
(* row's first line to some line.                                          *)
LinesTo(log, e) == [k \in {k \in 1 .. e : log[k] # "u"} |-> log[k]]

BurstIn(m, log, rule) ==
  \E i, e \in 1 .. Len(log) :
    /\ i <= e /\ i \in m
    /\ \A k \in m : k \in i .. e /\ log[k] # "u"
    /\ Chain(LinesTo(log, e), rule, i, e, m)

RowOf(r, log) ==
  /\ r = [sess |-> r.sess, rule |-> r.rule, lines |-> r.lines]
  /\ \/ r.rule = "line" /\ \E i \in 1 .. Len(log) : log[i] \notin {"u", "x"} /\ r.lines = {i}
     \/ \E n \in 1 .. Len(Rules) : r.rule = Rules[n].id /\ BurstIn(r.lines, log, Rules[n])

LEMMA RowLines ==
  ASSUME NEW log, Len(log) \in Nat, NEW r, RowOf(r, log)
  PROVE  /\ r.lines \subseteq 1 .. Len(log) /\ r.lines # {}
         /\ \A k \in r.lines : log[k] # "u"
<1>1. CASE \E i \in 1 .. Len(log) : log[i] \notin {"u", "x"} /\ r.lines = {i}
  BY <1>1
<1>2. CASE \E n \in 1 .. Len(Rules) : r.rule = Rules[n].id /\ BurstIn(r.lines, log, Rules[n])
  BY <1>2 DEF BurstIn
<1>. QED  BY <1>1, <1>2 DEF RowOf

LEMMA AnchorIs ==
  ASSUME NEW m, m \subseteq Nat, NEW i \in m, \A k \in m : i <= k
  PROVE  Anchor([members |-> m]) = i
<1>. DEFINE P(z) == z \in m /\ \A k \in m : z <= k
            a == CHOOSE z \in m : \A k \in m : z <= k
<1>1. a \in m /\ \A k \in m : a <= k
  BY Zenon
<1>2. Anchor([members |-> m]) = a
  BY DEF Anchor
<1>. HIDE DEF a
<1>. QED  BY <1>1, <1>2

(* Two walks of a rule from one line: the shorter is in the longer.        *)
LEMMA ChainsNest ==
  ASSUME NEW log, NEW rule, rule.gap \in Nat, NEW i \in Nat, 1 <= i, NEW d \in Nat, NEW e \in Nat,
         i <= d, d <= e, NEW m, NEW n,
         Chain(LinesTo(log, d), rule, i, d, m), Chain(LinesTo(log, e), rule, i, e, n)
  PROVE  m \subseteq n
<1>1. PICK w : IsWalk(w, LinesTo(log, d), {}, rule, i, d) /\ m = w[d].members
  BY Zenon DEF Chain
<1>2. PICK v : IsWalk(v, LinesTo(log, e), {}, rule, i, e) /\ n = v[e].members
  BY Zenon DEF Chain
<1>3. ASSUME NEW j \in i + 1 .. d, NEW u
      PROVE  Step(LinesTo(log, d), {}, rule, u, j) = Step(LinesTo(log, e), {}, rule, u, j)
  <2>1. j \in 1 .. d /\ j \in 1 .. e
    OBVIOUS
  <2>2. /\ j \in DOMAIN LinesTo(log, d) <=> j \in DOMAIN LinesTo(log, e)
        /\ j \in DOMAIN LinesTo(log, d) => LinesTo(log, d)[j] = LinesTo(log, e)[j]
    BY <2>1 DEF LinesTo
  <2>. QED  BY <2>2 DEF Step
<1>4. \A j \in i .. d : w[j] = v[j]
  <2>1. \A j \in i + 1 .. d : \A u : Step(LinesTo(log, d), {}, rule, u, j) = Step(LinesTo(log, e), {}, rule, u, j)
    BY <1>3, Zenon
  <2>. QED  BY <1>1, <1>2, <2>1, WalksAgree
<1>5. d \in i .. d /\ d \in i .. e /\ e \in i .. e /\ i <= e
  OBVIOUS
<1>6. v[d].members \subseteq v[e].members
  BY <1>2, <1>5, WalksOn, Zenon
<1>. QED  BY <1>1, <1>2, <1>4, <1>5, <1>6, Zenon

(* Bursts of a rule that start at one line and have the same size are the  *)
(* same burst.                                                             *)
LEMMA SameBurst ==
  ASSUME NEW log, Len(log) \in Nat, NEW rule, rule.gap \in Nat, NEW m, NEW n,
         BurstIn(m, log, rule), BurstIn(n, log, rule),
         Anchor([members |-> m]) = Anchor([members |-> n]), Cardinality(m) = Cardinality(n)
  PROVE  m = n
<1>1. PICK i, d \in 1 .. Len(log) : /\ i <= d /\ i \in m /\ \A k \in m : k \in i .. d
                                    /\ Chain(LinesTo(log, d), rule, i, d, m)
  BY Zenon DEF BurstIn
<1>2. PICK j, e \in 1 .. Len(log) : /\ j <= e /\ j \in n /\ \A k \in n : k \in j .. e
                                    /\ Chain(LinesTo(log, e), rule, j, e, n)
  BY Zenon DEF BurstIn
<1>3. m \subseteq Nat /\ \A k \in m : i <= k /\ k <= d
  BY <1>1
<1>4. n \subseteq Nat /\ \A k \in n : j <= k /\ k <= e
  BY <1>2
<1>5. i = j
  BY <1>1, <1>2, <1>3, <1>4, AnchorIs
<1>6. d \in Nat /\ e \in Nat /\ i \in Nat /\ 1 <= i
  OBVIOUS
<1>7. IsFiniteSet(m) /\ IsFiniteSet(n)
  BY <1>3, <1>4, <1>6, FS_BoundedSetOfNaturals
<1>8. CASE d <= e
  <2>1. m \in SUBSET n
    BY <1>1, <1>2, <1>5, <1>6, <1>8, ChainsNest
  <2>. QED  BY <1>7, <2>1, FS_Subset
<1>9. CASE e <= d
  <2>1. n \in SUBSET m
    BY <1>1, <1>2, <1>5, <1>6, <1>9, ChainsNest
  <2>. QED  BY <1>7, <2>1, FS_Subset
<1>. QED  BY <1>6, <1>8, <1>9

(* Rows of one session with the same key are the same row.                 *)
LEMMA SameRow ==
  ASSUME NEW log, Len(log) \in Nat, NEW r, NEW q, RowOf(r, log), RowOf(q, log), SameKey(r, q)
  PROVE  r = q
<1>1. r.sess = q.sess /\ r.rule = q.rule
      /\ Anchor([members |-> r.lines]) = Anchor([members |-> q.lines])
      /\ Cardinality(r.lines) = Cardinality(q.lines)
  BY DEF SameKey
<1>2. SUFFICES r.lines = q.lines
  BY <1>1, <1>2 DEF RowOf
<1>3. CASE r.rule = "line"
  <2>1. q.rule = "line"
    BY <1>1, <1>3
  <2>2. PICK i \in 1 .. Len(log) : r.lines = {i}
    BY <1>3, RuleIds DEF RowOf
  <2>3. PICK j \in 1 .. Len(log) : q.lines = {j}
    BY <2>1, RuleIds DEF RowOf
  <2>4. Anchor([members |-> {i}]) = i /\ Anchor([members |-> {j}]) = j
    BY AnchorIs
  <2>. QED  BY <1>1, <2>2, <2>3, <2>4
<1>4. CASE r.rule # "line"
  <2>1. PICK m \in 1 .. Len(Rules) : r.rule = Rules[m].id /\ BurstIn(r.lines, log, Rules[m])
    BY <1>4 DEF RowOf
  <2>2. PICK n \in 1 .. Len(Rules) : q.rule = Rules[n].id /\ BurstIn(q.lines, log, Rules[n])
    BY <1>1, <1>4 DEF RowOf
  <2>3. m = n /\ Rules[m].gap \in Nat
    BY <1>1, <2>1, <2>2, RuleIds
  <2>. QED  BY <1>1, <2>1, <2>2, <2>3, SameBurst
<1>. QED  BY <1>3, <1>4

(* A log that has grown keeps its rows.                                    *)
LEMMA RowStays ==
  ASSUME NEW log, NEW more, Len(log) \in Nat, Len(more) \in Nat, Len(log) <= Len(more),
         \A k \in 1 .. Len(log) : more[k] = log[k], NEW r, RowOf(r, log)
  PROVE  RowOf(r, more)
<1>1. 1 .. Len(log) \subseteq 1 .. Len(more)
  OBVIOUS
<1>2. ASSUME NEW n \in 1 .. Len(Rules), BurstIn(r.lines, log, Rules[n])
      PROVE  BurstIn(r.lines, more, Rules[n])
  <2>1. PICK i, e \in 1 .. Len(log) :
          /\ i <= e /\ i \in r.lines
          /\ \A k \in r.lines : k \in i .. e /\ log[k] # "u"
          /\ Chain(LinesTo(log, e), Rules[n], i, e, r.lines)
    BY <1>2, Zenon DEF BurstIn
  <2>2. \A k \in 1 .. e : more[k] = log[k]
    OBVIOUS
  <2>3. LinesTo(log, e) = LinesTo(more, e)
    BY <2>2 DEF LinesTo
  <2>4. \A k \in i .. e : k \in 1 .. e
    OBVIOUS
  <2>. QED  BY <1>1, <2>1, <2>2, <2>3, <2>4, Zenon DEF BurstIn
<1>. QED  BY <1>1, <1>2, Zenon DEF RowOf
-----------------------------------------------------------------------------
(* What a drain and a sweep store.                                         *)
LEMMA SameChain ==
  ASSUME NEW window, NEW other, NEW rule, rule.gap \in Nat, NEW i \in Nat, NEW e \in Nat, i <= e,
         \A j \in i + 1 .. e : /\ j \in DOMAIN window <=> j \in DOMAIN other
                               /\ j \in DOMAIN window => window[j] = other[j],
         NEW m, Chain(window, rule, i, e, m)
  PROVE  Chain(other, rule, i, e, m)
<1>1. PICK w : IsWalk(w, window, {}, rule, i, e) /\ m = w[e].members
  BY Zenon DEF Chain
<1>2. PICK v : IsWalk(v, other, {}, rule, i, e)
  BY WalkExists
<1>3. \A j \in i + 1 .. e : \A u : Step(window, {}, rule, u, j) = Step(other, {}, rule, u, j)
  <2>1. SUFFICES ASSUME NEW j \in i + 1 .. e, NEW u
                 PROVE  Step(window, {}, rule, u, j) = Step(other, {}, rule, u, j)
    OBVIOUS
  <2>2. /\ j \in DOMAIN window <=> j \in DOMAIN other
        /\ j \in DOMAIN window => window[j] = other[j]
    OBVIOUS
  <2>. QED  BY <2>2 DEF Step
<1>4. e <= e /\ e \in i .. e
  OBVIOUS
<1>5. \A j \in i .. e : w[j] = v[j]
  <2>1. PICK d \in Nat : d = e
    OBVIOUS
  <2>2. i <= d /\ d <= e /\ IsWalk(w, window, {}, rule, i, d)
    BY <1>1, <2>1
  <2>3. \A j \in i + 1 .. d : \A u : Step(window, {}, rule, u, j) = Step(other, {}, rule, u, j)
    BY <1>3, <2>1
  <2>4. \A j \in i .. d : w[j] = v[j]
    BY <1>2, <2>2, <2>3, WalksAgree
  <2>. QED  BY <2>1, <2>4
<1>6. m = v[e].members
  BY <1>1, <1>4, <1>5, Zenon
<1>. QED  BY <1>2, <1>6, Zenon DEF Chain

LEMMA HitIsBurst ==
  ASSUME LogsTyped, NEW s \in 1 .. Len(logs), NEW from \in Nat, NEW to \in Nat, to <= Len(logs[s]),
         NEW n \in 1 .. Len(Rules), NEW m, IsHit(m, Window(s, from, to), Rules[n])
  PROVE  /\ BurstIn(m, logs[s], Rules[n])
         /\ \A k \in m : k \in DOMAIN Window(s, from, to)
<1>. DEFINE win == Window(s, from, to) e == LastLine(win) log == logs[s] rule == Rules[n]
<1>1. /\ DOMAIN win = {k \in from + 1 .. to : Parsed(s, k)}
      /\ \A k \in DOMAIN win : win[k] = log[k]
      /\ WindowOK(win) /\ e <= to
  BY WindowIs
<1>2. rule.gap \in Nat /\ Len(log) \in Nat
  BY RuleIds, LogIs
<1>3. IsHit(m, win, rule)
  OBVIOUS
<1>. HIDE DEF win, rule, log
<1>4. PICK i \in DOMAIN win : /\ i \in m /\ \A k \in m : i <= k
                              /\ \A k \in m : k \in DOMAIN win
                              /\ Chain(win, rule, i, e, m)
  BY <1>3 DEF IsHit
<1>5. i \in Nat /\ from < i /\ i <= e /\ e \in Nat /\ 1 <= i /\ e <= Len(log)
  BY <1>1, <1>2 DEF WindowOK, log
<1>6. Chain(LinesTo(log, e), rule, i, e, m)
  <2>1. ASSUME NEW j \in i + 1 .. e
        PROVE  /\ j \in DOMAIN win <=> j \in DOMAIN LinesTo(log, e)
               /\ j \in DOMAIN win => win[j] = LinesTo(log, e)[j]
    <3>1. j \in from + 1 .. to /\ j \in 1 .. e
      BY <1>1, <1>5
    <3>2. Parsed(s, j) <=> log[j] # "u"
      BY DEF Parsed, log
    <3>. QED  BY <1>1, <3>1, <3>2 DEF LinesTo
  <2>2. i \in Nat /\ e \in Nat /\ i <= e /\ Chain(win, rule, i, e, m)
    BY <1>4, <1>5
  <2>. DEFINE other == LinesTo(log, e)
  <2>3. \A j \in i + 1 .. e : /\ j \in DOMAIN win <=> j \in DOMAIN other
                              /\ j \in DOMAIN win => win[j] = other[j]
    BY <2>1
  <2>. HIDE DEF e, other
  <2>4. Chain(other, rule, i, e, m)
    BY <1>2, <2>2, <2>3, SameChain
  <2>. QED  BY <2>4 DEF other
<1>7. \A k \in m : k \in i .. e /\ log[k] # "u"
  <2>1. TAKE k \in m
  <2>2. k \in DOMAIN win /\ i <= k
    BY <1>4
  <2>3. k \in Nat /\ k <= e
    BY <1>1, <2>2 DEF WindowOK
  <2>4. log[k] # "u"
    BY <1>1, <2>2 DEF Parsed, log
  <2>. QED  BY <1>5, <2>2, <2>3, <2>4
<1>8. i \in 1 .. Len(log) /\ e \in 1 .. Len(log)
  BY <1>2, <1>5
<1>. HIDE DEF e
<1>9. BurstIn(m, log, rule)
  BY <1>4, <1>5, <1>6, <1>7, <1>8, Zenon DEF BurstIn
<1>. QED  BY <1>4, <1>9, Zenon DEF win, log, rule

LEMMA LineRowIs ==
  ASSUME NEW s, NEW i
  PROVE  LineRow(s, i).sess = s /\ LineRow(s, i).lines = {i} /\ LineRow(s, i).rule = "line"
  BY DEF LineRow

LEMMA LineRowOf ==
  ASSUME NEW s, NEW log, Len(log) \in Nat, NEW i \in 1 .. Len(log), log[i] \notin {"u", "x"}
  PROVE  RowOf(LineRow(s, i), log)
  BY DEF LineRow, RowOf

(* process_buffer: its rows are of the lines read, every event is in one,  *)
(* and no two share a line.                                                *)
LEMMA BatchRows ==
  ASSUME LogsTyped, NEW s \in 1 .. Len(logs), NEW from \in Nat, NEW to \in Nat, to <= Len(logs[s])
  PROVE  /\ \A r \in Batch(s, from, to) : /\ r.sess = s /\ RowOf(r, logs[s])
                                          /\ \A k \in r.lines : k \in from + 1 .. to
         /\ \A k \in from + 1 .. to : logs[s][k] \notin {"u", "x"} => \E r \in Batch(s, from, to) : k \in r.lines
         /\ \A r, q \in Batch(s, from, to) : r # q => r.lines \cap q.lines = {}
<1>. DEFINE win == Window(s, from, to) hits == Bursts(s, from, to)
            sums == Summaries(s, hits) ones == LineRows(s, (from + 1 .. to) \ Consumed(hits))
<1>1. DOMAIN win \subseteq from + 1 .. to /\ WindowOK(win) /\ Len(logs[s]) \in Nat
  <2>1. DOMAIN win = {k \in from + 1 .. to : Parsed(s, k)} /\ WindowOK(win)
    BY WindowIs
  <2>. HIDE DEF win
  <2>. QED  BY <2>1, LogIs
<1>2. \A k \in from + 1 .. to : k \in 1 .. Len(logs[s])
  BY <1>1
<1>3. /\ \A h \in hits : \E n \in 1 .. Len(Rules) : h.rule = Rules[n].id /\ IsHit(h.members, win, Rules[n])
      /\ Apart(hits)
  BY <1>1, RulesAreOK, DetectHits, Zenon DEF Bursts
<1>. HIDE DEF win, hits
<1>4. \A h \in hits : \A k \in h.members : k \in DOMAIN win
  <2>1. ASSUME NEW h \in hits, NEW n \in 1 .. Len(Rules), IsHit(h.members, win, Rules[n])
        PROVE  \A k \in h.members : k \in DOMAIN win
    BY <2>1, HitIsBurst DEF win
  <2>. QED  BY <1>3, <2>1
<1>5. \A r \in sums : \E h \in hits : r = [sess |-> s, rule |-> h.rule, lines |-> h.members]
  BY Zenon DEF Summaries
<1>6. \A r \in ones : \E i \in from + 1 .. to :
        logs[s][i] \notin {"u", "x"} /\ i \notin Consumed(hits) /\ r = LineRow(s, i)
  BY DEF LineRows, Recognised
<1>7. Batch(s, from, to) = sums \cup ones
  BY DEF Batch, hits, win
<1>. HIDE DEF sums, ones
<1>8. ASSUME NEW r \in sums
      PROVE  r.sess = s /\ RowOf(r, logs[s]) /\ \A k \in r.lines : k \in from + 1 .. to
  <2>1. PICK h \in hits : r = [sess |-> s, rule |-> h.rule, lines |-> h.members]
    BY <1>5
  <2>2. PICK n \in 1 .. Len(Rules) : h.rule = Rules[n].id /\ IsHit(h.members, win, Rules[n])
    BY <1>3
  <2>3. BurstIn(h.members, logs[s], Rules[n])
    BY <2>2, HitIsBurst DEF win
  <2>4. r.sess = s /\ r.rule = Rules[n].id /\ r.lines = h.members
        /\ r = [sess |-> r.sess, rule |-> r.rule, lines |-> r.lines]
    BY <2>1, <2>2
  <2>5. RowOf(r, logs[s])
    BY <2>3, <2>4, Zenon DEF RowOf
  <2>. QED  BY <1>1, <1>4, <2>4, <2>5
<1>9. ASSUME NEW r \in ones
      PROVE  r.sess = s /\ RowOf(r, logs[s]) /\ \A k \in r.lines : k \in from + 1 .. to
  <2>1. PICK i \in from + 1 .. to : logs[s][i] \notin {"u", "x"} /\ r = LineRow(s, i)
    BY <1>6
  <2>2. i \in 1 .. Len(logs[s]) /\ logs[s][i] \notin {"u", "x"}
    BY <1>2, <2>1
  <2>3. RowOf(r, logs[s]) /\ r.sess = s /\ r.lines = {i}
    <3>. DEFINE log == logs[s]
    <3>1. Len(log) \in Nat /\ i \in 1 .. Len(log) /\ log[i] \notin {"u", "x"}
      BY <1>1, <2>2
    <3>. HIDE DEF log
    <3>2. RowOf(r, log) /\ r.sess = s /\ r.lines = {i}
      BY <2>1, <3>1, LineRowIs, LineRowOf
    <3>. QED  BY <3>2 DEF log
  <2>. QED  BY <2>2, <2>3
<1>10. ASSUME NEW k \in from + 1 .. to, logs[s][k] \notin {"u", "x"}
       PROVE  \E r \in Batch(s, from, to) : k \in r.lines
  <2>2. CASE k \in Consumed(hits)
    <3>1. PICK h \in hits : k \in h.members
      BY <2>2 DEF Consumed
    <3>2. [sess |-> s, rule |-> h.rule, lines |-> h.members] \in sums
      BY DEF sums, Summaries
    <3>. QED  BY <1>7, <3>1, <3>2
  <2>3. CASE k \notin Consumed(hits)
    <3>1. LineRow(s, k) \in ones /\ k \in LineRow(s, k).lines
      BY <1>10, <2>3 DEF ones, LineRow, LineRows, Recognised
    <3>. QED  BY <1>7, <3>1
  <2>. QED  BY <2>2, <2>3
<1>11. ASSUME NEW r \in sums, NEW q \in sums, r # q PROVE r.lines \cap q.lines = {}
  <2>1. PICK h \in hits : r = [sess |-> s, rule |-> h.rule, lines |-> h.members]
    BY <1>5
  <2>2. PICK g \in hits : q = [sess |-> s, rule |-> g.rule, lines |-> g.members]
    BY <1>5
  <2>3. h # g
    BY <1>11, <2>1, <2>2
  <2>4. h.members \cap g.members = {}
    BY <1>3, <2>3 DEF Apart
  <2>. QED  BY <2>1, <2>2, <2>4
<1>12. ASSUME NEW r \in ones, NEW q \in ones, r # q PROVE r.lines \cap q.lines = {}
  <2>1. PICK i \in from + 1 .. to : r = LineRow(s, i)
    BY <1>6
  <2>2. PICK j \in from + 1 .. to : q = LineRow(s, j)
    BY <1>6
  <2>. QED  BY <1>12, <2>1, <2>2 DEF LineRow
<1>13. ASSUME NEW r \in sums, NEW q \in ones PROVE r.lines \cap q.lines = {}
  <2>1. PICK h \in hits : r = [sess |-> s, rule |-> h.rule, lines |-> h.members]
    BY <1>5
  <2>2. PICK j \in from + 1 .. to : j \notin Consumed(hits) /\ q = LineRow(s, j)
    BY <1>6
  <2>3. j \notin h.members /\ r.lines = h.members /\ q.lines = {j}
    BY <2>1, <2>2 DEF Consumed, LineRow
  <2>. QED  BY <2>3
<1>14. \A r, q \in Batch(s, from, to) : r # q => r.lines \cap q.lines = {}
  <2>1. \A r \in ones, q \in sums : r.lines \cap q.lines = {}
    BY <1>13
  <2>. QED  BY <1>7, <1>11, <1>12, <1>13, <2>1
<1>. QED  BY <1>7, <1>8, <1>9, <1>10, <1>14

(* backfill_file: the same.                                                *)
LEMMA ReplayRows ==
  ASSUME LogsTyped, NEW s \in 1 .. Len(logs), done[s] \in Nat
  PROVE  /\ \A r \in Replay(s) : /\ r.sess = s /\ RowOf(r, logs[s])
                                 /\ \A k \in r.lines : k \in done[s] + 1 .. Len(logs[s])
         /\ \A k \in done[s] + 1 .. Len(logs[s]) : logs[s][k] \notin {"u", "x"} => \E r \in Replay(s) : k \in r.lines
         /\ \A r, q \in Replay(s) : r # q => r.lines \cap q.lines = {}
<1>. DEFINE from == done[s] to == Len(logs[s])
            seen == {k \in from + 1 .. to : logs[s][k] \notin {"u", "x"}}
<1>1. to \in Nat
  BY LogIs
<1>2. Replay(s) = {LineRow(s, i) : i \in seen}
  BY DEF Replay, LineRows, Recognised
<1>3. \A k \in seen : k \in from + 1 .. to /\ k \in 1 .. to /\ logs[s][k] \notin {"u", "x"}
  BY <1>1
<1>4. \A r \in Replay(s) : \E i \in seen : r = LineRow(s, i)
  BY <1>2, Zenon
<1>5. \A i \in seen : LineRow(s, i) \in Replay(s)
  BY <1>2, Zenon
<1>6. \A i \in seen : /\ RowOf(LineRow(s, i), logs[s])
                            /\ LineRow(s, i).sess = s /\ LineRow(s, i).lines = {i}
  <2>. DEFINE log == logs[s]
  <2>1. Len(log) \in Nat /\ \A i \in seen : i \in 1 .. Len(log) /\ log[i] \notin {"u", "x"}
    BY <1>1, <1>3
  <2>. HIDE DEF log
  <2>2. \A i \in seen : /\ RowOf(LineRow(s, i), log)
                              /\ LineRow(s, i).sess = s /\ LineRow(s, i).lines = {i}
    BY <2>1, LineRowIs, LineRowOf
  <2>. QED  BY <2>2 DEF log
<1>7. \A r \in Replay(s) : r.sess = s /\ RowOf(r, logs[s]) /\ \A k \in r.lines : k \in from + 1 .. to
  BY <1>3, <1>4, <1>6
<1>8. \A k \in from + 1 .. to : logs[s][k] \notin {"u", "x"} => \E r \in Replay(s) : k \in r.lines
  BY <1>5, <1>6
<1>9. \A r, q \in Replay(s) : r # q => r.lines \cap q.lines = {}
  BY <1>4, <1>6
<1>. QED  BY <1>7, <1>8, <1>9

RowMeant(r) == r.sess \in 1 .. Len(logs) /\ RowOf(r, logs[r.sess])

(* Among rows the log means, the idempotency key (gamelog.rs 467-477) tells *)
(* apart what differs: ON CONFLICT DO NOTHING (storage.rs 234-264) drops a  *)
(* row only if that very row is stored, so an insert is a union.           *)
THEOREM InsertIs ==
  ASSUME LogsTyped, NEW rows, NEW batch, \A r \in rows \cup batch : RowMeant(r)
  PROVE  InsertAll(rows, batch) = rows \cup batch
<1>1. ASSUME NEW r \in batch, NEW q \in rows, SameKey(r, q) PROVE r \in rows
  <2>1. r.sess = q.sess
    BY <1>1 DEF SameKey
  <2>2. Len(logs[r.sess]) \in Nat /\ RowOf(r, logs[r.sess]) /\ RowOf(q, logs[r.sess])
    BY <2>1, LogIs DEF RowMeant
  <2>. QED  BY <1>1, <2>2, SameRow
<1>. QED  BY <1>1 DEF InsertAll
-----------------------------------------------------------------------------
(* The inductive invariant: types ...                                      *)
StateTyped ==
  /\ signal \in BOOLEAN /\ offset \in Nat /\ cursor \in Nat
  /\ tail \in [pc : {"wait", "open", "read", "store", "cursor"}, sess : 0 .. MaxSessions, from : 0 .. MaxLines]
  /\ done \in [Sessions -> Nat] /\ todo \subseteq 1 .. Len(logs) - 1
  /\ restarts \in 0 .. MaxRestarts /\ errors \in 0 .. MaxErrors
  /\ at \in [mem : 1 .. Len(logs), disk : 1 .. Len(logs)]
  /\ missed \subseteq Lines /\ failed \subseteq Lines

(* ... where the tail, the cursor and the sweep stand in the logs ...      *)
Positions ==
  /\ offset <= Len(logs[at.mem]) /\ cursor <= Len(logs[at.disk])
  /\ tail.pc \in {"read", "store", "cursor"} => tail.sess = at.mem /\ tail.from <= offset
  /\ tail.pc = "read" => tail.from = offset
  /\ \A s \in Sessions : done[s] > 0 => s < Len(logs) /\ done[s] <= Len(logs[s])

(* ... every row is one of its session's log: a line of it, or the walk of *)
(* a rule over it (gamelog.rs 242-319, backfill.rs 163-196) ...            *)
RowsMeant == \A r \in stored : RowMeant(r)

(* Every event of the first n lines of a session is in a row, or lost.     *)
Kept(rows, lost, log, s, n) ==
  \A i \in 1 .. n :
    log[i] \notin {"u", "x"} => (\E r \in rows : r.sess = s /\ i \in r.lines) \/ [sess |-> s, line |-> i] \in lost

(* How far the tail has stored what it has read.                           *)
Position == IF tail.pc = "store" THEN tail.from ELSE offset

(* ... what is behind the tail, behind the stored cursor and behind a      *)
(* sweep is stored, or in the histories ...                                *)
MemKept == Kept(stored, missed \cup failed, logs[at.mem], at.mem, Position)
DiskKept == Kept(stored, missed \cup failed, logs[at.disk], at.disk, cursor)
SweptKept == \A s \in Sessions : done[s] > 0 => Kept(stored, failed, logs[s], s, done[s])

(* ... and until a restart the tail has its session and later ones to      *)
(* itself, and the sweep every session it has not read yet.                *)
FirstRun ==
  restarts = 0 =>
    /\ \A r, q \in stored : r # q /\ r.sess = q.sess => r.lines \cap q.lines = {}
    /\ \A s \in todo : s < at.mem
    /\ \A r \in stored : /\ r.sess \notin todo /\ r.sess <= at.mem
                         /\ r.sess = at.mem => \A k \in r.lines : k <= Position

TailInv ==
  LogsTyped /\ StateTyped /\ Positions /\ RowsMeant /\ MemKept /\ DiskKept /\ SweptKept /\ FirstRun

LEMMA KeptStays ==
  ASSUME NEW rows, NEW lost, NEW log, NEW s, NEW n, Kept(rows, lost, log, s, n),
         NEW all, NEW gone, NEW more, rows \subseteq all, lost \subseteq gone,
         \A i \in 1 .. n : more[i] = log[i]
  PROVE  Kept(all, gone, more, s, n)
BY DEF Kept

LEMMA TypesHold == TailInv => TypeOK
<1>. SUFFICES ASSUME TailInv PROVE TypeOK
  OBVIOUS
<1>0. LogsTyped /\ StateTyped /\ Positions /\ RowsMeant
  BY DEF TailInv
<1>1. MaxLines \in Nat /\ MaxSessions \in Nat
  BY Bounds
<1>2. Len(logs) \in Sessions /\ Len(logs) \in Nat /\ DOMAIN logs = 1 .. Len(logs)
  BY <1>0, <1>1, LenProperties DEF LogsTyped, Sessions
<1>3. \A s \in DOMAIN logs : Len(logs[s]) \in Nat /\ Len(logs[s]) <= MaxLines /\ ToSet(logs[s]) \subseteq Kinds
  <2>1. TAKE s \in DOMAIN logs
  <2>2. logs[s] \in Seq(Kinds) /\ Len(logs[s]) \in Nat /\ DOMAIN logs[s] = 1 .. Len(logs[s])
    BY <1>0, <1>2, LogIs
  <2>3. \A i \in DOMAIN logs[s] : logs[s][i] \in Kinds
    BY <2>2, ElementOfSeq
  <2>. QED  BY <1>0, <1>2, <2>2, <2>3 DEF LogsTyped, ToSet
<1>4. at.mem \in DOMAIN logs /\ at.disk \in DOMAIN logs /\ at \in [mem : Sessions, disk : Sessions]
  BY <1>0, <1>1, <1>2 DEF StateTyped, Sessions
<1>5. offset \in 0 .. MaxLines /\ cursor \in 0 .. MaxLines
  BY <1>0, <1>1, <1>3, <1>4 DEF StateTyped, Positions
<1>6. done \in [Sessions -> 0 .. MaxLines]
  <2>1. ASSUME NEW s \in Sessions PROVE done[s] \in 0 .. MaxLines
    <3>1. done[s] \in Nat
      BY <1>0 DEF StateTyped
    <3>2. CASE done[s] > 0
      <4>1. s < Len(logs) /\ done[s] <= Len(logs[s])
        BY <1>0, <3>2 DEF Positions
      <4>2. s \in DOMAIN logs
        BY <1>1, <1>2, <4>1 DEF Sessions
      <4>. QED  BY <1>1, <1>3, <3>1, <4>1, <4>2
    <3>. QED  BY <1>1, <3>1, <3>2
  <2>. QED  BY <1>0, <2>1 DEF StateTyped
<1>7. todo \subseteq Sessions
  BY <1>0, <1>1, <1>2 DEF StateTyped, Sessions
<1>8. \A r \in stored : LinesOf(r) # {} /\ \A i \in r.lines : i <= Len(logs[r.sess])
  <2>1. TAKE r \in stored
  <2>2. r.sess \in 1 .. Len(logs) /\ RowOf(r, logs[r.sess])
    BY <1>0 DEF RowsMeant, RowMeant
  <2>3. Len(logs[r.sess]) \in Nat /\ Len(logs[r.sess]) <= MaxLines
    BY <1>2, <1>3, <2>2
  <2>4. r.lines \subseteq 1 .. Len(logs[r.sess]) /\ r.lines # {}
    BY <2>2, <2>3, RowLines
  <2>5. PICK i : i \in r.lines
    BY <2>4
  <2>6. i \in 1 .. MaxLines /\ r.sess \in Sessions
    BY <1>1, <1>2, <2>2, <2>3, <2>4, <2>5 DEF Sessions
  <2>7. [sess |-> r.sess, line |-> i] \in LinesOf(r)
    BY <2>5, <2>6 DEF LinesOf, Lines
  <2>. QED  BY <2>3, <2>4, <2>7
<1>. QED  BY <1>0, <1>1, <1>2, <1>3, <1>4, <1>5, <1>6, <1>7, <1>8 DEF TypeOK, StateTyped

LEMMA KeptCovers ==
  ASSUME NEW l \in Events, NEW lost, NEW n \in Nat, l.line <= n,
         Kept(stored, lost, logs[l.sess], l.sess, n)
  PROVE  l \in Covered \cup lost
<1>1. /\ l.sess \in Sessions /\ l.line \in 1 .. MaxLines /\ l = [sess |-> l.sess, line |-> l.line]
      /\ l \in Lines /\ logs[l.sess][l.line] \notin {"u", "x"}
  BY DEF Events, Lines, Recognised
<1>2. l.line \in 1 .. n
  BY <1>1, Bounds
<1>3. CASE \E r \in stored : r.sess = l.sess /\ l.line \in r.lines
  BY <1>1, <1>3 DEF Covered, LinesOf
<1>. QED  BY <1>1, <1>2, <1>3 DEF Kept

LEMMA CursorHolds == TailInv => CursorOnlyPastStored
<1>. SUFFICES ASSUME TailInv, NEW l \in Events, l.sess = at.disk, l.line <= cursor
              PROVE  l \in Covered \cup missed \cup failed
  BY DEF CursorOnlyPastStored
<1>1. cursor \in Nat /\ Kept(stored, missed \cup failed, logs[l.sess], l.sess, cursor)
  BY DEF TailInv, StateTyped, DiskKept
<1>2. l \in Covered \cup (missed \cup failed)
  BY <1>1, KeptCovers
<1>. QED  BY <1>2

LEMMA SweptHolds == TailInv => SweptIsComplete
<1>. SUFFICES ASSUME TailInv, NEW l \in Events, l.line <= done[l.sess]
              PROVE  l \in Covered \cup failed
  BY DEF SweptIsComplete
<1>1. l.sess \in Sessions /\ l.line \in 1 .. MaxLines
  BY DEF Events, Lines
<1>2. done[l.sess] \in Nat
  BY <1>1 DEF TailInv, StateTyped
<1>3. done[l.sess] > 0
  BY <1>1, <1>2, Bounds
<1>4. Kept(stored, failed, logs[l.sess], l.sess, done[l.sess])
  BY <1>1, <1>3 DEF TailInv, SweptKept
<1>. QED  BY <1>2, <1>4, KeptCovers

LEMMA CountedHolds == TailInv => CountedOnce
<1>. SUFFICES ASSUME TailInv, restarts = 0, NEW r \in stored, NEW q \in stored,
                     LinesOf(r) \cap LinesOf(q) # {}
              PROVE  r = q
  BY DEF CountedOnce
<1>1. PICK l \in Lines : l.sess = r.sess /\ l.line \in r.lines /\ l.sess = q.sess /\ l.line \in q.lines
  BY DEF LinesOf
<1>2. r # q => r.lines \cap q.lines = {}
  BY <1>1 DEF TailInv, FirstRun
<1>. QED  BY <1>1, <1>2
-----------------------------------------------------------------------------
(* The bound on WriteLine bounds every log.                                *)
LEMMA WriteBound ==
  ASSUME LogsTyped, Cardinality({l \in Lines : Written(l)}) < MaxLines
  PROVE  Len(logs[Current]) < MaxLines
<1>. DEFINE T == {l \in Lines : Written(l)} pairs == (1 .. MaxSessions) \X (1 .. MaxLines)
<1>1. MaxLines \in Nat /\ MaxSessions \in Nat
  BY Bounds
<1>2. Current \in Sessions /\ Current <= Len(logs) /\ Len(logs[Current]) \in Nat
  <2>1. Len(logs) \in 1 .. Len(logs)
    BY DEF LogsTyped
  <2>. QED  BY <1>1, <2>1, LogIs DEF Current
<1>3. SUFFICES ASSUME MaxLines <= Len(logs[Current]) PROVE FALSE
  BY <1>1, <1>2
<1>4. IsFiniteSet(T)
  <2>0. IsFiniteSet(1 .. MaxSessions) /\ IsFiniteSet(1 .. MaxLines)
    BY <1>1, FS_Interval
  <2>1. IsFiniteSet(pairs)
    BY <2>0, FS_Product
  <2>. DEFINE f == [l \in Lines |-> <<l.sess, l.line>>]
  <2>2. f \in [Lines -> pairs]
    BY DEF Lines, Sessions
  <2>3. \A l, k \in Lines : f[l] = f[k] => l = k
    BY DEF Lines
  <2>4. f \in Injection(Lines, pairs)
    BY <2>2, <2>3 DEF Injection, IsInjective
  <2>5. IsFiniteSet(Lines)
    BY <2>1, <2>4, FS_Injection
  <2>. QED  BY <2>5, FS_Subset
<1>5. MaxLines <= Cardinality(T)
  <2>. DEFINE f == [i \in 1 .. MaxLines |-> [sess |-> Current, line |-> i]]
  <2>1. \A i \in 1 .. MaxLines : [sess |-> Current, line |-> i] \in T
    BY <1>1, <1>2, <1>3 DEF Lines, Written
  <2>2. f \in Injection(1 .. MaxLines, T)
    BY <2>1 DEF Injection, IsInjective
  <2>3. Cardinality(1 .. MaxLines) <= Cardinality(T)
    BY <1>4, <2>2, FS_Injection
  <2>4. Cardinality(1 .. MaxLines) = MaxLines
    BY <1>1, FS_Interval
  <2>. QED  BY <2>3, <2>4
<1>6. Cardinality(T) \in Nat /\ Cardinality(T) < MaxLines
  BY <1>4, FS_CardinalityType
<1>. HIDE DEF T
<1>. QED  BY <1>1, <1>5, <1>6

LEMMA InitHolds == Init => TailInv
<1>. SUFFICES ASSUME Init PROVE TailInv
  OBVIOUS
<1>1. LogsTyped /\ Len(logs) \in Nat /\ Len(logs) >= 1
  <2>1. CASE logs = << <<>> >>
    <3>1. <<>> \in Seq(Kinds) /\ Len(<<>>) = 0
      BY EmptySeq
    <3>2. logs \in Seq(Seq(Kinds)) /\ Len(logs) = 1 /\ logs[1] = <<>>
      BY <2>1, <3>1
    <3>. QED  BY <3>1, <3>2, Bounds DEF LogsTyped, Init
  <2>2. CASE \E log \in SeqOf(Kinds, MaxEarlier) : logs = <<log, <<>> >>
    <3>1. PICK log \in SeqOf(Kinds, MaxEarlier) : logs = <<log, <<>> >>
      BY <2>2
    <3>2. PICK m \in 0 .. MaxEarlier : log \in [1 .. m -> Kinds]
      BY DEF SeqOf
    <3>3. log \in Seq(Kinds)
      BY <3>2, Bounds
    <3>4. <<>> \in Seq(Kinds) /\ Len(<<>>) = 0
      BY EmptySeq
    <3>5. logs \in Seq(Seq(Kinds)) /\ Len(logs) = 2 /\ logs[1] = log /\ logs[2] = <<>>
      BY <3>1, <3>3, <3>4
    <3>. QED  BY <3>4, <3>5, Bounds DEF LogsTyped, Init
  <2>. QED  BY <2>1, <2>2 DEF Init
<1>2. StateTyped
  <2>1. tail \in [pc : {"wait", "open", "read", "store", "cursor"}, sess : 0 .. MaxSessions, from : 0 .. MaxLines]
    BY Bounds DEF Init, Waiting
  <2>2. at \in [mem : 1 .. Len(logs), disk : 1 .. Len(logs)]
    BY <1>1 DEF Init
  <2>3. done \in [Sessions -> Nat] /\ todo \subseteq 1 .. Len(logs) - 1
    BY DEF Init
  <2>4. restarts \in 0 .. MaxRestarts /\ errors \in 0 .. MaxErrors
    BY Bounds DEF Init
  <2>5. signal \in BOOLEAN /\ offset = 0 /\ cursor = 0 /\ missed = {} /\ failed = {}
    BY DEF Init
  <2>. QED  BY <2>1, <2>2, <2>3, <2>4, <2>5 DEF StateTyped
<1>3. tail.pc = "open" /\ at.mem = Len(logs) /\ at.disk = Len(logs) /\ Len(logs[Len(logs)]) \in Nat
  <2>1. Len(logs) \in 1 .. Len(logs)
    BY <1>1
  <2>. QED  BY <1>1, <2>1, LogIs DEF Init, Waiting
<1>4. Positions
  BY <1>3 DEF Init, Positions
<1>5. RowsMeant /\ SweptKept
  BY DEF Init, RowsMeant, SweptKept
<1>6. MemKept /\ DiskKept
  BY <1>3 DEF Init, MemKept, DiskKept, Kept, Position
<1>7. FirstRun
  BY <1>1, <1>3 DEF Init, FirstRun
<1>. QED  BY <1>1, <1>2, <1>4, <1>5, <1>6, <1>7 DEF TailInv
-----------------------------------------------------------------------------
(* The game writes.                                                        *)
LEMMA GrowthKeeps ==
  ASSUME TailInv, LogsTyped', Len(logs) <= Len(logs'),
         \A s \in 1 .. Len(logs) : /\ Len(logs[s]) <= Len(logs'[s])
                                   /\ \A i \in 1 .. Len(logs[s]) : logs'[s][i] = logs[s][i],
         signal' \in BOOLEAN, UNCHANGED <<offset, tail, todo, disk, bounds, history>>
  PROVE  TailInv'
<1>. USE DEF disk, bounds, history
<1>0. /\ LogsTyped /\ StateTyped /\ Positions /\ RowsMeant /\ MemKept /\ DiskKept /\ SweptKept /\ FirstRun
      /\ MaxSessions \in Nat
  BY Bounds DEF TailInv
<1>1. Len(logs) \in Nat /\ Len(logs') \in Nat /\ 1 .. Len(logs) \subseteq 1 .. Len(logs')
  BY <1>0 DEF LogsTyped
<1>2. ASSUME NEW s \in 1 .. Len(logs) PROVE Len(logs[s]) \in Nat /\ Len(logs'[s]) \in Nat
  <2>1. Len(logs[s]) \in Nat
    BY <1>0, LogIs
  <2>2. logs' \in Seq(Seq(Kinds)) /\ s \in 1 .. Len(logs')
    BY <1>1 DEF LogsTyped
  <2>3. logs'[s] \in Seq(Kinds)
    BY <2>2, ElementOfSeq
  <2>. QED  BY <2>1, <2>3, LenProperties
<1>3. at.mem \in 1 .. Len(logs) /\ at.disk \in 1 .. Len(logs) /\ at' = at
  BY <1>0 DEF StateTyped
<1>4. StateTyped'
  <2>1. todo' \subseteq 1 .. Len(logs') - 1
    BY <1>0, <1>1 DEF StateTyped
  <2>2. at' \in [mem : 1 .. Len(logs'), disk : 1 .. Len(logs')]
    BY <1>0, <1>1 DEF StateTyped
  <2>. QED  BY <1>0, <2>1, <2>2 DEF StateTyped
<1>5. \A s \in Sessions : done[s] > 0 => /\ s < Len(logs) /\ s \in 1 .. Len(logs) /\ done[s] \in Nat
                                         /\ done[s] <= Len(logs[s])
  BY <1>0, <1>1 DEF Positions, StateTyped, Sessions
<1>6. Positions'
  <2>1. offset' <= Len(logs'[at'.mem]) /\ cursor' <= Len(logs'[at'.disk])
    <3>1. /\ Len(logs[at.mem]) \in Nat /\ Len(logs'[at.mem]) \in Nat /\ Len(logs[at.mem]) <= Len(logs'[at.mem])
          /\ Len(logs[at.disk]) \in Nat /\ Len(logs'[at.disk]) \in Nat /\ Len(logs[at.disk]) <= Len(logs'[at.disk])
      BY <1>2, <1>3
    <3>2. offset <= Len(logs[at.mem]) /\ cursor <= Len(logs[at.disk]) /\ offset \in Nat /\ cursor \in Nat
      BY <1>0 DEF Positions, StateTyped
    <3>3. offset <= Len(logs'[at.mem]) /\ cursor <= Len(logs'[at.disk])
      <4>1. \A a, b, c \in Nat : a <= b /\ b <= c => a <= c
        OBVIOUS
      <4>. QED  BY <3>1, <3>2, <4>1, Zenon
    <3>4. offset' = offset /\ cursor' = cursor
      OBVIOUS
    <3>. QED  BY <1>3, <3>3, <3>4, Zenon
  <2>2. \A s \in Sessions : done'[s] > 0 => s < Len(logs') /\ done'[s] <= Len(logs'[s])
    BY <1>1, <1>2, <1>5 DEF Sessions
  <2>. QED  BY <1>0, <2>1, <2>2 DEF Positions
<1>7. RowsMeant'
  <2>1. SUFFICES ASSUME NEW r \in stored PROVE r.sess \in 1 .. Len(logs') /\ RowOf(r, logs'[r.sess])
    BY DEF RowsMeant, RowMeant
  <2>2. r.sess \in 1 .. Len(logs) /\ RowOf(r, logs[r.sess])
    BY <1>0 DEF RowsMeant, RowMeant
  <2>. QED  BY <1>1, <1>2, <2>2, RowStays
<1>8. Position \in Nat /\ Position <= Len(logs[at.mem]) /\ Position' = Position
  <2>1. tail.from \in Nat /\ offset \in Nat /\ Len(logs[at.mem]) \in Nat
    BY <1>0, <1>2, <1>3, Bounds DEF StateTyped
  <2>. QED  BY <1>0, <2>1 DEF Position, Positions
<1>9. MemKept'
  <2>1. \A i \in 1 .. Position : logs'[at.mem][i] = logs[at.mem][i]
    BY <1>2, <1>3, <1>8
  <2>2. Kept(stored, missed \cup failed, logs'[at.mem], at.mem, Position)
    BY <1>0, <2>1, KeptStays DEF MemKept
  <2>. QED  BY <1>3, <1>8, <2>2 DEF MemKept
<1>10. DiskKept'
  <2>1. \A i \in 1 .. cursor : logs'[at.disk][i] = logs[at.disk][i]
    <3>1. cursor <= Len(logs[at.disk]) /\ cursor \in Nat /\ Len(logs[at.disk]) \in Nat
      BY <1>0, <1>2, <1>3 DEF Positions, StateTyped
    <3>2. \A i \in 1 .. cursor : i \in 1 .. Len(logs[at.disk])
      BY <3>1
    <3>. QED  BY <1>3, <3>2
  <2>2. Kept(stored, missed \cup failed, logs'[at.disk], at.disk, cursor)
    BY <1>0, <2>1, KeptStays DEF DiskKept
  <2>. QED  BY <1>3, <2>2 DEF DiskKept
<1>11. SweptKept'
  <2>1. SUFFICES ASSUME NEW s \in Sessions, done[s] > 0 PROVE Kept(stored, failed, logs'[s], s, done[s])
    BY DEF SweptKept
  <2>2. s \in 1 .. Len(logs) /\ done[s] \in Nat /\ done[s] <= Len(logs[s])
    BY <1>5, <2>1
  <2>3. \A i \in 1 .. done[s] : logs'[s][i] = logs[s][i]
    BY <1>2, <2>2
  <2>. QED  BY <1>0, <2>1, <2>3, KeptStays DEF SweptKept
<1>12. FirstRun'
  BY <1>0, <1>3, <1>8 DEF FirstRun
<1>. QED  BY <1>4, <1>6, <1>7, <1>9, <1>10, <1>11, <1>12 DEF TailInv

LEMMA WriteLineKeeps == ASSUME TailInv, NEW k \in Kinds, WriteLine(k) PROVE TailInv'
<1>0. LogsTyped /\ Current \in 1 .. Len(logs) /\ MaxLines \in Nat
  BY Bounds DEF TailInv, LogsTyped, Current
<1>1. logs[Current] \in Seq(Kinds) /\ Len(logs[Current]) \in Nat /\ Len(logs[Current]) < MaxLines
  BY <1>0, LogIs, WriteBound DEF WriteLine
<1>. DEFINE log == Append(logs[Current], k)
<1>2. /\ log \in Seq(Kinds) /\ Len(log) = Len(logs[Current]) + 1
      /\ \A i \in 1 .. Len(logs[Current]) : log[i] = logs[Current][i]
  BY <1>1, AppendProperties
<1>3. logs' = [logs EXCEPT ![Current] = log]
  BY DEF WriteLine
<1>. HIDE DEF log
<1>4. /\ logs' \in Seq(Seq(Kinds)) /\ Len(logs') = Len(logs)
      /\ \A s \in 1 .. Len(logs) : logs'[s] = IF s = Current THEN log ELSE logs[s]
  BY <1>0, <1>2, <1>3, ExceptSeq DEF LogsTyped
<1>5. LogsTyped'
  <2>1. \A s \in 1 .. Len(logs) : Len(logs'[s]) <= MaxLines
    <3>1. Len(log) <= MaxLines
      BY <1>0, <1>1, <1>2
    <3>. QED  BY <1>0, <1>4, <3>1 DEF LogsTyped
  <2>. QED  BY <1>0, <1>4, <2>1 DEF LogsTyped
<1>6. Len(logs) <= Len(logs')
  BY <1>0, <1>4 DEF LogsTyped
<1>7. \A s \in 1 .. Len(logs) : /\ Len(logs[s]) <= Len(logs'[s])
                                /\ \A i \in 1 .. Len(logs[s]) : logs'[s][i] = logs[s][i]
  <2>1. \A s \in 1 .. Len(logs) : Len(logs[s]) \in Nat
    BY <1>0, LogIs
  <2>2. TAKE s \in 1 .. Len(logs)
  <2>3. CASE s = Current
    BY <1>1, <1>2, <1>4, <2>3
  <2>4. CASE s # Current
    BY <1>4, <2>1, <2>4
  <2>. QED  BY <2>3, <2>4
<1>. QED  BY <1>5, <1>6, <1>7, GrowthKeeps DEF WriteLine

LEMMA RotateKeeps == ASSUME TailInv, Rotate PROVE TailInv'
<1>0. LogsTyped /\ MaxLines \in Nat /\ MaxSessions \in Nat /\ Len(logs) \in Nat /\ Len(logs) < MaxSessions
  BY Bounds DEF TailInv, LogsTyped, Rotate
<1>1. <<>> \in Seq(Kinds) /\ Len(<<>>) = 0
  BY EmptySeq
<1>2. /\ logs' \in Seq(Seq(Kinds)) /\ Len(logs') = Len(logs) + 1
      /\ \A s \in 1 .. Len(logs) : logs'[s] = logs[s]
      /\ logs'[Len(logs) + 1] = <<>>
  BY <1>0, <1>1, AppendProperties DEF LogsTyped, Rotate
<1>3. LogsTyped'
  <2>1. ASSUME NEW s \in 1 .. Len(logs) + 1 PROVE Len(logs'[s]) <= MaxLines
    <3>1. CASE s = Len(logs) + 1
      BY <1>0, <1>1, <1>2, <3>1
    <3>2. CASE s # Len(logs) + 1
      <4>1. s \in 1 .. Len(logs)
        BY <1>0, <3>2
      <4>. QED  BY <1>0, <1>2, <4>1 DEF LogsTyped
    <3>. QED  BY <3>1, <3>2
  <2>2. Len(logs') \in 1 .. MaxSessions
    BY <1>0, <1>2
  <2>. QED  BY <1>2, <2>1, <2>2 DEF LogsTyped
<1>4. Len(logs) <= Len(logs')
  BY <1>0, <1>2
<1>5. \A s \in 1 .. Len(logs) : /\ Len(logs[s]) <= Len(logs'[s])
                                /\ \A i \in 1 .. Len(logs[s]) : logs'[s][i] = logs[s][i]
  <2>1. \A s \in 1 .. Len(logs) : Len(logs[s]) \in Nat
    BY <1>0, LogIs
  <2>. QED  BY <1>2, <2>1
<1>. QED  BY <1>3, <1>4, <1>5, GrowthKeeps DEF Rotate
-----------------------------------------------------------------------------
(* The tail task.                                                          *)
Pcs == {"wait", "open", "read", "store", "cursor"}

LEMMA InvFacts ==
  ASSUME TailInv
  PROVE  /\ LogsTyped /\ StateTyped /\ Positions /\ RowsMeant /\ MemKept /\ DiskKept /\ SweptKept /\ FirstRun
         /\ Len(logs) \in Nat /\ at.mem \in 1 .. Len(logs) /\ at.disk \in 1 .. Len(logs)
         /\ Current \in 1 .. Len(logs)
         /\ \A s \in 1 .. Len(logs) : Len(logs[s]) \in Nat /\ Len(logs[s]) <= MaxLines
         /\ Len(logs[at.mem]) \in Nat /\ Len(logs[at.disk]) \in Nat
         /\ offset \in Nat /\ cursor \in Nat /\ offset <= Len(logs[at.mem]) /\ cursor <= Len(logs[at.disk])
         /\ tail.from \in Nat /\ Position \in Nat /\ Position <= offset
         /\ MaxLines \in Nat /\ MaxSessions \in Nat /\ MaxErrors \in Nat /\ MaxRestarts \in Nat
<1>0. /\ LogsTyped /\ StateTyped /\ Positions /\ RowsMeant /\ MemKept /\ DiskKept /\ SweptKept /\ FirstRun
  BY DEF TailInv
<1>1. MaxLines \in Nat /\ MaxSessions \in Nat /\ MaxErrors \in Nat /\ MaxRestarts \in Nat
  BY Bounds
<1>2. /\ Len(logs) \in Nat /\ at.mem \in 1 .. Len(logs) /\ at.disk \in 1 .. Len(logs)
      /\ Current \in 1 .. Len(logs)
  BY <1>0 DEF LogsTyped, StateTyped, Current
<1>3. \A s \in 1 .. Len(logs) : Len(logs[s]) \in Nat /\ Len(logs[s]) <= MaxLines
  BY <1>0, LogIs DEF LogsTyped
<1>4. offset \in Nat /\ cursor \in Nat /\ offset <= Len(logs[at.mem]) /\ cursor <= Len(logs[at.disk])
  BY <1>0 DEF StateTyped, Positions
<1>5. tail.from \in Nat
  BY <1>0, <1>1 DEF StateTyped
<1>6. Position \in Nat /\ Position <= offset
  BY <1>0, <1>4, <1>5 DEF Position, Positions
<1>. QED  BY <1>0, <1>1, <1>2, <1>3, <1>4, <1>5, <1>6

LEMMA TailKeeps ==
  ASSUME TailInv, logs' = logs, todo' = todo, done' = done, stored' = stored, failed' = failed,
         restarts' = restarts, StateTyped', Positions', MemKept', DiskKept',
         at.mem <= at'.mem, at'.mem = at.mem => Position <= Position'
  PROVE  TailInv'
<1>1. LogsTyped' /\ RowsMeant' /\ SweptKept'
  BY InvFacts DEF LogsTyped, RowsMeant, RowMeant, SweptKept
<1>2. FirstRun'
  <2>0. /\ at.mem \in Nat /\ at'.mem \in Nat /\ Position \in Nat /\ Position' \in Nat
    <3>1. at'.mem \in 1 .. Len(logs) /\ offset' \in Nat /\ tail'.from \in 0 .. MaxLines
      BY DEF StateTyped
    <3>2. Position' \in Nat
      BY <3>1, InvFacts DEF Position
    <3>3. Len(logs) \in Nat /\ at.mem \in 1 .. Len(logs) /\ Position \in Nat
      BY InvFacts
    <3>4. \A n \in 1 .. Len(logs) : n \in Nat
      BY <3>3
    <3>. QED  BY <3>1, <3>2, <3>3, <3>4
  <2>1. SUFFICES ASSUME restarts = 0
                 PROVE  /\ \A r, q \in stored : r # q /\ r.sess = q.sess => r.lines \cap q.lines = {}
                        /\ \A s \in todo : s < at'.mem
                        /\ \A r \in stored : /\ r.sess \notin todo /\ r.sess <= at'.mem
                                             /\ r.sess = at'.mem => \A k \in r.lines : k <= Position'
    BY DEF FirstRun
  <2>2. /\ \A r, q \in stored : r # q /\ r.sess = q.sess => r.lines \cap q.lines = {}
        /\ \A s \in todo : s < at.mem
        /\ \A r \in stored : /\ r.sess \notin todo /\ r.sess <= at.mem
                             /\ r.sess = at.mem => \A k \in r.lines : k <= Position
    BY <2>1, InvFacts DEF FirstRun
  <2>3. \A s \in todo : s < at'.mem
    <3>1. \A s \in todo : s \in Nat
      BY InvFacts DEF StateTyped
    <3>. QED  BY <2>0, <2>2, <3>1
  <2>4. ASSUME NEW r \in stored
        PROVE  /\ r.sess \notin todo /\ r.sess <= at'.mem
               /\ r.sess = at'.mem => \A k \in r.lines : k <= Position'
    <3>1. r.sess \in 1 .. Len(logs) /\ RowOf(r, logs[r.sess]) /\ Len(logs[r.sess]) \in Nat
      BY InvFacts DEF RowsMeant, RowMeant
    <3>2. r.lines \subseteq 1 .. Len(logs[r.sess])
      BY <3>1, RowLines
    <3>3. \A k \in r.lines : k \in Nat
      BY <3>1, <3>2
    <3>4. r.sess <= at.mem /\ r.sess \in Nat /\ r.sess \notin todo
      BY <2>2, <3>1
    <3>5. r.sess <= at'.mem
      BY <2>0, <3>4
    <3>6. ASSUME r.sess = at'.mem, NEW k \in r.lines PROVE k <= Position'
      <4>1. at'.mem = at.mem
        BY <2>0, <3>4, <3>6
      <4>2. k <= Position /\ Position <= Position'
        BY <2>2, <3>6, <4>1
      <4>. QED  BY <2>0, <3>3, <4>2
    <3>. QED  BY <3>4, <3>5, <3>6
  <2>. QED  BY <2>2, <2>3, <2>4, Zenon
<1>. QED  BY <1>1, <1>2 DEF TailInv

LEMMA DiskStays ==
  ASSUME TailInv, logs' = logs, cursor' = cursor, at'.disk = at.disk,
         stored \subseteq stored', missed \subseteq missed', failed \subseteq failed'
  PROVE  DiskKept'
<1>1. Kept(stored, missed \cup failed, logs[at.disk], at.disk, cursor)
  BY InvFacts DEF DiskKept
<1>2. Kept(stored', missed' \cup failed', logs[at.disk], at.disk, cursor)
  BY <1>1, KeptStays
<1>. QED  BY <1>2 DEF DiskKept

LEMMA MemStays ==
  ASSUME TailInv, logs' = logs, Position' = Position, at'.mem = at.mem,
         stored \subseteq stored', missed \subseteq missed', failed \subseteq failed'
  PROVE  MemKept'
<1>1. Kept(stored, missed \cup failed, logs[at.mem], at.mem, Position)
  BY InvFacts DEF MemKept
<1>2. Kept(stored', missed' \cup failed', logs[at.mem], at.mem, Position)
  BY <1>1, KeptStays
<1>. QED  BY <1>2 DEF MemKept

LEMMA WaitingIs ==
  /\ Waiting \in [pc : Pcs, sess : 0 .. MaxSessions, from : 0 .. MaxLines] /\ Waiting.pc = "wait"
  /\ [Waiting EXCEPT !.pc = "open"] \in [pc : Pcs, sess : 0 .. MaxSessions, from : 0 .. MaxLines]
  /\ [Waiting EXCEPT !.pc = "open"].pc = "open"
BY Bounds DEF Waiting, Pcs

LEMMA ErrorIs == ASSUME TailInv, Error PROVE errors' \in 0 .. MaxErrors
<1>1. errors \in 0 .. MaxErrors /\ MaxErrors \in Nat
  BY InvFacts DEF StateTyped
<1>. QED  BY <1>1 DEF Error

(* Steps that leave what is stored, skipped and read as it is.             *)
LEMMA IdleKeeps ==
  ASSUME TailInv, UNCHANGED <<logs, offset, todo, disk, restarts, history>>,
         signal' \in BOOLEAN, errors' \in 0 .. MaxErrors,
         tail' \in [pc : Pcs, sess : 0 .. MaxSessions, from : 0 .. MaxLines],
         tail.pc # "store", tail'.pc \in {"wait", "open"}
  PROVE  TailInv'
<1>. USE DEF disk, history
<1>1. StateTyped'
  BY InvFacts DEF StateTyped, Pcs
<1>2. Positions'
  BY InvFacts DEF Positions
<1>3. Position' = Position
  BY DEF Position
<1>4. MemKept' /\ DiskKept'
  BY <1>3, MemStays, DiskStays
<1>5. at' = at /\ Position <= Position' /\ at.mem <= at'.mem
  <2>1. Position \in Nat /\ at.mem \in 1 .. Len(logs)
    BY InvFacts
  <2>. QED  BY <1>3, <2>1
<1>. QED  BY <1>1, <1>2, <1>4, <1>5, TailKeeps

LEMMA WakeKeeps == ASSUME TailInv, Wake PROVE TailInv'
<1>1. errors' \in 0 .. MaxErrors /\ UNCHANGED <<logs, offset, todo, disk, restarts, history>>
  BY InvFacts DEF Wake, StateTyped, bounds
<1>. QED  BY <1>1, WaitingIs, IdleKeeps DEF Wake

LEMMA OpenFailsKeeps == ASSUME TailInv, OpenFails PROVE TailInv'
<1>1. signal' \in BOOLEAN /\ errors' \in 0 .. MaxErrors
  BY InvFacts, ErrorIs DEF OpenFails, StateTyped
<1>. QED  BY <1>1, WaitingIs, IdleKeeps DEF OpenFails

LEMMA WriteCursorFailsKeeps == ASSUME TailInv, WriteCursorFails PROVE TailInv'
<1>1. signal' \in BOOLEAN /\ errors' \in 0 .. MaxErrors
  BY InvFacts, ErrorIs DEF WriteCursorFails, StateTyped
<1>. QED  BY <1>1, WaitingIs, IdleKeeps DEF WriteCursorFails
LEMMA OpenKeeps == ASSUME TailInv, Open PROVE TailInv'
<1>. DEFINE len == Len(logs[Current]) start == StartOffset(len)
            skipped == IF at.mem = Current THEN {}
                       ELSE {l \in Lines : l.sess = Current /\ l.line <= start}
<1>1. /\ tail.pc = "open" /\ offset' = start /\ at' = [at EXCEPT !.mem = Current]
      /\ tail' = IF len = start THEN Waiting ELSE [pc |-> "read", sess |-> Current, from |-> start]
      /\ missed' = missed \cup skipped
      /\ UNCHANGED <<logs, signal, todo, cursor, done, stored, restarts, errors, failed>>
  BY DEF Open, disk, bounds
<1>2. len \in Nat /\ len <= MaxLines /\ Current = Len(logs) /\ Current \in 1 .. MaxSessions
  BY InvFacts DEF Current, LogsTyped
<1>3. start \in Nat /\ start <= len /\ (offset <= len => start = offset)
  BY <1>2, InvFacts DEF StartOffset
<1>4. skipped \subseteq Lines /\ (at.mem # Current => \A i \in 1 .. start : [sess |-> Current, line |-> i] \in skipped)
  <2>1. ASSUME at.mem # Current, NEW i \in 1 .. start PROVE [sess |-> Current, line |-> i] \in skipped
    <3>1. i \in 1 .. MaxLines /\ i <= start /\ Current \in Sessions
      BY <1>2, <1>3, InvFacts DEF Sessions
    <3>2. [sess |-> Current, line |-> i] \in Lines
      BY <3>1 DEF Lines
    <3>. HIDE DEF start
    <3>. QED  BY <2>1, <3>1, <3>2
  <2>. QED  BY <2>1
<1>5. at'.mem = Current /\ at'.disk = at.disk /\ at' \in [mem : 1 .. Len(logs), disk : 1 .. Len(logs)]
  BY <1>1, InvFacts DEF StateTyped
<1>6. /\ tail' \in [pc : Pcs, sess : 0 .. MaxSessions, from : 0 .. MaxLines]
      /\ \/ tail'.pc = "wait"
         \/ tail'.pc = "read" /\ tail'.sess = Current /\ tail'.from = start
  <2>1. CASE len = start
    BY <1>1, <2>1, WaitingIs
  <2>2. CASE len # start
    <3>1. [pc |-> "read", sess |-> Current, from |-> start] \in [pc : Pcs, sess : 0 .. MaxSessions, from : 0 .. MaxLines]
      BY <1>2, <1>3, InvFacts DEF Pcs
    <3>. QED  BY <1>1, <2>2, <3>1
  <2>. QED  BY <2>1, <2>2
<1>. HIDE DEF start, skipped
<1>7. StateTyped'
  BY <1>1, <1>3, <1>4, <1>5, <1>6, InvFacts DEF StateTyped, Pcs
<1>8. Positions'
  <2>1. offset' <= Len(logs'[at'.mem]) /\ cursor' <= Len(logs'[at'.disk])
    BY <1>1, <1>3, <1>5, InvFacts
  <2>2. /\ tail'.pc \in {"read", "store", "cursor"} => tail'.sess = at'.mem /\ tail'.from <= offset'
        /\ tail'.pc = "read" => tail'.from = offset'
    BY <1>1, <1>3, <1>5, <1>6
  <2>. QED  BY <1>1, <2>1, <2>2, InvFacts DEF Positions
<1>. HIDE DEF len
<1>9. Position = offset /\ Position' = start
  BY <1>1, <1>6 DEF Position
<1>10. at.mem = Current => start = offset
  BY <1>3, InvFacts DEF len
<1>11. MemKept'
  <2>1. CASE at.mem = Current
    <3>1. Position' = Position /\ at'.mem = at.mem
      BY <1>5, <1>9, <1>10, <2>1
    <3>. QED  BY <1>1, <3>1, MemStays
  <2>2. CASE at.mem # Current
    <3>1. Kept(stored', missed' \cup failed', logs'[Current], Current, start)
      BY <1>1, <1>4, <2>2 DEF Kept
    <3>. QED  BY <1>5, <1>9, <3>1 DEF MemKept
  <2>. QED  BY <2>1, <2>2
<1>12. DiskKept'
  BY <1>1, <1>5, DiskStays
<1>13. at.mem <= at'.mem /\ (at'.mem = at.mem => Position <= Position')
  <2>1. at.mem <= Current
    BY <1>2, InvFacts
  <2>. QED  BY <1>5, <1>9, <1>10, <2>1, <1>3
<1>. QED  BY <1>1, <1>7, <1>8, <1>11, <1>12, <1>13, TailKeeps

LEMMA ReadKeeps == ASSUME TailInv, Read PROVE TailInv'
<1>1. /\ tail.pc = "read" /\ offset' = Len(logs[tail.sess]) /\ tail' = [tail EXCEPT !.pc = "store"]
      /\ UNCHANGED <<logs, signal, todo, cursor, done, stored, restarts, errors, at, missed, failed>>
  BY DEF Read, disk, bounds, history
<1>2. /\ tail.sess = at.mem /\ tail.from = offset
      /\ tail \in [pc : Pcs, sess : 0 .. MaxSessions, from : 0 .. MaxLines]
  BY <1>1, InvFacts DEF Positions, StateTyped, Pcs
<1>3. /\ tail' \in [pc : Pcs, sess : 0 .. MaxSessions, from : 0 .. MaxLines]
      /\ tail'.pc = "store" /\ tail'.sess = at.mem /\ tail'.from = offset
  BY <1>1, <1>2 DEF Pcs
<1>4. offset' = Len(logs[at.mem]) /\ offset' \in Nat /\ offset <= offset'
  BY <1>1, <1>2, InvFacts
<1>5. StateTyped'
  BY <1>1, <1>3, <1>4, InvFacts DEF StateTyped, Pcs
<1>6. Positions'
  BY <1>1, <1>3, <1>4, InvFacts DEF Positions
<1>7. Position' = Position
  BY <1>1, <1>3 DEF Position
<1>8. MemKept' /\ DiskKept'
  BY <1>1, <1>7, MemStays, DiskStays
<1>9. at.mem <= at'.mem /\ Position <= Position'
  <2>1. Position \in Nat /\ at.mem \in 1 .. Len(logs) /\ at' = at
    BY <1>1, InvFacts
  <2>. QED  BY <1>7, <2>1
<1>. QED  BY <1>1, <1>5, <1>6, <1>8, <1>9, TailKeeps

LEMMA ReadFailsKeeps == ASSUME TailInv, ReadFails PROVE TailInv'
<1>1. /\ tail.pc = "read" /\ tail' = Waiting /\ Error
      /\ UNCHANGED <<logs, signal, todo, cursor, done, stored, restarts, at, failed>>
  BY DEF ReadFails, disk
<1>2. tail.sess = at.mem /\ tail.from = offset
  BY <1>1, InvFacts DEF Positions
<1>3. PICK n \in offset .. Len(logs[at.mem]) :
        /\ offset' = n
        /\ missed' = missed \cup {l \in Lines : l.sess = at.mem /\ l.line \in (offset + 1) .. n}
  BY <1>2 DEF ReadFails
<1>. DEFINE passed == {l \in Lines : l.sess = at.mem /\ l.line \in (offset + 1) .. n}
<1>4. n \in Nat /\ offset <= n /\ n <= Len(logs[at.mem]) /\ n <= MaxLines
  BY InvFacts
<1>5. passed \subseteq Lines /\ \A i \in offset + 1 .. n : [sess |-> at.mem, line |-> i] \in passed
  <2>1. at.mem \in Sessions /\ \A i \in offset + 1 .. n : i \in 1 .. MaxLines
    <3>1. MaxLines \in Nat /\ offset \in Nat
      BY InvFacts
    <3>2. \A i \in offset + 1 .. n : i \in 1 .. MaxLines
      BY <1>4, <3>1
    <3>3. at.mem \in 1 .. Len(logs) /\ Len(logs) \in 1 .. MaxSessions /\ MaxSessions \in Nat
      BY InvFacts DEF LogsTyped
    <3>4. at.mem \in Sessions
      BY <3>3 DEF Sessions
    <3>. QED  BY <3>2, <3>4
  <2>. QED  BY <2>1 DEF Lines
<1>6. missed' = missed \cup passed
  BY <1>3
<1>. HIDE DEF passed
<1>7. StateTyped'
  BY <1>1, <1>3, <1>4, <1>5, <1>6, InvFacts, ErrorIs, WaitingIs DEF StateTyped, Pcs
<1>8. Positions'
  BY <1>1, <1>3, <1>4, InvFacts, WaitingIs DEF Positions
<1>9. Position = offset /\ Position' = n
  BY <1>1, <1>3, WaitingIs DEF Position
<1>10. MemKept'
  <2>1. Kept(stored, missed \cup failed, logs[at.mem], at.mem, offset)
    BY <1>9, InvFacts DEF MemKept
  <2>2. \A i \in 1 .. n : i \in 1 .. offset \/ i \in offset + 1 .. n
    BY <1>4, InvFacts
  <2>3. Kept(stored, missed' \cup failed, logs[at.mem], at.mem, n)
    BY <1>5, <1>6, <2>1, <2>2 DEF Kept
  <2>. QED  BY <1>1, <1>9, <2>3 DEF MemKept
<1>11. DiskKept'
  BY <1>1, <1>6, DiskStays
<1>12. at.mem <= at'.mem /\ Position <= Position'
  <2>1. at.mem \in 1 .. Len(logs) /\ at' = at
    BY <1>1, InvFacts
  <2>. QED  BY <1>4, <1>9, <2>1
<1>. QED  BY <1>1, <1>7, <1>8, <1>10, <1>11, <1>12, TailKeeps

LEMMA WriteCursorKeeps == ASSUME TailInv, WriteCursor PROVE TailInv'
<1>1. /\ tail.pc = "cursor" /\ cursor' = offset /\ at' = [at EXCEPT !.disk = tail.sess] /\ tail' = Waiting
      /\ UNCHANGED <<logs, signal, offset, todo, done, stored, restarts, errors, missed, failed>>
  BY DEF WriteCursor, bounds
<1>2. tail.sess = at.mem
  BY <1>1, InvFacts DEF Positions
<1>3. /\ at'.mem = at.mem /\ at'.disk = at.mem /\ at' \in [mem : 1 .. Len(logs), disk : 1 .. Len(logs)]
  BY <1>1, <1>2, InvFacts DEF StateTyped
<1>4. StateTyped'
  BY <1>1, <1>3, InvFacts, WaitingIs DEF StateTyped, Pcs
<1>5. Positions'
  BY <1>1, <1>3, InvFacts, WaitingIs DEF Positions
<1>6. Position = offset /\ Position' = offset
  BY <1>1, WaitingIs DEF Position
<1>7. MemKept'
  BY <1>1, <1>3, <1>6, MemStays
<1>8. DiskKept'
  BY <1>1, <1>3, <1>6, InvFacts DEF MemKept, DiskKept
<1>9. at.mem <= at'.mem /\ Position <= Position'
  BY <1>3, <1>6, InvFacts
<1>. QED  BY <1>1, <1>4, <1>5, <1>7, <1>8, <1>9, TailKeeps
-----------------------------------------------------------------------------
(* Rows are stored.                                                        *)
LEMMA Storing ==
  ASSUME TailInv, NEW s \in 1 .. Len(logs), NEW batch,
         \A r \in batch : r.sess = s /\ RowOf(r, logs[s])
  PROVE  /\ InsertAll(stored, batch) = stored \cup batch
         /\ \A r \in stored \cup batch : RowMeant(r)
<1>1. \A r \in stored : RowMeant(r)
  BY InvFacts DEF RowsMeant
<1>2. \A r \in batch : RowMeant(r)
  BY DEF RowMeant
<1>3. \A r \in stored \cup batch : RowMeant(r)
  BY <1>1, <1>2
<1>. QED  BY <1>3, InvFacts, InsertIs

LEMMA LinesAre ==
  ASSUME TailInv, NEW s \in 1 .. Len(logs), NEW i \in 1 .. Len(logs[s])
  PROVE  [sess |-> s, line |-> i] \in Lines
<1>1. /\ Len(logs) \in 1 .. MaxSessions /\ MaxSessions \in Nat /\ MaxLines \in Nat
      /\ Len(logs[s]) \in Nat /\ Len(logs[s]) <= MaxLines
  BY InvFacts DEF LogsTyped
<1>2. s \in Sessions /\ i \in 1 .. MaxLines
  BY <1>1 DEF Sessions
<1>. QED  BY <1>2 DEF Lines

LEMMA BufferedRows ==
  ASSUME TailInv, tail.pc = "store"
  PROVE  /\ \A r \in Buffered : /\ r.sess = at.mem /\ RowOf(r, logs[at.mem])
                                /\ \A k \in r.lines : k \in tail.from + 1 .. offset
         /\ \A i \in tail.from + 1 .. offset :
              logs[at.mem][i] \notin {"u", "x"} => \E r \in Buffered : i \in r.lines
         /\ \A r, q \in Buffered : r # q => r.lines \cap q.lines = {}
<1>1. /\ tail.sess = at.mem /\ tail.from \in Nat /\ offset \in Nat /\ offset <= Len(logs[at.mem])
      /\ LogsTyped /\ at.mem \in 1 .. Len(logs)
  BY InvFacts DEF Positions
<1>2. PICK s \in 1 .. Len(logs) : s = at.mem
  BY <1>1
<1>3. PICK from \in Nat, to \in Nat : from = tail.from /\ to = offset
  BY <1>1
<1>4. to <= Len(logs[s]) /\ Buffered = Batch(s, from, to)
  BY <1>1, <1>2, <1>3 DEF Buffered
<1>5. /\ \A r \in Batch(s, from, to) : /\ r.sess = s /\ RowOf(r, logs[s])
                                       /\ \A k \in r.lines : k \in from + 1 .. to
      /\ \A k \in from + 1 .. to : logs[s][k] \notin {"u", "x"} => \E r \in Batch(s, from, to) : k \in r.lines
      /\ \A r, q \in Batch(s, from, to) : r # q => r.lines \cap q.lines = {}
  BY <1>1, <1>4, BatchRows, Zenon
<1>. QED  BY <1>2, <1>3, <1>4, <1>5

LEMMA StoreSome ==
  ASSUME TailInv, tail.pc = "store", NEW batch, batch \subseteq Buffered,
         stored' = InsertAll(stored, batch), tail' = [tail EXCEPT !.pc = "cursor"],
         failed \subseteq failed', failed' \subseteq Lines, errors' \in 0 .. MaxErrors,
         \A i \in tail.from + 1 .. offset :
           logs[at.mem][i] \notin {"u", "x"} => (\E r \in batch : i \in r.lines) \/ [sess |-> at.mem, line |-> i] \in failed',
         UNCHANGED <<logs, signal, offset, todo, cursor, done, restarts, at, missed>>
  PROVE  TailInv'
<1>1. tail.sess = at.mem /\ tail.from <= offset /\ tail.from \in Nat /\ offset \in Nat /\ Position = tail.from
  BY InvFacts DEF Positions, Position
<1>2. /\ \A r \in batch : /\ r.sess = at.mem /\ RowOf(r, logs[at.mem])
                          /\ \A k \in r.lines : k \in tail.from + 1 .. offset
      /\ \A r, q \in batch : r # q => r.lines \cap q.lines = {}
  BY BufferedRows
<1>3. stored' = stored \cup batch /\ \A r \in stored' : RowMeant(r)
  <2>1. at.mem \in 1 .. Len(logs)
    BY InvFacts
  <2>2. \A r \in batch : r.sess = at.mem /\ RowOf(r, logs[at.mem])
    BY <1>2
  <2>. QED  BY <2>1, <2>2, Storing
<1>4. /\ tail' \in [pc : Pcs, sess : 0 .. MaxSessions, from : 0 .. MaxLines]
      /\ tail'.pc = "cursor" /\ tail'.sess = at.mem /\ tail'.from = tail.from
  BY <1>1, InvFacts DEF StateTyped, Pcs
<1>5. StateTyped'
  BY <1>4, InvFacts DEF StateTyped, Pcs
<1>6. Positions'
  BY <1>1, <1>4, InvFacts DEF Positions
<1>7. LogsTyped' /\ RowsMeant'
  BY <1>3, InvFacts DEF LogsTyped, RowsMeant, RowMeant
<1>8. Position' = offset
  BY <1>4 DEF Position
<1>9. MemKept'
  <2>1. Kept(stored, missed \cup failed, logs[at.mem], at.mem, tail.from)
    BY <1>1, InvFacts DEF MemKept
  <2>2. \A i \in 1 .. offset : i \in 1 .. tail.from \/ i \in tail.from + 1 .. offset
    BY <1>1
  <2>3. ASSUME NEW i \in 1 .. offset, logs[at.mem][i] \notin {"u", "x"}
        PROVE  (\E r \in stored' : r.sess = at.mem /\ i \in r.lines) \/ [sess |-> at.mem, line |-> i] \in missed' \cup failed'
    <3>1. CASE i \in 1 .. tail.from
      BY <1>3, <2>1, <2>3, <3>1 DEF Kept
    <3>2. CASE i \in tail.from + 1 .. offset
      BY <1>2, <1>3, <2>3, <3>2
    <3>. QED  BY <2>2, <3>1, <3>2
  <2>4. Kept(stored', missed' \cup failed', logs[at.mem], at.mem, offset)
    BY <2>3 DEF Kept
  <2>. QED  BY <1>8, <2>4 DEF MemKept
<1>10. DiskKept'
  BY <1>3, DiskStays
<1>11. SweptKept'
  <2>1. SUFFICES ASSUME NEW s \in Sessions, done[s] > 0 PROVE Kept(stored', failed', logs[s], s, done[s])
    BY DEF SweptKept
  <2>2. Kept(stored, failed, logs[s], s, done[s])
    BY <2>1, InvFacts DEF SweptKept
  <2>. QED  BY <1>3, <2>2, KeptStays
<1>12. FirstRun'
  <2>1. SUFFICES ASSUME restarts = 0
                 PROVE  /\ \A r, q \in stored' : r # q /\ r.sess = q.sess => r.lines \cap q.lines = {}
                        /\ \A s \in todo : s < at.mem
                        /\ \A r \in stored' : /\ r.sess \notin todo /\ r.sess <= at.mem
                                              /\ r.sess = at.mem => \A k \in r.lines : k <= offset
    BY <1>8 DEF FirstRun
  <2>2. /\ \A r, q \in stored : r # q /\ r.sess = q.sess => r.lines \cap q.lines = {}
        /\ \A s \in todo : s < at.mem
        /\ \A r \in stored : /\ r.sess \notin todo /\ r.sess <= at.mem
                             /\ r.sess = at.mem => \A k \in r.lines : k <= tail.from
    BY <1>1, <2>1, InvFacts DEF FirstRun
  <2>3. at.mem \notin todo /\ at.mem <= at.mem
    <3>1. at.mem \in Nat
      BY InvFacts
    <3>. QED  BY <2>2, <3>1
  <2>4. \A r \in batch : /\ r.sess \notin todo /\ r.sess <= at.mem
                         /\ \A k \in r.lines : k \in Nat /\ tail.from < k /\ k <= offset
    BY <1>1, <1>2, <2>3
  <2>5. ASSUME NEW r \in stored, r.sess = at.mem, NEW k \in r.lines PROVE k \in Nat /\ k <= tail.from /\ k <= offset
    <3>1. RowOf(r, logs[at.mem]) /\ Len(logs[at.mem]) \in Nat
      BY <2>5, InvFacts DEF RowsMeant, RowMeant
    <3>2. k \in Nat
      BY <3>1, RowLines
    <3>. QED  BY <1>1, <2>2, <2>5, <3>2
  <2>6. ASSUME NEW r \in stored, NEW q \in batch, r.sess = q.sess PROVE r.lines \cap q.lines = {}
    <3>1. r.sess = at.mem
      BY <1>2, <2>6
    <3>. QED  BY <1>1, <2>4, <2>5, <3>1
  <2>7. \A r, q \in stored' : r # q /\ r.sess = q.sess => r.lines \cap q.lines = {}
    BY <1>2, <1>3, <2>2, <2>6
  <2>8. \A r \in stored' : /\ r.sess \notin todo /\ r.sess <= at.mem
                           /\ r.sess = at.mem => \A k \in r.lines : k <= offset
    BY <1>3, <2>2, <2>4, <2>5
  <2>. QED  BY <2>2, <2>7, <2>8
<1>. QED  BY <1>5, <1>6, <1>7, <1>9, <1>10, <1>11, <1>12 DEF TailInv

LEMMA StoreKeeps == ASSUME TailInv, Store PROVE TailInv'
<1>1. /\ tail.pc = "store" /\ stored' = InsertAll(stored, Buffered) /\ tail' = [tail EXCEPT !.pc = "cursor"]
      /\ UNCHANGED <<logs, signal, offset, todo, cursor, done, restarts, errors, at, missed, failed>>
  BY DEF Store, bounds, history
<1>2. failed \subseteq failed' /\ failed' \subseteq Lines /\ errors' \in 0 .. MaxErrors
  BY <1>1, InvFacts DEF StateTyped
<1>3. PICK batch : batch = Buffered
  OBVIOUS
<1>4. \A i \in tail.from + 1 .. offset : logs[at.mem][i] \notin {"u", "x"} => \E r \in batch : i \in r.lines
  BY <1>1, <1>3, BufferedRows
<1>. QED  BY <1>1, <1>2, <1>3, <1>4, StoreSome

LEMMA StoreFailsKeeps == ASSUME TailInv, StoreFails PROVE TailInv'
<1>1. /\ tail.pc = "store" /\ tail' = [tail EXCEPT !.pc = "cursor"] /\ Error
      /\ UNCHANGED <<logs, signal, offset, todo, cursor, done, restarts, at, missed>>
  BY DEF StoreFails
<1>2. PICK r \in Buffered : /\ stored' = InsertAll(stored, Buffered \ {r})
                            /\ failed' = failed \cup LinesOf(r)
  BY DEF StoreFails
<1>3. failed \subseteq failed' /\ failed' \subseteq Lines /\ errors' \in 0 .. MaxErrors
  BY <1>1, <1>2, InvFacts, ErrorIs DEF StateTyped, LinesOf
<1>4. PICK batch : batch = Buffered \ {r}
  OBVIOUS
<1>5. \A i \in tail.from + 1 .. offset : logs[at.mem][i] \notin {"u", "x"} =>
        (\E q \in batch : i \in q.lines) \/ [sess |-> at.mem, line |-> i] \in failed'
  <2>1. SUFFICES ASSUME NEW i \in tail.from + 1 .. offset, logs[at.mem][i] \notin {"u", "x"}, i \in r.lines
                 PROVE  [sess |-> at.mem, line |-> i] \in LinesOf(r)
    BY <1>1, <1>2, <1>4, BufferedRows
  <2>2. r.sess = at.mem /\ i \in 1 .. Len(logs[at.mem])
    <3>1. r.sess = at.mem /\ RowOf(r, logs[at.mem]) /\ Len(logs[at.mem]) \in Nat
      BY <1>1, InvFacts, BufferedRows
    <3>. QED  BY <2>1, <3>1, RowLines
  <2>3. [sess |-> at.mem, line |-> i] \in Lines
    BY <2>2, InvFacts, LinesAre
  <2>. QED  BY <2>1, <2>2, <2>3 DEF LinesOf
<1>. QED  BY <1>1, <1>2, <1>3, <1>4, <1>5, StoreSome
-----------------------------------------------------------------------------
(* The sweep.                                                              *)
LEMMA SweepSome ==
  ASSUME TailInv, NEW s \in todo, NEW batch, batch \subseteq Replay(s),
         stored' = InsertAll(stored, batch), todo' = todo \ {s},
         failed \subseteq failed', failed' \subseteq Lines, errors' \in 0 .. MaxErrors,
         \/ done' = done
         \/ /\ done' = [done EXCEPT ![s] = Len(logs[s])]
            /\ \A i \in done[s] + 1 .. Len(logs[s]) :
                 logs[s][i] \notin {"u", "x"} => (\E r \in batch : i \in r.lines) \/ [sess |-> s, line |-> i] \in failed',
         UNCHANGED <<logs, signal, offset, cursor, tail, restarts, at, missed>>
  PROVE  TailInv'
<1>1. /\ s \in 1 .. Len(logs) /\ s \in Nat /\ s < Len(logs) /\ s \in Sessions /\ done[s] \in Nat
      /\ Len(logs[s]) \in Nat /\ done \in [Sessions -> Nat]
  <2>1. todo \subseteq 1 .. Len(logs) - 1 /\ Len(logs) \in 1 .. MaxSessions /\ MaxSessions \in Nat /\ done \in [Sessions -> Nat]
    BY InvFacts DEF StateTyped, LogsTyped
  <2>2. s \in 1 .. Len(logs) /\ s \in Nat /\ s < Len(logs) /\ s \in Sessions
    BY <2>1 DEF Sessions
  <2>. QED  BY <2>1, <2>2, InvFacts
<1>2. /\ \A r \in batch : /\ r.sess = s /\ RowOf(r, logs[s])
      /\ \A r, q \in batch : r # q => r.lines \cap q.lines = {}
  BY <1>1, InvFacts, ReplayRows
<1>3. stored' = stored \cup batch /\ \A r \in stored' : RowMeant(r)
  BY <1>1, <1>2, Storing
<1>4. /\ done' \in [Sessions -> Nat] /\ \A q \in Sessions : q # s => done'[q] = done[q]
      /\ done'[s] = done[s] \/ done'[s] = Len(logs[s])
  BY <1>1
<1>5. StateTyped'
  <2>1. todo' \subseteq 1 .. Len(logs) - 1
    BY InvFacts DEF StateTyped
  <2>. QED  BY <1>4, <2>1, InvFacts DEF StateTyped
<1>6. Positions'
  <2>1. ASSUME NEW q \in Sessions, done'[q] > 0 PROVE q < Len(logs) /\ done'[q] <= Len(logs[q])
    <3>1. done[q] > 0 => q < Len(logs) /\ done[q] <= Len(logs[q])
      BY InvFacts DEF Positions
    <3>. QED  BY <1>1, <1>4, <2>1, <3>1
  <2>. QED  BY <2>1, InvFacts DEF Positions
<1>7. LogsTyped' /\ RowsMeant'
  BY <1>3, InvFacts DEF LogsTyped, RowsMeant, RowMeant
<1>8. Position' = Position
  BY DEF Position
<1>9. MemKept' /\ DiskKept'
  BY <1>3, <1>8, MemStays, DiskStays
<1>10. SweptKept'
  <2>1. SUFFICES ASSUME NEW q \in Sessions, done'[q] > 0 PROVE Kept(stored', failed', logs[q], q, done'[q])
    BY DEF SweptKept
  <2>2. ASSUME done[q] > 0 PROVE Kept(stored', failed', logs[q], q, done[q])
    <3>1. Kept(stored, failed, logs[q], q, done[q])
      BY <2>2, InvFacts DEF SweptKept
    <3>. QED  BY <1>3, <3>1, KeptStays
  <2>3. CASE done'[q] = done[q]
    BY <2>1, <2>2, <2>3
  <2>4. CASE done'[q] # done[q]
    <3>1. q = s /\ done'[s] = Len(logs[s])
      BY <1>4, <2>4
    <3>2. \A i \in done[s] + 1 .. Len(logs[s]) :
            logs[s][i] \notin {"u", "x"} => (\E r \in batch : i \in r.lines) \/ [sess |-> s, line |-> i] \in failed'
      BY <2>4
    <3>3. ASSUME NEW i \in 1 .. Len(logs[s]), logs[s][i] \notin {"u", "x"}
          PROVE  (\E r \in stored' : r.sess = s /\ i \in r.lines) \/ [sess |-> s, line |-> i] \in failed'
      <4>1. CASE i > done[s]
        <5>1. i \in done[s] + 1 .. Len(logs[s])
          BY <1>1, <4>1
        <5>. QED  BY <1>2, <1>3, <3>2, <3>3, <5>1
      <4>2. CASE ~(i > done[s])
        <5>1. done[s] > 0 /\ i \in 1 .. done[s]
          BY <1>1, <4>2
        <5>. QED  BY <2>2, <3>1, <3>3, <5>1 DEF Kept
      <4>. QED  BY <4>1, <4>2
    <3>4. Kept(stored', failed', logs[s], s, Len(logs[s]))
      BY <3>3 DEF Kept
    <3>. QED  BY <3>1, <3>4
  <2>. QED  BY <2>3, <2>4
<1>11. FirstRun'
  <2>1. SUFFICES ASSUME restarts = 0
                 PROVE  /\ \A r, q \in stored' : r # q /\ r.sess = q.sess => r.lines \cap q.lines = {}
                        /\ \A t \in todo' : t < at.mem
                        /\ \A r \in stored' : /\ r.sess \notin todo' /\ r.sess <= at.mem
                                              /\ r.sess = at.mem => \A k \in r.lines : k <= Position
    BY <1>8 DEF FirstRun
  <2>2. /\ \A r, q \in stored : r # q /\ r.sess = q.sess => r.lines \cap q.lines = {}
        /\ \A t \in todo : t < at.mem
        /\ \A r \in stored : /\ r.sess \notin todo /\ r.sess <= at.mem
                             /\ r.sess = at.mem => \A k \in r.lines : k <= Position
    BY <2>1, InvFacts DEF FirstRun
  <2>3. s < at.mem /\ s <= at.mem /\ s # at.mem /\ s \notin todo'
    <3>1. at.mem \in Nat
      BY InvFacts
    <3>. QED  BY <1>1, <2>2, <3>1
  <2>4. \A r \in batch : r.sess = s
    BY <1>2
  <2>5. \A r \in stored : r.sess # s
    BY <2>2
  <2>6. \A r, q \in stored' : r # q /\ r.sess = q.sess => r.lines \cap q.lines = {}
    BY <1>2, <1>3, <2>2, <2>4, <2>5
  <2>7. \A r \in stored' : /\ r.sess \notin todo' /\ r.sess <= at.mem
                           /\ r.sess = at.mem => \A k \in r.lines : k <= Position
    BY <1>3, <2>2, <2>3, <2>4
  <2>. QED  BY <2>2, <2>6, <2>7
<1>. QED  BY <1>5, <1>6, <1>7, <1>9, <1>10, <1>11 DEF TailInv

LEMMA SweepFacts ==
  ASSUME TailInv, NEW s \in todo
  PROVE  /\ s \in 1 .. Len(logs) /\ done[s] \in Nat /\ Len(logs[s]) \in Nat
         /\ \A r \in Replay(s) : r.sess = s /\ RowOf(r, logs[s])
         /\ \A k \in done[s] + 1 .. Len(logs[s]) : logs[s][k] \notin {"u", "x"} => \E r \in Replay(s) : k \in r.lines
<1>1. todo \subseteq 1 .. Len(logs) - 1 /\ Len(logs) \in 1 .. MaxSessions /\ MaxSessions \in Nat /\ done \in [Sessions -> Nat]
  BY InvFacts DEF StateTyped, LogsTyped
<1>2. s \in 1 .. Len(logs) /\ s \in Sessions
  BY <1>1 DEF Sessions
<1>. QED  BY <1>1, <1>2, InvFacts, ReplayRows

LEMMA BackfillKeeps == ASSUME TailInv, NEW s \in Sessions, Backfill(s) PROVE TailInv'
<1>1. /\ s \in todo /\ stored' = InsertAll(stored, Replay(s)) /\ todo' = todo \ {s}
      /\ done' = [done EXCEPT ![s] = Len(logs[s])]
      /\ UNCHANGED <<logs, signal, offset, cursor, tail, restarts, errors, at, missed, failed>>
  BY DEF Backfill, bounds, history
<1>2. failed \subseteq failed' /\ failed' \subseteq Lines /\ errors' \in 0 .. MaxErrors
  BY <1>1, InvFacts DEF StateTyped
<1>3. PICK batch : batch = Replay(s)
  OBVIOUS
<1>4. \A i \in done[s] + 1 .. Len(logs[s]) : logs[s][i] \notin {"u", "x"} => \E r \in batch : i \in r.lines
  BY <1>1, <1>3, SweepFacts
<1>. QED  BY <1>1, <1>2, <1>3, <1>4, SweepSome

LEMMA BackfillSkipsKeeps == ASSUME TailInv, NEW s \in Sessions, BackfillSkips(s) PROVE TailInv'
<1>1. /\ s \in todo /\ todo' = todo \ {s} /\ done' = [done EXCEPT ![s] = Len(logs[s])] /\ Error
      /\ UNCHANGED <<logs, signal, offset, cursor, tail, restarts, at, missed>>
  BY DEF BackfillSkips
<1>2. PICK r \in Replay(s) : /\ stored' = InsertAll(stored, Replay(s) \ {r})
                             /\ failed' = failed \cup LinesOf(r)
  BY DEF BackfillSkips
<1>3. failed \subseteq failed' /\ failed' \subseteq Lines /\ errors' \in 0 .. MaxErrors
  BY <1>1, <1>2, InvFacts, ErrorIs DEF StateTyped, LinesOf
<1>4. PICK batch : batch = Replay(s) \ {r}
  OBVIOUS
<1>5. \A i \in done[s] + 1 .. Len(logs[s]) : logs[s][i] \notin {"u", "x"} =>
        (\E q \in batch : i \in q.lines) \/ [sess |-> s, line |-> i] \in failed'
  <2>1. SUFFICES ASSUME NEW i \in done[s] + 1 .. Len(logs[s]), logs[s][i] \notin {"u", "x"}, i \in r.lines
                 PROVE  [sess |-> s, line |-> i] \in LinesOf(r)
    BY <1>1, <1>2, <1>4, SweepFacts
  <2>2. r.sess = s /\ i \in 1 .. Len(logs[s]) /\ s \in 1 .. Len(logs)
    <3>1. r.sess = s /\ RowOf(r, logs[s]) /\ Len(logs[s]) \in Nat /\ s \in 1 .. Len(logs)
      BY <1>1, SweepFacts
    <3>. QED  BY <2>1, <3>1, RowLines
  <2>3. [sess |-> s, line |-> i] \in Lines
    BY <2>2, LinesAre
  <2>. QED  BY <2>1, <2>2, <2>3 DEF LinesOf
<1>. QED  BY <1>1, <1>2, <1>3, <1>4, <1>5, SweepSome

LEMMA BackfillFailsKeeps == ASSUME TailInv, NEW s \in Sessions, BackfillFails(s) PROVE TailInv'
<1>1. /\ s \in todo /\ todo' = todo \ {s} /\ Error
      /\ UNCHANGED <<logs, signal, offset, cursor, done, tail, restarts, at, missed, failed>>
  BY DEF BackfillFails, history
<1>2. PICK batch \in SUBSET Replay(s) : stored' = InsertAll(stored, batch)
  BY DEF BackfillFails, Beginnings
<1>3. failed \subseteq failed' /\ failed' \subseteq Lines /\ errors' \in 0 .. MaxErrors
  BY <1>1, InvFacts, ErrorIs DEF StateTyped
<1>. QED  BY <1>1, <1>2, <1>3, SweepSome
-----------------------------------------------------------------------------
(* Crashes.                                                                *)
LEMMA RestartKeeps ==
  ASSUME TailInv, NEW rows, stored \subseteq rows, \A r \in rows : RowMeant(r), Restart(rows)
  PROVE  TailInv'
<1>1. /\ restarts < MaxRestarts /\ restarts' = restarts + 1 /\ stored' = rows /\ signal' = FALSE
      /\ offset' = cursor /\ at' = [at EXCEPT !.mem = at.disk]
      /\ tail' = [Waiting EXCEPT !.pc = "open"] /\ todo' = 1 .. Len(logs) - 1
      /\ UNCHANGED <<logs, cursor, done, errors, missed, failed>>
  BY DEF Restart
<1>2. /\ at'.mem = at.disk /\ at'.disk = at.disk /\ at' \in [mem : 1 .. Len(logs), disk : 1 .. Len(logs)]
  BY <1>1, InvFacts DEF StateTyped
<1>3. restarts' \in 0 .. MaxRestarts /\ restarts' # 0
  <2>1. restarts \in 0 .. MaxRestarts /\ MaxRestarts \in Nat
    BY InvFacts DEF StateTyped
  <2>. QED  BY <1>1, <2>1
<1>4. tail' \in [pc : Pcs, sess : 0 .. MaxSessions, from : 0 .. MaxLines] /\ tail'.pc = "open"
  BY <1>1, WaitingIs
<1>5. StateTyped'
  BY <1>1, <1>2, <1>3, <1>4, InvFacts DEF StateTyped, Pcs
<1>6. Positions'
  BY <1>1, <1>2, <1>4, InvFacts DEF Positions
<1>7. LogsTyped' /\ RowsMeant'
  BY <1>1, InvFacts DEF LogsTyped, RowsMeant, RowMeant
<1>8. DiskKept'
  BY <1>1, <1>2, DiskStays
<1>9. MemKept'
  <2>1. Position' = cursor'
    BY <1>1, <1>4 DEF Position
  <2>. QED  BY <1>2, <1>8, <2>1 DEF MemKept, DiskKept
<1>10. SweptKept'
  <2>1. SUFFICES ASSUME NEW s \in Sessions, done[s] > 0 PROVE Kept(stored', failed, logs[s], s, done[s])
    BY <1>1 DEF SweptKept
  <2>2. Kept(stored, failed, logs[s], s, done[s])
    BY <2>1, InvFacts DEF SweptKept
  <2>. QED  BY <1>1, <2>2, KeptStays
<1>11. FirstRun'
  BY <1>3 DEF FirstRun
<1>. QED  BY <1>5, <1>6, <1>7, <1>8, <1>9, <1>10, <1>11 DEF TailInv

LEMMA DieStoringKeeps == ASSUME TailInv, DieStoring PROVE TailInv'
<1>1. PICK batch \in SUBSET Buffered : tail.pc = "store" /\ Restart(InsertAll(stored, batch))
  BY DEF DieStoring, Beginnings
<1>2. at.mem \in 1 .. Len(logs) /\ \A r \in batch : r.sess = at.mem /\ RowOf(r, logs[at.mem])
  BY <1>1, InvFacts, BufferedRows
<1>3. /\ InsertAll(stored, batch) = stored \cup batch
      /\ \A r \in stored \cup batch : RowMeant(r)
  BY <1>2, Storing
<1>4. PICK rows : rows = stored \cup batch
  OBVIOUS
<1>. QED  BY <1>1, <1>3, <1>4, RestartKeeps

LEMMA DieReplayingKeeps == ASSUME TailInv, DieReplaying PROVE TailInv'
<1>0. PICK s \in todo : \E batch \in SUBSET Replay(s) : Restart(InsertAll(stored, batch))
  BY DEF DieReplaying, Beginnings
<1>1. PICK batch \in SUBSET Replay(s) : Restart(InsertAll(stored, batch))
  BY <1>0
<1>2. s \in 1 .. Len(logs) /\ \A r \in batch : r.sess = s /\ RowOf(r, logs[s])
  BY SweepFacts
<1>3. /\ InsertAll(stored, batch) = stored \cup batch
      /\ \A r \in stored \cup batch : RowMeant(r)
  BY <1>2, Storing
<1>4. PICK rows : rows = stored \cup batch
  OBVIOUS
<1>. QED  BY <1>1, <1>3, <1>4, RestartKeeps

LEMMA DieKeeps == ASSUME TailInv, Die PROVE TailInv'
<1>1. PICK rows : rows = stored
  OBVIOUS
<1>2. \A r \in rows : RowMeant(r)
  BY <1>1, InvFacts DEF RowsMeant
<1>. QED  BY <1>1, <1>2, RestartKeeps DEF Die
-----------------------------------------------------------------------------
LEMMA NextKeeps == TailInv /\ [Next]_vars => TailInv'
<1>. SUFFICES ASSUME TailInv, [Next]_vars PROVE TailInv'
  OBVIOUS
<1>1. ASSUME NEW k \in Kinds, WriteLine(k) PROVE TailInv'
  BY <1>1, WriteLineKeeps
<1>2. CASE Rotate
  BY <1>2, RotateKeeps
<1>3. CASE TailTask
  BY <1>3, WakeKeeps, OpenKeeps, OpenFailsKeeps, ReadKeeps, ReadFailsKeeps, StoreKeeps,
     StoreFailsKeeps, WriteCursorKeeps, WriteCursorFailsKeeps DEF TailTask
<1>4. ASSUME NEW s \in Sessions, Backfill(s) \/ BackfillSkips(s) \/ BackfillFails(s) PROVE TailInv'
  BY <1>4, BackfillKeeps, BackfillSkipsKeeps, BackfillFailsKeeps
<1>5. CASE DieStoring \/ DieReplaying \/ Die
  BY <1>5, DieStoringKeeps, DieReplayingKeeps, DieKeeps
<1>6. CASE UNCHANGED vars
  <2>1. UNCHANGED <<logs, signal, offset, cursor, tail, done, todo, stored, restarts, errors, at, missed, failed>>
    BY <1>6 DEF vars, disk, bounds, history
  <2>2. /\ LogsTyped' /\ StateTyped' /\ Positions' /\ RowsMeant'
    BY <2>1, InvFacts DEF LogsTyped, StateTyped, Positions, RowsMeant, RowMeant
  <2>3. /\ MemKept' /\ DiskKept' /\ SweptKept' /\ FirstRun'
    BY <2>1, InvFacts DEF MemKept, DiskKept, SweptKept, FirstRun, Position
  <2>. QED  BY <2>2, <2>3 DEF TailInv
<1>. QED  BY <1>1, <1>2, <1>3, <1>4, <1>5, <1>6 DEF Next

(* The tail, the sweep and their tables keep the invariant, through every  *)
(* append, rotation, I/O error and crash (gamelog.rs, backfill.rs).        *)
THEOREM TailInvariant == Spec => []TailInv
<1>1. Init => TailInv
  BY InitHolds
<1>2. TailInv /\ [Next]_vars => TailInv'
  BY NextKeeps
<1>. QED  BY <1>1, <1>2, PTL DEF Spec

(* Types of the logs, the tail task, the tables and the histories; offsets *)
(* stay within the bound and rows within their logs (gamelog.rs 120-203).  *)
THEOREM TailTyped == Spec => []TypeOK
BY TailInvariant, TypesHold, PTL

(* Every row is one of its session's log, a line the parser takes or a     *)
(* burst by its rule, also after crashes, re-drains and sweeps over lines  *)
(* that have rows already.                                                 *)
THEOREM RowsAreMeant == Spec => []RowsMeant
<1>1. TailInv => RowsMeant
  BY DEF TailInv
<1>. QED  BY TailInvariant, <1>1, PTL

(* The stored offset of Game.log is never past a line whose event is not   *)
(* stored, skipped or refused by the database, wherever the tray dies:     *)
(* drain stores the rows first (gamelog.rs 187-201).                       *)
THEOREM CursorSafe == Spec => []CursorOnlyPastStored
BY TailInvariant, CursorHolds, PTL

(* A swept log has the event of every line the sweep has passed, unless    *)
(* its own insert failed (backfill.rs 135-216).                            *)
THEOREM SweptComplete == Spec => []SweptIsComplete
BY TailInvariant, SweptHolds, PTL

(* Until the tray restarts no two rows share a line, wherever drains cut   *)
(* the log and bursts end (process_buffer, gamelog.rs 217-319).            *)
THEOREM NoLineTwice == Spec => []CountedOnce
BY TailInvariant, CountedHolds, PTL
=============================================================================
