--------------------------- MODULE ReadingsProofs ---------------------------
(* The counts of the API, put together from sums over buckets, tails, edges,  *)
(* differences and memories, for any cycles, fills and requests.              *)
EXTENDS VerdictProofs, SequenceTheorems

LOCAL INSTANCE Functions

-----------------------------------------------------------------------------
(* Sums over finite sets                                                      *)

Pick(s) == CHOOSE x \in s : TRUE
SumStep(f, g, s) == IF s = {} THEN 0 ELSE f[Pick(s)] + g[s \ {Pick(s)}]
\* g sums f over every set of D.
Sums(f, D, g) == g = [s \in D |-> SumStep(f, g, s)]

LEMMA PickIs ==
  ASSUME NEW s, s # {}, IsFiniteSet(s)
  PROVE  /\ Pick(s) \in s /\ IsFiniteSet(s \ {Pick(s)})
         /\ Cardinality(s) \in Nat /\ Cardinality(s \ {Pick(s)}) \in Nat
         /\ Cardinality(s) = Cardinality(s \ {Pick(s)}) + 1
  <1>1. Pick(s) \in s
    BY DEF Pick
  <1>2. IsFiniteSet(s \ {Pick(s)}) /\ Cardinality(s \ {Pick(s)}) = Cardinality(s) - 1
    BY <1>1, FS_RemoveElement
  <1>3. Cardinality(s) \in Nat /\ Cardinality(s \ {Pick(s)}) \in Nat
    BY <1>2, FS_CardinalityType
  <1> QED
    BY <1>1, <1>2, <1>3

\* A sum over the sets of up to k elements can be carried to k + 1.
LEMMA SumsExist ==
  ASSUME NEW S, IsFiniteSet(S), NEW f
  PROVE  \E g : Sums(f, SUBSET S, g)
  <1> DEFINE Upto(k) == {s \in SUBSET S : Cardinality(s) <= k}
             Bad == {k \in Nat : ~\E g : Sums(f, Upto(k), g)}
  <1>1. \A s \in SUBSET S : IsFiniteSet(s) /\ Cardinality(s) \in Nat
                            /\ Cardinality(s) <= Cardinality(S)
    BY FS_Subset, FS_CardinalityType
  <1>2. Cardinality(S) \in Nat
    BY FS_CardinalityType
  <1>3. Bad = {}
    <2> SUFFICES ASSUME Bad # {} PROVE FALSE
      OBVIOUS
    <2>1. PICK k \in Bad : \A m \in Bad : k <= m
      BY LeastNat
    <2>2. CASE k = 0
      <3> DEFINE g == [s \in Upto(k) |-> 0]
      <3>1. \A s \in Upto(k) : s = {}
        BY <1>1, <2>2, FS_EmptySet
      <3>2. g = [s \in Upto(k) |-> 0]
        OBVIOUS
      <3> HIDE DEF g, Upto
      <3>3. \A s \in Upto(k) : SumStep(f, g, s) = 0
        BY <3>1 DEF SumStep
      <3>4. Sums(f, Upto(k), g)
        BY <3>2, <3>3 DEF Sums
      <3> QED
        BY <2>1, <3>4
    <2>3. CASE k # 0
      <3>1. k - 1 \in Nat /\ k - 1 \notin Bad
        <4>1. k \in Nat
          OBVIOUS
        <4> HIDE DEF Bad
        <4> QED
          BY <2>1, <2>3, <4>1
      <3>2. PICK g : Sums(f, Upto(k - 1), g)
        BY <3>1
      <3> DEFINE G == [s \in Upto(k) |-> IF s \in Upto(k - 1) THEN g[s] ELSE SumStep(f, g, s)]
      <3>3. \A s \in Upto(k) : s # {} => s \ {Pick(s)} \in Upto(k - 1)
        <4> SUFFICES ASSUME NEW s \in Upto(k), s # {}
                     PROVE  s \ {Pick(s)} \in Upto(k - 1)
          OBVIOUS
        <4>1. Cardinality(s) = Cardinality(s \ {Pick(s)}) + 1
              /\ Cardinality(s \ {Pick(s)}) \in Nat
          BY <1>1, PickIs
        <4> QED
          BY <2>1, <4>1
      <3>4. \A s \in Upto(k - 1) : s \in Upto(k)
        BY <1>1, <2>1
      <3>5. DOMAIN g = Upto(k - 1) /\ \A s \in Upto(k - 1) : g[s] = SumStep(f, g, s)
        BY <3>2 DEF Sums
      <3>6. G = [s \in Upto(k) |-> G[s]] /\ (\A s \in Upto(k - 1) : G[s] = g[s])
            /\ \A s \in Upto(k) : G[s] = SumStep(f, g, s)
        BY <3>4, <3>5
      <3> HIDE DEF G, Upto
      <3>7. ASSUME NEW s \in Upto(k)
            PROVE  G[s] = SumStep(f, G, s)
        <4>1. s # {} => G[s \ {Pick(s)}] = g[s \ {Pick(s)}]
          BY <3>3, <3>6
        <4> QED
          BY <3>6, <4>1 DEF SumStep
      <3>8. Sums(f, Upto(k), G)
        BY <3>6, <3>7 DEF Sums
      <3> QED
        BY <2>1, <3>8
    <2> QED
      BY <2>2, <2>3
  <1>4. PICK g : Sums(f, Upto(Cardinality(S)), g)
    BY <1>2, <1>3
  <1>5. Upto(Cardinality(S)) = SUBSET S
    BY <1>1
  <1> QED
    BY <1>4, <1>5

LEMMA SumIs ==
  ASSUME NEW S, IsFiniteSet(S), NEW f
  PROVE  \E g : Sums(f, SUBSET S, g) /\ SumFunctionOnSet(f, S) = g[S]
  <1> DEFINE g == CHOOSE g : g = [s \in SUBSET S |->
                      IF s = {} THEN 0
                      ELSE f[CHOOSE x \in s : TRUE] + g[s \ {CHOOSE x \in s : TRUE}]]
  <1>1. SumFunctionOnSet(f, S) = g[S]
    BY Zenon DEF SumFunctionOnSet, FoldFunctionOnSet, MapThenFoldSet
  <1>2. PICK k : Sums(f, SUBSET S, k)
    BY SumsExist
  <1>3. k = [s \in SUBSET S |->
               IF s = {} THEN 0
               ELSE f[CHOOSE x \in s : TRUE] + k[s \ {CHOOSE x \in s : TRUE}]]
    BY <1>2 DEF Sums, SumStep, Pick
  <1>4. g = [s \in SUBSET S |-> 
               IF s = {} THEN 0
               ELSE f[CHOOSE x \in s : TRUE] + g[s \ {CHOOSE x \in s : TRUE}]]
    BY <1>3, Zenon
  <1> QED
    BY <1>1, <1>4 DEF Sums, SumStep, Pick

\* A sum of counts of disjoint sets is the count of their union, and bounded with them.
SumGood(f, S, A) ==
  /\ SumFunctionOnSet(f, S) \in Nat /\ IsFiniteSet(UNION {A[x] : x \in S})
  /\ (\A x \in S : f[x] <= Cardinality(A[x])) =>
       SumFunctionOnSet(f, S) <= Cardinality(UNION {A[x] : x \in S})
  /\ (\A x \in S : Cardinality(A[x]) <= f[x]) =>
       Cardinality(UNION {A[x] : x \in S}) <= SumFunctionOnSet(f, S)

LEMMA SumBounds ==
  ASSUME NEW S, IsFiniteSet(S), NEW f, \A x \in S : f[x] \in Nat,
         NEW A, \A x \in S : IsFiniteSet(A[x]),
         \A x, y \in S : x # y => A[x] \cap A[y] = {}
  PROVE  SumGood(f, S, A)
  <1> DEFINE U(s) == UNION {A[x] : x \in s}
             Up(g, s) == (\A x \in S : f[x] <= Cardinality(A[x])) => g[s] <= Cardinality(U(s))
             Down(g, s) == (\A x \in S : Cardinality(A[x]) <= f[x]) => Cardinality(U(s)) <= g[s]
             Good(g, s) == /\ g[s] \in Nat /\ IsFiniteSet(U(s)) /\ Cardinality(U(s)) \in Nat
                           /\ Up(g, s) /\ Down(g, s)
  <1>1. PICK g : Sums(f, SUBSET S, g) /\ SumFunctionOnSet(f, S) = g[S]
    BY SumIs
  <1> DEFINE Bad == {n \in Nat : \E s \in SUBSET S : Cardinality(s) = n /\ ~Good(g, s)}
  <1>2. \A s \in SUBSET S : IsFiniteSet(s) /\ Cardinality(s) \in Nat /\ g[s] = SumStep(f, g, s)
    BY <1>1, FS_Subset, FS_CardinalityType DEF Sums
  <1>3. Good(g, {})
    <2>1. U({}) = {} /\ g[{}] = 0
      BY <1>2 DEF SumStep
    <2> HIDE DEF U
    <2> QED
      BY <2>1, FS_EmptySet
  <1>4. ASSUME NEW s \in SUBSET S, s # {}, Good(g, s \ {Pick(s)})
        PROVE  Good(g, s)
    <2> DEFINE x == Pick(s)
               t == s \ {x}
    <2>1. x \in S /\ t \in SUBSET S /\ g[s] = f[x] + g[t]
      BY <1>2, <1>4, PickIs DEF SumStep
    <2>2. U(s) = U(t) \cup A[x] /\ U(t) \cap A[x] = {}
      <3>1. x \in s /\ s \in SUBSET S
        BY <1>2, <1>4, PickIs
      <3> HIDE DEF x
      <3>2. \A y \in t : A[y] \cap A[x] = {}
        BY <3>1
      <3> QED
        BY <3>1, <3>2
    <2>3. /\ g[t] \in Nat /\ IsFiniteSet(U(t)) /\ Cardinality(U(t)) \in Nat
          /\ Up(g, t) /\ Down(g, t)
      BY <1>4
    <2>4. IsFiniteSet(A[x]) /\ f[x] \in Nat
      BY <2>1
    <2> HIDE DEF x, t, U
    <2>5. /\ IsFiniteSet(U(s)) /\ Cardinality(A[x]) \in Nat
          /\ Cardinality(U(s)) = Cardinality(U(t)) + Cardinality(A[x])
      <3>1. Cardinality(U(t) \cap A[x]) = 0
        BY <2>2, FS_EmptySet
      <3>2. Cardinality(A[x]) \in Nat
        BY <2>4, FS_CardinalityType
      <3>3. /\ IsFiniteSet(U(t) \cup A[x])
            /\ Cardinality(U(t) \cup A[x])
                 = Cardinality(U(t)) + Cardinality(A[x]) - Cardinality(U(t) \cap A[x])
        BY <2>3, <2>4, FS_Union
      <3> QED
        BY <2>2, <2>3, <3>1, <3>2, <3>3
    <2>6. Up(g, s)
      BY <2>1, <2>3, <2>4, <2>5
    <2>7. Down(g, s)
      BY <2>1, <2>3, <2>4, <2>5
    <2> QED
      BY <2>1, <2>3, <2>4, <2>5, <2>6, <2>7
  <1>5. Bad = {}
    <2> SUFFICES ASSUME Bad # {} PROVE FALSE
      OBVIOUS
    <2>1. PICK n \in Bad : \A m \in Bad : n <= m
      BY LeastNat
    <2>2. PICK s \in SUBSET S : Cardinality(s) = n /\ ~Good(g, s)
      OBVIOUS
    <2> HIDE DEF Good
    <2>3. s # {}
      BY <1>3, <2>2
    <2>4. /\ s \ {Pick(s)} \in SUBSET S
          /\ Cardinality(s \ {Pick(s)}) \in Nat /\ Cardinality(s \ {Pick(s)}) < n
      BY <1>2, <2>2, <2>3, PickIs
    <2>5. ~Good(g, s \ {Pick(s)})
      BY <1>4, <2>2, <2>3
    <2>6. Cardinality(s \ {Pick(s)}) \in Bad
      BY <2>4, <2>5
    <2>7. n \in Nat
      OBVIOUS
    <2> HIDE DEF Bad
    <2> QED
      BY <2>1, <2>4, <2>6, <2>7
  <1>6. Good(g, S)
    <2> HIDE DEF Good
    <2>1. S \in SUBSET S /\ Cardinality(S) \in Nat
      BY <1>2
    <2> QED
      BY <1>5, <2>1
  <1> QED
    BY <1>1, <1>6 DEF SumGood

LEMMA SumNat ==
  ASSUME NEW S, IsFiniteSet(S), NEW f, \A x \in S : f[x] \in Nat
  PROVE  SumFunctionOnSet(f, S) \in Nat
  <1> DEFINE A == [x \in S |-> {}]
  <1>1. /\ \A x \in S : IsFiniteSet(A[x])
        /\ \A x, y \in S : x # y => A[x] \cap A[y] = {}
    BY FS_EmptySet
  <1> HIDE DEF A
  <1>2. SumGood(f, S, A)
    BY <1>1, SumBounds
  <1> QED
    BY <1>2 DEF SumGood

LEMMA SumAtMost ==
  ASSUME NEW S, IsFiniteSet(S), NEW f, \A x \in S : f[x] \in Nat,
         NEW A, \A x \in S : IsFiniteSet(A[x]),
         \A x, y \in S : x # y => A[x] \cap A[y] = {},
         \A x \in S : f[x] <= Cardinality(A[x])
  PROVE  /\ SumFunctionOnSet(f, S) \in Nat
         /\ SumFunctionOnSet(f, S) <= Cardinality(UNION {A[x] : x \in S})
  <1>1. SumGood(f, S, A)
    BY SumBounds
  <1> QED
    BY <1>1 DEF SumGood

LEMMA SumAtLeast ==
  ASSUME NEW S, IsFiniteSet(S), NEW f, \A x \in S : f[x] \in Nat,
         NEW A, \A x \in S : IsFiniteSet(A[x]),
         \A x, y \in S : x # y => A[x] \cap A[y] = {},
         \A x \in S : Cardinality(A[x]) <= f[x]
  PROVE  Cardinality(UNION {A[x] : x \in S}) <= SumFunctionOnSet(f, S)
  <1>1. SumGood(f, S, A)
    BY SumBounds
  <1> QED
    BY <1>1 DEF SumGood

-----------------------------------------------------------------------------
(* Counts between two instants                                                *)

Within(X, a, b) == {c \in X : a <= c.ts /\ c.ts < b}

LEMMA CountsAre ==
  /\ \A a, b : Direct(a, b) = Cardinality(Within(cycles, a, b))
  /\ \A X, a, b : Tally(X, a, b) = Cardinality(Within(X, a, b))
  /\ \A X, h : HourOfCycles(X, h) = Within(X, h, h + PerHour)
  BY DEF Direct, In, Tally, Within, HourOfCycles

LEMMA Fewer ==
  ASSUME NEW Y, IsFiniteSet(Y), NEW X, X \subseteq Y
  PROVE  /\ IsFiniteSet(X) /\ Cardinality(X) \in Nat /\ Cardinality(Y) \in Nat
         /\ Cardinality(X) <= Cardinality(Y)
  BY FS_Subset, FS_CardinalityType

\* n lies between what had and C have in the window w.
Brackets(C, had, w, n) ==
  n \in Nat /\ Cardinality(Within(had, w[1], w[2])) <= n
            /\ n <= Cardinality(Within(C, w[1], w[2]))

LEMMA BracketsGrow ==
  ASSUME NEW C, NEW D, C \subseteq D, IsFiniteSet(D), NEW had, NEW w, NEW n, Brackets(C, had, w, n)
  PROVE  Brackets(D, had, w, n)
  <1>1. Within(C, w[1], w[2]) \subseteq Within(D, w[1], w[2]) /\ Within(D, w[1], w[2]) \subseteq D
    BY DEF Within
  <1>2. IsFiniteSet(Within(D, w[1], w[2]))
    BY <1>1, Fewer
  <1>3. /\ Cardinality(Within(C, w[1], w[2])) \in Nat
        /\ Cardinality(Within(D, w[1], w[2])) \in Nat
        /\ Cardinality(Within(C, w[1], w[2])) <= Cardinality(Within(D, w[1], w[2]))
    BY <1>1, <1>2, Fewer
  <1> QED
    BY <1>3 DEF Brackets

\* A scan of what has come since had was all there was.
LEMMA ScanBrackets ==
  ASSUME NEW C, IsFiniteSet(C), NEW had, had \subseteq C, NEW w
  PROVE  Brackets(C, had, w, Cardinality(Within(C, w[1], w[2])))
  <1>1. /\ Within(had, w[1], w[2]) \subseteq Within(C, w[1], w[2])
        /\ Within(C, w[1], w[2]) \subseteq C
    BY DEF Within
  <1>2. IsFiniteSet(Within(C, w[1], w[2]))
    BY <1>1, Fewer
  <1>3. /\ Cardinality(Within(had, w[1], w[2])) <= Cardinality(Within(C, w[1], w[2]))
        /\ Cardinality(Within(C, w[1], w[2])) \in Nat
        /\ Cardinality(Within(had, w[1], w[2])) \in Nat
    BY <1>1, <1>2, Fewer
  <1> QED
    BY <1>3 DEF Brackets

-----------------------------------------------------------------------------
(* A bucket counts all cycles of its hour, but of the hours behind            *)

ExactBut(C, R, B) ==
  \A h \in Nat : Floor(h) = h /\ Between(R, h) /\ h \notin B =>
    BucketAt(R, h).total = Cardinality(HourOfCycles(C, h))
FillExactBut(C, lo, next, got, M) ==
  \A h \in Nat : Floor(h) = h /\ lo <= h /\ h < next /\ h \notin M =>
    BucketAt(got, h).total = Cardinality(HourOfCycles(C, h))
BehindOk(C, R, f, B) ==
  /\ \A h \in B : h \in Nat /\ Floor(h) = h
  /\ ExactBut(C, R, B)
  /\ f # Idle => f.missed \subseteq B /\ FillExactBut(C, f.lo, f.next, f.got, f.missed)
BehindInv == BehindOk(cycles, rows, fill, behind)

LEMMA SomeRows ==
  ASSUME NEW R, DOMAIN R # {}
  PROVE  R # <<>>
  <1>1. DOMAIN <<>> = {}
    OBVIOUS
  <1> QED
    BY <1>1

\* A cycle of an hour between two rows is late, and counted too late.
LEMMA BetweenIsLate ==
  ASSUME CoreInv, NEW c \in scope.cycles, Between(rows, Floor(c.ts))
  PROVE  Late(c) /\ Counted(Floor(c.ts))
  <1>1. CyclesOk(scope, cycles) /\ HasNewest(cycles) /\ RowsOk(cycles, rows)
    BY DEF CoreInv
  <1>2. PICK g \in DOMAIN rows, k \in DOMAIN rows : Floor(c.ts) <= g /\ k <= Floor(c.ts)
    BY DEF Between
  <1>3. c.ts \in Nat /\ Floor(c.ts) \in Int
    BY <1>1, CycleTimes, FloorBounds
  <1>4. cycles # {} /\ LimitOf(cycles) \in Int
    BY <1>1, <1>2, HasCycles, LimitInt
  <1>5. g \in Nat /\ k \in Nat /\ g < LimitOf(cycles)
    BY <1>1 DEF RowsOk, Counts
  <1>6. Late(c)
    BY <1>2, <1>3, <1>4, <1>5, LimitBy DEF Late
  <1>7. /\ Max(DOMAIN rows) \in DOMAIN rows /\ g <= Max(DOMAIN rows)
        /\ Min(DOMAIN rows) \in DOMAIN rows /\ Min(DOMAIN rows) <= k
    BY <1>1, <1>2, RowsMax
  <1>8. Max(DOMAIN rows) \in Nat /\ Min(DOMAIN rows) \in Nat
    BY <1>1, <1>7 DEF RowsOk, Counts
  <1>9. Counted(Floor(c.ts))
    BY <1>2, <1>3, <1>5, <1>7, <1>8, SomeRows DEF Counted
  <1> QED
    BY <1>6, <1>9

LEMMA FillIsLate ==
  ASSUME CoreInv, NEW c \in scope.cycles, fill # Idle, fill.lo <= c.ts, c.ts < fill.next
  PROVE  /\ Late(c) /\ Counted(Floor(c.ts))
         /\ fill.lo <= Floor(c.ts) /\ Floor(c.ts) < fill.next
  <1>1. CyclesOk(scope, cycles) /\ HasNewest(cycles) /\ FillOk(cycles, rows, fill)
    BY DEF CoreInv
  <1>2. /\ cycles # {} /\ fill.lo \in Nat /\ fill.next \in Nat /\ fill.hi \in Nat
        /\ Floor(fill.lo) = fill.lo /\ fill.next <= fill.hi /\ fill.hi <= LimitOf(cycles)
    BY <1>1 DEF FillOk, FillRanges
  <1>3. c.ts \in Nat /\ Floor(c.ts) \in Int /\ Floor(c.ts) <= c.ts
    BY <1>1, CycleTimes, FloorBounds
  <1>4. fill.lo <= Floor(c.ts)
    BY <1>2, <1>3, FloorOrder
  <1>5. LimitOf(cycles) \in Int
    BY <1>1, <1>2, LimitInt
  <1>6. Late(c)
    BY <1>2, <1>3, <1>5, LimitBy DEF Late
  <1>7. Floor(c.ts) < fill.next
    BY <1>2, <1>3
  <1> QED
    BY <1>4, <1>6, <1>7 DEF Counted, Summarised

LEMMA OtherHour ==
  ASSUME NEW s, NEW C, CyclesOk(s, C), NEW c \in s.cycles, NEW h \in Nat, Floor(h) = h,
         Floor(c.ts) # h
  PROVE  HourOfCycles(C \cup {c}, h) = HourOfCycles(C, h)
  <1>1. c.ts \in Nat
    BY CycleTimes
  <1>2. ~(h <= c.ts /\ c.ts < h + PerHour)
    BY <1>1, HourOf
  <1> QED
    BY <1>2 DEF HourOfCycles

LEMMA ArriveBehind ==
  ASSUME CoreInv, BehindInv, NEW c \in scope.cycles, Arrive(c)
  PROVE  /\ BehindInv' /\ behind \subseteq behind'
         /\ Between(rows, Floor(c.ts)) => Floor(c.ts) \in behind'
  <1>1. CyclesOk(scope, cycles) /\ HasNewest(cycles) /\ RowsOk(cycles, rows)
        /\ FillOk(cycles, rows, fill)
    BY DEF CoreInv
  <1>2. /\ cycles' = cycles \cup {c} /\ rows' = rows
        /\ behind' = IF Late(c) /\ Counted(Floor(c.ts)) THEN behind \cup {Floor(c.ts)} ELSE behind
        /\ fill' = IF Late(c) /\ fill # Idle /\ fill.lo <= c.ts /\ c.ts < fill.next
                   THEN [fill EXCEPT !.missed = @ \cup {Floor(c.ts)}] ELSE fill
    BY DEF Arrive
  <1>3. c.ts \in Nat /\ Floor(c.ts) \in Nat /\ Floor(Floor(c.ts)) = Floor(c.ts)
    <2>1. c.ts \in Nat
      BY <1>1, CycleTimes
    <2>2. Floor(0 * PerHour) = 0 * PerHour /\ 0 * PerHour = 0
      BY HourIndex, PerHourIs
    <2>3. Floor(0) <= Floor(c.ts)
      BY <2>1, FloorOrder
    <2> QED
      BY <2>1, <2>2, <2>3, FloorBounds
  <1>4. Between(rows, Floor(c.ts)) => Floor(c.ts) \in behind'
    BY <1>2, BetweenIsLate
  <1>5. behind \subseteq behind' /\ \A h \in behind' : h \in Nat /\ Floor(h) = h
    BY <1>2, <1>3 DEF BehindInv, BehindOk
  <1>6. ExactBut(cycles', rows', behind')
    <2> SUFFICES ASSUME NEW h \in Nat, Floor(h) = h, Between(rows, h), h \notin behind'
                 PROVE  BucketAt(rows, h).total = Cardinality(HourOfCycles(cycles \cup {c}, h))
      BY <1>2 DEF ExactBut
    <2>1. Floor(c.ts) # h /\ h \notin behind
      BY <1>4, <1>5
    <2>2. HourOfCycles(cycles \cup {c}, h) = HourOfCycles(cycles, h)
      BY <1>1, <2>1, OtherHour
    <2> QED
      BY <2>1, <2>2 DEF BehindInv, BehindOk, ExactBut
  <1>7. ASSUME fill' # Idle
        PROVE  /\ fill'.missed \subseteq behind'
               /\ FillExactBut(cycles', fill'.lo, fill'.next, fill'.got, fill'.missed)
    <2>1. fill # Idle
      BY <1>2, <1>7
    <2>2. IsFill(fill) /\ FillRanges(cycles, rows, fill.lo, fill.hi, fill.next, fill.got)
      BY <1>1, <2>1 DEF FillOk
    <2>3. /\ fill.missed \subseteq behind
          /\ FillExactBut(cycles, fill.lo, fill.next, fill.got, fill.missed)
      BY <2>1 DEF BehindInv, BehindOk
    <2>4. /\ fill'.lo = fill.lo /\ fill'.next = fill.next /\ fill'.got = fill.got
          /\ fill'.missed = IF fill.lo <= c.ts /\ c.ts < fill.next
                            THEN fill.missed \cup {Floor(c.ts)} ELSE fill.missed
      <3>1. CASE fill.lo <= c.ts /\ c.ts < fill.next
        <4>1. fill' = [fill EXCEPT !.missed = @ \cup {Floor(c.ts)}]
          BY <1>2, <2>1, <3>1, FillIsLate
        <4> QED
          BY <2>2, <3>1, <4>1 DEF IsFill
      <3>2. CASE ~(fill.lo <= c.ts /\ c.ts < fill.next)
        BY <1>2, <3>2
      <3> QED
        BY <3>1, <3>2
    <2>5. fill'.missed \subseteq behind'
      <3>1. fill.lo <= c.ts /\ c.ts < fill.next => Floor(c.ts) \in behind'
        BY <1>2, <2>1, FillIsLate
      <3> QED
        BY <1>5, <2>3, <2>4, <3>1
    <2>6. ASSUME NEW h \in Nat, Floor(h) = h, fill.lo <= h, h < fill.next, h \notin fill'.missed
          PROVE  BucketAt(fill.got, h).total = Cardinality(HourOfCycles(cycles \cup {c}, h))
      <3>1. Floor(c.ts) # h
        <4> SUFFICES ASSUME Floor(c.ts) = h PROVE FALSE
          OBVIOUS
        <4>1. h <= c.ts /\ fill.lo \in Nat /\ fill.next \in Nat /\ Floor(fill.next) = fill.next
          BY <1>3, <2>2, FloorBounds DEF FillRanges
        <4>2. c.ts < fill.next
          <5> SUFFICES ASSUME fill.next <= c.ts PROVE FALSE
            BY <1>3, <4>1
          <5>1. fill.next <= Floor(c.ts)
            BY <1>3, <4>1, FloorOrder
          <5> QED
            BY <2>6, <4>1, <5>1
        <4> QED
          BY <1>3, <2>4, <2>6, <4>1, <4>2
      <3>2. h \notin fill.missed
        BY <2>4, <2>6
      <3>3. HourOfCycles(cycles \cup {c}, h) = HourOfCycles(cycles, h)
        BY <1>1, <2>6, <3>1, OtherHour
      <3> QED
        BY <2>3, <2>6, <3>2, <3>3 DEF FillExactBut
    <2> QED
      BY <1>2, <2>4, <2>5, <2>6 DEF FillExactBut
  <1>8. BehindInv'
    BY <1>5, <1>6, <1>7 DEF BehindInv, BehindOk
  <1> QED
    BY <1>4, <1>5, <1>8

\* The piece of a fill counts its hour.
LEMMA PieceExact ==
  ASSUME NEW s, NEW C, CyclesOk(s, C), NEW R, NEW lo, NEW hi, NEW next, NEW got, NEW M,
         FillRanges(C, R, lo, hi, next, got), FillExactBut(C, lo, next, got, M)
  PROVE  FillExactBut(C, lo, next + PerHour, GotMore(C, next, got), M)
  <1> DEFINE g == GotMore(C, next, got)
             B == BucketOf(C, next)
  <1>1. /\ lo \in Nat /\ next \in Nat /\ Floor(next) = next /\ Counts(C, got)
        /\ \A h \in DOMAIN got : h < next
    BY DEF FillRanges
  <1>2. /\ B.total = 0 => g = got
        /\ B.total # 0 => /\ DOMAIN g = DOMAIN got \cup {next} /\ g[next] = B
                          /\ \A h \in DOMAIN got : h # next => g[h] = got[h]
    BY DEF GotMore
  <1>3. B.total = Cardinality(HourOfCycles(C, next))
    BY DEF BucketOf
  <1>4. next \notin DOMAIN got
    BY <1>1
  <1> HIDE DEF g, B
  <1>5. ASSUME NEW h \in Nat, Floor(h) = h, lo <= h, h < next + PerHour, h \notin M
        PROVE  BucketAt(g, h).total = Cardinality(HourOfCycles(C, h))
    <2>1. CASE h < next
      <3>1. BucketAt(got, h).total = Cardinality(HourOfCycles(C, h))
        BY <1>5, <2>1 DEF FillExactBut
      <3>2. BucketAt(g, h) = BucketAt(got, h)
        BY <1>1, <1>2, <2>1 DEF BucketAt
      <3> QED
        BY <3>1, <3>2
    <2>2. CASE ~(h < next)
      <3>1. h = next
        <4>1. ~(next < h)
          <5> SUFFICES ASSUME next < h PROVE FALSE
            OBVIOUS
          <5>1. next + PerHour <= h
            BY <1>1, <1>5, HourBefore
          <5> QED
            BY <1>1, <1>5, <5>1, PerHourIs
        <4> QED
          BY <1>1, <2>2, <4>1
      <3>2. CASE B.total = 0
        <4>1. BucketAt(g, h) = Zero /\ Zero.total = 0
          BY <1>2, <1>4, <3>1, <3>2 DEF BucketAt, Zero
        <4> QED
          BY <1>3, <3>1, <3>2, <4>1
      <3>3. CASE B.total # 0
        <4>1. BucketAt(g, h) = B
          BY <1>2, <3>1, <3>3 DEF BucketAt
        <4> QED
          BY <1>3, <3>1, <4>1
      <3> QED
        BY <3>2, <3>3
    <2> QED
      BY <2>1, <2>2
  <1>6. FillExactBut(C, lo, next + PerHour, g, M)
    BY <1>5 DEF FillExactBut
  <1> QED
    BY <1>6 DEF g

LEMMA CommitExact ==
  ASSUME NEW s, NEW C, CyclesOk(s, C), NEW R, RowsOk(C, R), NEW B, ExactBut(C, R, B),
         NEW lo, NEW hi, NEW got, NEW M,
         FillRanges(C, R, lo, hi, hi, got), FillExactBut(C, lo, hi, got, M)
  PROVE  ExactBut(C, Upsert(R, got), (B \ {h \in B : lo <= h /\ h < hi}) \cup M)
  <1> DEFINE N2 == Upsert(R, got)
             B2 == (B \ {h \in B : lo <= h /\ h < hi}) \cup M
  <1>1. /\ DOMAIN N2 = DOMAIN R \cup DOMAIN got
        /\ \A h \in DOMAIN got : N2[h] = got[h]
        /\ \A h \in DOMAIN R \ DOMAIN got : N2[h] = R[h]
    BY UpsertIs
  <1> HIDE DEF N2
  <1>2. /\ lo \in Nat /\ hi \in Nat /\ lo < hi /\ Floor(lo) = lo
        /\ \A h \in DOMAIN got : h \in Nat /\ lo <= h /\ h < hi
        /\ \A h \in DOMAIN R : h \in Nat /\ h < hi
    BY DEF FillRanges, Counts, RowsOk
  <1>3. ASSUME NEW h \in Nat, Floor(h) = h, Between(N2, h), h \notin B2
        PROVE  BucketAt(N2, h).total = Cardinality(HourOfCycles(C, h))
    <2>1. h < hi
      <3>1. PICK g \in DOMAIN N2 : h <= g
        BY <1>3 DEF Between
      <3> QED
        BY <1>1, <1>2, <3>1
    <2>2. CASE lo <= h
      <3>1. BucketAt(got, h).total = Cardinality(HourOfCycles(C, h))
        BY <1>3, <2>1, <2>2 DEF FillExactBut
      <3>2. CASE h \in DOMAIN got
        BY <1>1, <3>1, <3>2 DEF BucketAt
      <3>3. CASE h \notin DOMAIN got
        <4>1. Cardinality(HourOfCycles(C, h)) = 0
          BY <3>1, <3>3 DEF BucketAt, Zero
        <4>2. h \notin DOMAIN R
          <5> SUFFICES ASSUME h \in DOMAIN R PROVE FALSE
            OBVIOUS
          <5>1. R[h].total \in 1..Cardinality(HourOfCycles(C, h))
            BY DEF RowsOk, Counts
          <5> QED
            BY <4>1, <5>1
        <4> QED
          BY <1>1, <3>3, <4>1, <4>2 DEF BucketAt, Zero
      <3> QED
        BY <3>2, <3>3
    <2>3. CASE ~(lo <= h)
      <3>1. h \notin B /\ h \notin DOMAIN got
        BY <1>2, <1>3, <2>3
      <3>2. PICK g \in DOMAIN N2 : g <= h
        BY <1>3 DEF Between
      <3>3. g \in DOMAIN R
        BY <1>1, <1>2, <2>3, <3>2
      <3>4. PICK k \in DOMAIN R : lo <= k
        BY <3>3 DEF FillRanges
      <3>5. h <= k
        BY <1>2, <2>3, <3>4
      <3>6. Between(R, h)
        BY <3>2, <3>3, <3>5 DEF Between
      <3>7. BucketAt(N2, h) = BucketAt(R, h)
        BY <1>1, <3>1 DEF BucketAt
      <3> QED
        BY <1>3, <3>1, <3>6, <3>7 DEF ExactBut
    <2> QED
      BY <2>2, <2>3
  <1>4. ExactBut(C, N2, B2)
    BY <1>3 DEF ExactBut
  <1> QED
    BY <1>4 DEF N2

LEMMA FillBehind ==
  ASSUME CoreInv, BehindInv,
         \/ \E since_last \in BOOLEAN : FillBegin(since_last)
         \/ FillPiece \/ FillCommit \/ FillAbort
  PROVE  /\ BehindInv' /\ behind' \subseteq behind /\ DOMAIN rows \subseteq DOMAIN rows'
         /\ cycles' = cycles
  <1>1. CyclesOk(scope, cycles) /\ HasNewest(cycles) /\ RowsOk(cycles, rows)
        /\ FillOk(cycles, rows, fill)
    BY DEF CoreInv
  <1>2. cycles' = cycles
    BY DEF FillBegin, FillPiece, FillCommit, FillAbort
  <1>3. /\ \A h \in behind : h \in Nat /\ Floor(h) = h
        /\ ExactBut(cycles, rows, behind)
        /\ fill # Idle => /\ fill.missed \subseteq behind
                          /\ FillExactBut(cycles, fill.lo, fill.next, fill.got, fill.missed)
    BY DEF BehindInv, BehindOk
  <1>4. ASSUME NEW since_last \in BOOLEAN, FillBegin(since_last)
        PROVE  BehindInv' /\ behind' \subseteq behind /\ DOMAIN rows \subseteq DOMAIN rows'
    <2> DEFINE lo == FillStart(cycles, rows, since_last)
    <2>1. rows' = rows /\ behind' = behind /\ fill = Idle /\ cycles # {}
      BY <1>4 DEF FillBegin
    <2>2. fill' = fill \/ fill' = [lo |-> lo, hi |-> LimitOf(cycles), next |-> lo,
                                   got |-> <<>>, missed |-> {}]
      BY <1>4, LimitBy DEF FillBegin, FillStart, Instants
    <2>3. lo \in Nat
      BY <1>1, <2>1, StartIs
    <2> HIDE DEF lo
    <2>4. ASSUME fill' # Idle
          PROVE  /\ fill'.missed \subseteq behind
                 /\ FillExactBut(cycles, fill'.lo, fill'.next, fill'.got, fill'.missed)
      <3>1. fill'.lo = lo /\ fill'.next = lo /\ fill'.missed = {}
        BY <2>1, <2>2, <2>4
      <3>2. \A h \in Nat : ~(lo <= h /\ h < lo)
        BY <2>3
      <3> QED
        BY <3>1, <3>2 DEF FillExactBut
    <2> QED
      BY <1>2, <1>3, <2>1, <2>4 DEF BehindInv, BehindOk
  <1>5. ASSUME FillPiece
        PROVE  BehindInv' /\ behind' \subseteq behind /\ DOMAIN rows \subseteq DOMAIN rows'
    <2>1. rows' = rows /\ behind' = behind /\ fill # Idle
      BY <1>5 DEF FillPiece
    <2>2. IsFill(fill) /\ FillRanges(cycles, rows, fill.lo, fill.hi, fill.next, fill.got)
      BY <1>1, <2>1 DEF FillOk
    <2> DEFINE G == GotMore(cycles, fill.next, fill.got)
    <2>3. fill' = [fill EXCEPT !.next = @ + PerHour, !.got = G]
      <3>1. \A h : Bucket(h) = BucketOf(cycles, h)
        BY BucketIs
      <3> QED
        BY <1>5, <2>2, <3>1 DEF FillPiece, GotMore, IsFill
    <2>4. FillExactBut(cycles, fill.lo, fill.next + PerHour, G, fill.missed)
      BY <1>1, <1>3, <2>1, <2>2, PieceExact
    <2> HIDE DEF G
    <2>5. /\ fill'.lo = fill.lo /\ fill'.next = fill.next + PerHour /\ fill'.got = G
          /\ fill'.missed = fill.missed
      BY <2>2, <2>3 DEF IsFill
    <2> QED
      BY <1>2, <1>3, <2>1, <2>4, <2>5 DEF BehindInv, BehindOk
  <1>6. ASSUME FillCommit
        PROVE  BehindInv' /\ behind' \subseteq behind /\ DOMAIN rows \subseteq DOMAIN rows'
    <2>1. /\ rows' = Upsert(rows, fill.got) /\ fill # Idle /\ fill.next = fill.hi /\ fill' = Idle
          /\ behind' = (behind \ {h \in behind : fill.lo <= h /\ h < fill.hi}) \cup fill.missed
      BY <1>6 DEF FillCommit
    <2>2. FillRanges(cycles, rows, fill.lo, fill.hi, fill.hi, fill.got)
      BY <1>1, <2>1 DEF FillOk
    <2>3. ExactBut(cycles, rows', behind')
      BY <1>1, <1>3, <2>1, <2>2, CommitExact
    <2>4. behind' \subseteq behind
      BY <1>3, <2>1
    <2>5. DOMAIN rows \subseteq DOMAIN rows'
      <3>1. DOMAIN Upsert(rows, fill.got) = DOMAIN rows \cup DOMAIN fill.got
        BY UpsertIs
      <3> QED
        BY <2>1, <3>1
    <2> QED
      BY <1>2, <1>3, <2>1, <2>3, <2>4, <2>5 DEF BehindInv, BehindOk
  <1>7. ASSUME FillAbort
        PROVE  BehindInv' /\ behind' \subseteq behind /\ DOMAIN rows \subseteq DOMAIN rows'
    <2>1. rows' = rows /\ behind' = behind /\ fill' = Idle
      BY <1>7 DEF FillAbort
    <2> QED
      BY <1>2, <1>3, <2>1 DEF BehindInv, BehindOk
  <1> QED
    BY <1>2, <1>4, <1>5, <1>6, <1>7

-----------------------------------------------------------------------------
(* Sums over the hours of a window                                            *)

LEMMA CeilIs ==
  ASSUME NEW t \in Int
  PROVE  /\ Ceil(t) \in Int /\ Floor(Ceil(t)) = Ceil(t)
         /\ t <= Ceil(t) /\ Ceil(t) < t + PerHour
         /\ Floor(t) = t => Ceil(t) = t
         /\ Floor(t) # t => Ceil(t) = Floor(t) + PerHour
  <1>1. /\ Floor(t) \in Int /\ Floor(t) <= t /\ t < Floor(t) + PerHour
        /\ Floor(Floor(t)) = Floor(t) /\ PerHour \in Nat /\ PerHour > 0
    BY FloorBounds, PerHourIs
  <1>2. Floor(Floor(t) + PerHour) = Floor(t) + PerHour
    BY <1>1, HourNext
  <1>3. CASE Floor(t) = t
    BY <1>1, <1>3 DEF Ceil
  <1>4. CASE Floor(t) # t
    <2>1. Ceil(t) = Floor(t) + PerHour
      BY <1>4 DEF Ceil
    <2>2. Floor(t) < t
      BY <1>1, <1>4
    <2> QED
      BY <1>1, <1>2, <1>4, <2>1, <2>2
  <1> QED
    BY <1>3, <1>4

\* A whole hour at or after t is at or after Ceil(t).
LEMMA CeilLeast ==
  ASSUME NEW t \in Int, NEW h \in Int, Floor(h) = h, t <= h
  PROVE  Ceil(t) <= h
  <1>1. /\ Floor(t) \in Int /\ Floor(t) <= t /\ Floor(Floor(t)) = Floor(t)
    BY FloorBounds
  <1>2. CASE Floor(t) = t
    BY <1>2, CeilIs
  <1>3. CASE Floor(t) # t
    <2>1. Floor(t) + PerHour <= h
      BY <1>1, <1>3, HourBefore
    <2> QED
      BY <1>3, <2>1, CeilIs
  <1> QED
    BY <1>2, <1>3

LEMMA CeilOrder ==
  ASSUME NEW t \in Int, NEW u \in Int, t <= u
  PROVE  Ceil(t) <= Ceil(u)
  <1>1. Ceil(u) \in Int /\ Floor(Ceil(u)) = Ceil(u) /\ t <= Ceil(u)
    BY CeilIs
  <1> QED
    BY <1>1, CeilLeast

LEMMA FiniteHours ==
  ASSUME NEW a \in Int, NEW b \in Int, NEW S, \A h \in S : h \in Int /\ a <= h /\ h <= b
  PROVE  IsFiniteSet(S)
  <1>1. S \subseteq a..b /\ IsFiniteSet(a..b)
    BY FS_Interval
  <1> QED
    BY <1>1, FS_Subset

LEMMA HoursSum ==
  ASSUME NEW S, IsFiniteSet(S), \A h \in S : h \in Int /\ Floor(h) = h,
         NEW f, \A h \in S : f[h] \in Nat,
         NEW X, IsFiniteSet(X), \A c \in X : c.ts \in Nat, NEW Y, Y \subseteq X
  PROVE  /\ SumFunctionOnSet(f, S) \in Nat
         /\ (\A h \in S : f[h] <= Cardinality(HourOfCycles(X, h))) =>
              SumFunctionOnSet(f, S) <= Cardinality({c \in X : Floor(c.ts) \in S})
         /\ ((\A h \in S : Cardinality(HourOfCycles(Y, h)) <= f[h])
               /\ (\A c \in Y : Floor(c.ts) \in S))
              => Cardinality(Y) <= SumFunctionOnSet(f, S)
  <1>1. ASSUME NEW Z, Z \subseteq X
        PROVE  LET A == [h \in S |-> HourOfCycles(Z, h)]
               IN /\ \A h \in S : IsFiniteSet(A[h]) /\ A[h] = HourOfCycles(Z, h)
                  /\ \A g, h \in S : g # h => A[g] \cap A[h] = {}
                  /\ UNION {A[h] : h \in S} = {c \in Z : Floor(c.ts) \in S}
    <2> DEFINE A == [h \in S |-> HourOfCycles(Z, h)]
    <2>1. \A h \in S : A[h] = HourOfCycles(Z, h)
      OBVIOUS
    <2> HIDE DEF A
    <2>2. ASSUME NEW h \in S
          PROVE  IsFiniteSet(A[h])
      <3>1. A[h] \subseteq X
        BY <1>1, <2>1 DEF HourOfCycles
      <3> QED
        BY <3>1, FS_Subset
    <2>3. ASSUME NEW h \in S, NEW c \in A[h]
          PROVE  c \in Z /\ Floor(c.ts) = h
      <3>1. c \in Z /\ h <= c.ts /\ c.ts < h + PerHour
        BY <2>1, <2>3 DEF HourOfCycles
      <3> QED
        BY <1>1, <3>1, HourOf
    <2>4. \A g, h \in S : g # h => A[g] \cap A[h] = {}
      BY <2>3
    <2>5. ASSUME NEW c \in Z, Floor(c.ts) \in S
          PROVE  c \in A[Floor(c.ts)]
      <3>1. Floor(c.ts) <= c.ts /\ c.ts < Floor(c.ts) + PerHour
        BY <1>1, FloorBounds
      <3> QED
        BY <2>1, <2>5, <3>1 DEF HourOfCycles
    <2>6. UNION {A[h] : h \in S} = {c \in Z : Floor(c.ts) \in S}
      BY <2>3, <2>5
    <2> QED
      BY <2>1, <2>2, <2>4, <2>6 DEF A
  <1>2. SumFunctionOnSet(f, S) \in Nat
        /\ ((\A h \in S : f[h] <= Cardinality(HourOfCycles(X, h))) =>
              SumFunctionOnSet(f, S) <= Cardinality({c \in X : Floor(c.ts) \in S}))
    <2> DEFINE A == [h \in S |-> HourOfCycles(X, h)]
    <2>1. /\ \A h \in S : IsFiniteSet(A[h]) /\ A[h] = HourOfCycles(X, h)
          /\ \A g, h \in S : g # h => A[g] \cap A[h] = {}
          /\ UNION {A[h] : h \in S} = {c \in X : Floor(c.ts) \in S}
      BY <1>1
    <2> HIDE DEF A
    <2>2. SumFunctionOnSet(f, S) \in Nat
      BY SumNat
    <2>3. ASSUME \A h \in S : f[h] <= Cardinality(A[h])
          PROVE  SumFunctionOnSet(f, S) <= Cardinality(UNION {A[h] : h \in S})
      BY <2>1, <2>3, SumAtMost
    <2> QED
      BY <2>1, <2>2, <2>3
  <1>3. ASSUME \A h \in S : Cardinality(HourOfCycles(Y, h)) <= f[h],
               \A c \in Y : Floor(c.ts) \in S
        PROVE  Cardinality(Y) <= SumFunctionOnSet(f, S)
    <2> DEFINE A == [h \in S |-> HourOfCycles(Y, h)]
    <2>1. /\ \A h \in S : IsFiniteSet(A[h]) /\ A[h] = HourOfCycles(Y, h)
          /\ \A g, h \in S : g # h => A[g] \cap A[h] = {}
          /\ UNION {A[h] : h \in S} = {c \in Y : Floor(c.ts) \in S}
      BY <1>1
    <2> HIDE DEF A
    <2>2. Cardinality(UNION {A[h] : h \in S}) <= SumFunctionOnSet(f, S)
      <3>1. \A h \in S : Cardinality(A[h]) <= f[h]
        BY <1>3, <2>1
      <3> QED
        BY <2>1, <3>1, SumAtLeast
    <2>3. {c \in Y : Floor(c.ts) \in S} = Y
      BY <1>3
    <2> QED
      BY <1>3, <2>1, <2>2, <2>3
  <1> QED
    BY <1>2, <1>3

\* Counts on both sides of an instant.
LEMMA Halves ==
  ASSUME NEW X, IsFiniteSet(X), \A c \in X : c.ts \in Nat,
         NEW a \in Int, NEW m \in Int, NEW b \in Int, a <= m, m <= b
  PROVE  /\ Cardinality(Within(X, a, m)) \in Nat /\ Cardinality(Within(X, m, b)) \in Nat
         /\ Cardinality(Within(X, a, b)) = Cardinality(Within(X, a, m)) + Cardinality(Within(X, m, b))
  <1> DEFINE Low == Within(X, a, m)
             High == Within(X, m, b)
  <1>1. Within(X, a, b) = Low \cup High /\ Low \cap High = {} /\ Low \subseteq X /\ High \subseteq X
    BY DEF Within
  <1> HIDE DEF Low, High
  <1>2. IsFiniteSet(Low) /\ IsFiniteSet(High) /\ Cardinality(Low) \in Nat /\ Cardinality(High) \in Nat
    BY <1>1, Fewer
  <1>3. Cardinality(Low \cap High) = 0
    BY <1>1, FS_EmptySet
  <1>4. Cardinality(Low \cup High) = Cardinality(Low) + Cardinality(High) - Cardinality(Low \cap High)
    BY <1>2, FS_Union
  <1> QED
    BY <1>1, <1>2, <1>3, <1>4 DEF Low, High

-----------------------------------------------------------------------------
(* The windows of an OEE answer                                               *)

IsWindow(w) == w = <<w[1], w[2]>> /\ w[1] \in Int /\ w[2] \in Int

LEMMA PartialIs ==
  ASSUME NEW w, IsWindow(w), w[1] < w[2]
  PROVE  /\ Ceil(w[1]) >= Floor(w[2]) => Partial(w) = {w}
         /\ Ceil(w[1]) < Floor(w[2]) =>
              /\ w[1] <= Ceil(w[1]) /\ Floor(w[2]) <= w[2]
              /\ Partial(w) = {e \in {<<w[1], Ceil(w[1])>>, <<Floor(w[2]), w[2]>>} : e[1] < e[2]}
         /\ \A e \in Partial(w) : /\ IsWindow(e) /\ e[1] < e[2]
                                  /\ w[1] <= e[1] /\ e[2] <= w[2] /\ Ceil(e[1]) >= Floor(e[2])
  <1>1. /\ w[1] \in Int /\ w[2] \in Int /\ Ceil(w[1]) \in Int /\ w[1] <= Ceil(w[1])
        /\ Floor(w[2]) \in Int /\ Floor(w[2]) <= w[2]
        /\ Floor(Ceil(w[1])) = Ceil(w[1]) /\ Floor(Floor(w[2])) = Floor(w[2])
    BY CeilIs, FloorBounds DEF IsWindow
  <1>2. CASE Ceil(w[1]) >= Floor(w[2])
    <2>1. Partial(w) = {w}
      BY <1>2 DEF Partial
    <2> QED
      BY <1>1, <1>2, <2>1
  <1>3. CASE ~(Ceil(w[1]) >= Floor(w[2]))
    <2>1. Partial(w) = {e \in {<<w[1], Ceil(w[1])>>, <<Floor(w[2]), w[2]>>} : e[1] < e[2]}
      BY <1>3 DEF Partial
    <2>2. Ceil(w[1]) < Floor(w[2])
      BY <1>1, <1>3
    <2>3. Ceil(Floor(w[2])) = Floor(w[2])
      BY <1>1, CeilIs
    <2>4. ASSUME NEW e \in Partial(w)
          PROVE  /\ IsWindow(e) /\ e[1] < e[2]
                 /\ w[1] <= e[1] /\ e[2] <= w[2] /\ Ceil(e[1]) >= Floor(e[2])
      <3>1. e[1] < e[2] /\ (e = <<w[1], Ceil(w[1])>> \/ e = <<Floor(w[2]), w[2]>>)
        BY <2>1
      <3>2. CASE e = <<w[1], Ceil(w[1])>>
        <4>1. e[1] = w[1] /\ e[2] = Ceil(w[1])
          BY <3>2
        <4> QED
          BY <1>1, <2>2, <3>1, <3>2, <4>1 DEF IsWindow
      <3>3. CASE e = <<Floor(w[2]), w[2]>>
        <4>1. e[1] = Floor(w[2]) /\ e[2] = w[2]
          BY <3>3
        <4> QED
          BY <1>1, <2>2, <2>3, <3>1, <3>3, <4>1 DEF IsWindow
      <3> QED
        BY <3>1, <3>2, <3>3
    <2> QED
      BY <1>1, <1>3, <2>1, <2>2, <2>4
  <1> QED
    BY <1>2, <1>3

\* Whole hours and edges together are the window.
LEMMA EdgesSum ==
  ASSUME NEW C, IsFiniteSet(C), \A c \in C : c.ts \in Nat, NEW had, had \subseteq C,
         NEW w, IsWindow(w), w[1] < w[2], Ceil(w[1]) < Floor(w[2]),
         NEW E, \A e \in Partial(w) : Brackets(C, had, e, E[e])
  PROVE  LET n == SumFunctionOnSet(E, Partial(w))
             a == Ceil(w[1])
             b == Floor(w[2])
         IN /\ n \in Nat
            /\ Cardinality(Within(had, w[1], a)) + Cardinality(Within(had, b, w[2])) <= n
            /\ n <= Cardinality(Within(C, w[1], a)) + Cardinality(Within(C, b, w[2]))
  <1> DEFINE n == SumFunctionOnSet(E, Partial(w))
             a == Ceil(w[1])
             b == Floor(w[2])
             Es == Partial(w)
             U(X) == UNION {Within(X, e[1], e[2]) : e \in Es}
  <1>1. /\ w[1] \in Int /\ w[2] \in Int /\ a \in Int /\ b \in Int
        /\ w[1] <= a /\ a < b /\ b <= w[2]
    BY CeilIs, FloorBounds DEF IsWindow
  <1>2. Es = {e \in {<<w[1], a>>, <<b, w[2]>>} : e[1] < e[2]}
    BY PartialIs
  <1> HIDE DEF Es, a, b
  <1>3. IsFiniteSet(Es)
    <2>1. IsFiniteSet({<<w[1], a>>, <<b, w[2]>>})
      <3>1. IsFiniteSet({<<w[1], a>>})
        BY FS_Singleton
      <3>2. {<<w[1], a>>, <<b, w[2]>>} = {<<w[1], a>>} \cup {<<b, w[2]>>}
        OBVIOUS
      <3> QED
        BY <3>1, <3>2, FS_AddElement
    <2>2. Es \subseteq {<<w[1], a>>, <<b, w[2]>>}
      BY <1>2
    <2> QED
      BY <2>1, <2>2, FS_Subset
  <1>4. ASSUME NEW X, X \subseteq C
        PROVE  LET A == [e \in Es |-> Within(X, e[1], e[2])]
               IN /\ \A e \in Es : IsFiniteSet(A[e]) /\ A[e] = Within(X, e[1], e[2])
                  /\ \A d, e \in Es : d # e => A[d] \cap A[e] = {}
                  /\ UNION {A[e] : e \in Es} = Within(X, w[1], a) \cup Within(X, b, w[2])
                  /\ Cardinality(UNION {A[e] : e \in Es})
                       = Cardinality(Within(X, w[1], a)) + Cardinality(Within(X, b, w[2]))
                  /\ Cardinality(UNION {A[e] : e \in Es}) \in Nat
    <2> DEFINE A == [e \in Es |-> Within(X, e[1], e[2])]
    <2>1. \A e \in Es : A[e] = Within(X, e[1], e[2])
      OBVIOUS
    <2> HIDE DEF A
    <2>2. \A e \in Es : IsFiniteSet(A[e])
      <3>1. \A e \in Es : A[e] \subseteq C
        BY <1>4, <2>1 DEF Within
      <3> QED
        BY <3>1, FS_Subset
    <2>3. \A e \in Es : (e[1] = w[1] /\ e[2] = a) \/ (e[1] = b /\ e[2] = w[2])
      <3> SUFFICES ASSUME NEW e \in Es
                   PROVE  (e[1] = w[1] /\ e[2] = a) \/ (e[1] = b /\ e[2] = w[2])
        OBVIOUS
      <3>1. e = <<w[1], a>> \/ e = <<b, w[2]>>
        BY <1>2
      <3> QED
        BY <3>1
    <2>4. \A c \in X : c.ts \in Int
      BY <1>4
    <2>5. \A d, e \in Es : d # e => A[d] \cap A[e] = {}
      <3> SUFFICES ASSUME NEW d \in Es, NEW e \in Es, d # e, NEW c \in A[d] \cap A[e]
                   PROVE  FALSE
        OBVIOUS
      <3>1. c.ts \in Int /\ d[1] <= c.ts /\ c.ts < d[2] /\ e[1] <= c.ts /\ c.ts < e[2]
        BY <2>1, <2>4 DEF Within
      <3>2. \/ d[2] = a /\ e[1] = b
            \/ e[2] = a /\ d[1] = b
        <4>1. /\ d = <<w[1], a>> \/ d = <<b, w[2]>>
              /\ e = <<w[1], a>> \/ e = <<b, w[2]>>
          BY <1>2
        <4> QED
          BY <4>1
      <3> QED
        BY <1>1, <3>1, <3>2
    <2>6. UNION {A[e] : e \in Es} = Within(X, w[1], a) \cup Within(X, b, w[2])
      <3>1. ASSUME NEW c \in UNION {A[e] : e \in Es}
            PROVE  c \in Within(X, w[1], a) \cup Within(X, b, w[2])
        BY <2>1, <2>3
      <3>2. ASSUME NEW c \in Within(X, w[1], a)
            PROVE  c \in UNION {A[e] : e \in Es}
        <4>1. c.ts \in Int /\ w[1] <= c.ts /\ c.ts < a
          BY <2>4 DEF Within
        <4>2. w[1] < a
          BY <1>1, <4>1
        <4>3. <<w[1], a>> \in Es /\ <<w[1], a>>[1] = w[1] /\ <<w[1], a>>[2] = a
          BY <1>2, <4>2
        <4>4. c \in A[<<w[1], a>>]
          BY <2>1, <4>3
        <4> QED
          BY <4>3, <4>4
      <3>3. ASSUME NEW c \in Within(X, b, w[2])
            PROVE  c \in UNION {A[e] : e \in Es}
        <4>1. c.ts \in Int /\ b <= c.ts /\ c.ts < w[2]
          BY <2>4 DEF Within
        <4>2. b < w[2]
          BY <1>1, <4>1
        <4>3. <<b, w[2]>> \in Es /\ <<b, w[2]>>[1] = b /\ <<b, w[2]>>[2] = w[2]
          BY <1>2, <4>2
        <4>4. c \in A[<<b, w[2]>>]
          BY <2>1, <4>3
        <4> QED
          BY <4>3, <4>4
      <3> QED
        BY <3>1, <3>2, <3>3
    <2>7. /\ Cardinality(UNION {A[e] : e \in Es})
               = Cardinality(Within(X, w[1], a)) + Cardinality(Within(X, b, w[2]))
          /\ Cardinality(UNION {A[e] : e \in Es}) \in Nat
      <3> DEFINE Low == Within(X, w[1], a)
                 High == Within(X, b, w[2])
      <3>1. Low \subseteq C /\ High \subseteq C
        BY <1>4 DEF Within
      <3>2. Low \cap High = {}
        BY <1>1, <2>4 DEF Within
      <3> DEFINE V == UNION {A[e] : e \in Es}
      <3>6. V = Low \cup High
        BY <2>6
      <3> HIDE DEF Low, High, V
      <3>3. IsFiniteSet(Low) /\ IsFiniteSet(High) /\ Cardinality(Low) \in Nat /\ Cardinality(High) \in Nat
        BY <3>1, Fewer
      <3>4. Cardinality(Low \cap High) = 0
        BY <3>2, FS_EmptySet
      <3>5. Cardinality(Low \cup High) = Cardinality(Low) + Cardinality(High) - Cardinality(Low \cap High)
        BY <3>3, FS_Union
      <3> QED
        <4>1. Cardinality(V) = Cardinality(Low) + Cardinality(High) /\ Cardinality(V) \in Nat
          BY <3>3, <3>4, <3>5, <3>6
        <4> QED
          BY <4>1 DEF Low, High, V
    <2> QED
      BY <2>1, <2>2, <2>5, <2>6, <2>7 DEF A
  <1>5. \A e \in Es : /\ E[e] \in Nat /\ Cardinality(Within(had, e[1], e[2])) <= E[e]
                     /\ E[e] <= Cardinality(Within(C, e[1], e[2]))
    BY DEF Brackets, Es
  <1>6. n \in Nat /\ n <= Cardinality(Within(C, w[1], a)) + Cardinality(Within(C, b, w[2]))
    <2> DEFINE A == [e \in Es |-> Within(C, e[1], e[2])]
    <2>1. /\ \A e \in Es : IsFiniteSet(A[e]) /\ A[e] = Within(C, e[1], e[2])
          /\ \A d, e \in Es : d # e => A[d] \cap A[e] = {}
          /\ Cardinality(UNION {A[e] : e \in Es})
               = Cardinality(Within(C, w[1], a)) + Cardinality(Within(C, b, w[2]))
      BY <1>4
    <2> HIDE DEF A
    <2>2. \A e \in Es : E[e] <= Cardinality(A[e])
      BY <1>5, <2>1
    <2>3. /\ SumFunctionOnSet(E, Es) \in Nat
          /\ SumFunctionOnSet(E, Es) <= Cardinality(UNION {A[e] : e \in Es})
      BY <1>3, <1>5, <2>1, <2>2, SumAtMost
    <2> QED
      BY <2>1, <2>3 DEF Es
  <1>7. Cardinality(Within(had, w[1], a)) + Cardinality(Within(had, b, w[2])) <= n
    <2> DEFINE A == [e \in Es |-> Within(had, e[1], e[2])]
    <2>1. /\ \A e \in Es : IsFiniteSet(A[e]) /\ A[e] = Within(had, e[1], e[2])
          /\ \A d, e \in Es : d # e => A[d] \cap A[e] = {}
          /\ Cardinality(UNION {A[e] : e \in Es})
               = Cardinality(Within(had, w[1], a)) + Cardinality(Within(had, b, w[2]))
      BY <1>4
    <2> HIDE DEF A
    <2>2. \A e \in Es : Cardinality(A[e]) <= E[e]
      BY <1>5, <2>1
    <2>3. Cardinality(UNION {A[e] : e \in Es}) <= SumFunctionOnSet(E, Es)
      BY <1>3, <1>5, <2>1, <2>2, SumAtLeast
    <2> QED
      BY <2>1, <2>3 DEF Es
  <1> QED
    BY <1>6, <1>7 DEF a, b

\* _righe: the sum of whole hours and edges lies where a scan would.
LEMMA WindowSum ==
  ASSUME NEW C, IsFiniteSet(C), \A c \in C : c.ts \in Nat, NEW had, had \subseteq C,
         NEW w, IsWindow(w), w[1] < w[2], Ceil(w[1]) < Floor(w[2]),
         NEW E, \A e \in Partial(w) : Brackets(C, had, e, E[e]),
         NEW T, NEW S,
         \A h \in S : /\ h \in Int /\ Floor(h) = h /\ Ceil(w[1]) <= h /\ h < Floor(w[2])
                      /\ T[h] \in Nat
                      /\ Cardinality(HourOfCycles(had, h)) <= T[h]
                      /\ T[h] <= Cardinality(HourOfCycles(C, h)),
         \A c \in had : Ceil(w[1]) <= c.ts /\ c.ts < Floor(w[2]) => Floor(c.ts) \in S
  PROVE  Brackets(C, had, w, SumFunctionOnSet(T, S) + SumFunctionOnSet(E, Partial(w)))
  <1> DEFINE a == Ceil(w[1])
             b == Floor(w[2])
             n == SumFunctionOnSet(T, S)
             m == SumFunctionOnSet(E, Partial(w))
             Y == Within(had, a, b)
  <1>1. /\ w[1] \in Int /\ w[2] \in Int /\ a \in Int /\ b \in Int
        /\ w[1] <= a /\ a < b /\ b <= w[2] /\ Floor(b) = b
    BY CeilIs, FloorBounds DEF IsWindow
  <1>2. IsFiniteSet(had) /\ \A c \in had : c.ts \in Nat
    BY FS_Subset
  <1>3. /\ m \in Nat
        /\ Cardinality(Within(had, w[1], a)) + Cardinality(Within(had, b, w[2])) <= m
        /\ m <= Cardinality(Within(C, w[1], a)) + Cardinality(Within(C, b, w[2]))
    BY EdgesSum
  <1>4. IsFiniteSet(S)
    <2>1. \A h \in S : h \in Int /\ a <= h /\ h <= b
      BY <1>1
    <2> HIDE DEF a, b
    <2> QED
      BY <1>1, <2>1, FiniteHours
  <1>5. Y \subseteq C /\ \A c \in Y : Floor(c.ts) \in S
    BY DEF Within
  <1>6. \A h \in S : Cardinality(HourOfCycles(Y, h)) <= T[h]
    <2> SUFFICES ASSUME NEW h \in S
                 PROVE  Cardinality(HourOfCycles(Y, h)) <= T[h]
      OBVIOUS
    <2>1. HourOfCycles(Y, h) \subseteq HourOfCycles(had, h) /\ HourOfCycles(had, h) \subseteq had
      BY DEF HourOfCycles, Within
    <2>2. IsFiniteSet(HourOfCycles(had, h))
      BY <1>2, <2>1, FS_Subset
    <2>3. /\ Cardinality(HourOfCycles(Y, h)) <= Cardinality(HourOfCycles(had, h))
          /\ Cardinality(HourOfCycles(Y, h)) \in Nat /\ Cardinality(HourOfCycles(had, h)) \in Nat
      BY <2>1, <2>2, Fewer
    <2> QED
      BY <2>3
  <1> HIDE DEF a, b, Y
  <1>7. n \in Nat
    BY <1>4, HoursSum
  <1>8. n <= Cardinality({c \in C : Floor(c.ts) \in S})
    <2>1. \A h \in S : T[h] <= Cardinality(HourOfCycles(C, h))
      OBVIOUS
    <2> QED
      BY <1>4, <2>1, HoursSum
  <1>9. Cardinality(Y) <= n
    BY <1>4, <1>5, <1>6, HoursSum
  <1>10. n <= Cardinality(Within(C, a, b))
    <2>1. {c \in C : Floor(c.ts) \in S} \subseteq Within(C, a, b)
      <3> SUFFICES ASSUME NEW c \in C, Floor(c.ts) \in S
                   PROVE  a <= c.ts /\ c.ts < b
        BY DEF Within
      <3>1. Floor(c.ts) \in Int /\ Floor(c.ts) <= c.ts /\ c.ts < Floor(c.ts) + PerHour
            /\ Floor(Floor(c.ts)) = Floor(c.ts)
        BY FloorBounds
      <3>2. a <= Floor(c.ts) /\ Floor(c.ts) < b
        BY DEF a, b
      <3>3. Floor(c.ts) + PerHour <= b
        BY <1>1, <3>1, <3>2, HourBefore
      <3> QED
        BY <1>1, <3>1, <3>2, <3>3, PerHourIs
    <2>2. Within(C, a, b) \subseteq C
      BY DEF Within
    <2>3. IsFiniteSet(Within(C, a, b))
      BY <2>2, FS_Subset
    <2>4. /\ Cardinality({c \in C : Floor(c.ts) \in S}) <= Cardinality(Within(C, a, b))
          /\ Cardinality({c \in C : Floor(c.ts) \in S}) \in Nat
          /\ Cardinality(Within(C, a, b)) \in Nat
      BY <2>1, <2>3, Fewer
    <2> QED
      BY <1>7, <1>8, <2>4
  <1>11. ASSUME NEW X, IsFiniteSet(X), \A c \in X : c.ts \in Nat
         PROVE  /\ Cardinality(Within(X, w[1], w[2]))
                     = Cardinality(Within(X, w[1], a)) + Cardinality(Within(X, a, b))
                         + Cardinality(Within(X, b, w[2]))
                /\ Cardinality(Within(X, w[1], a)) \in Nat
                /\ Cardinality(Within(X, a, b)) \in Nat
                /\ Cardinality(Within(X, b, w[2])) \in Nat
    <2>3. /\ a <= w[2] /\ w[2] \in Int /\ w[1] <= a /\ w[1] \in Int
          /\ a \in Int /\ b \in Int /\ a <= b /\ b <= w[2]
      BY <1>1
    <2>1. /\ Cardinality(Within(X, w[1], a)) \in Nat /\ Cardinality(Within(X, a, w[2])) \in Nat
          /\ Cardinality(Within(X, w[1], w[2]))
               = Cardinality(Within(X, w[1], a)) + Cardinality(Within(X, a, w[2]))
      BY <1>1, <1>11, <2>3, Halves
    <2>2. /\ Cardinality(Within(X, a, b)) \in Nat /\ Cardinality(Within(X, b, w[2])) \in Nat
          /\ Cardinality(Within(X, a, w[2]))
               = Cardinality(Within(X, a, b)) + Cardinality(Within(X, b, w[2]))
      BY <1>1, <1>11, <2>3, Halves
    <2> QED
      BY <2>1, <2>2
  <1> HIDE DEF n, m
  <1>12. n + m \in Nat /\ Cardinality(Within(had, w[1], w[2])) <= n + m
    BY <1>2, <1>3, <1>7, <1>9, <1>11 DEF Y
  <1>13. n + m <= Cardinality(Within(C, w[1], w[2]))
    BY <1>3, <1>7, <1>10, <1>11
  <1> QED
    BY <1>12, <1>13 DEF Brackets, n, m

-----------------------------------------------------------------------------
(* An OEE request, step by step                                               *)

IsReq(r) ==
  DOMAIN r = {"pc", "at", "last", "print", "keep", "wins", "cov", "left", "right",
              "buckets", "edges", "done", "had", "spoilt", "touched", "mixed"}

WantedBy(r) == UNION {Partial(w) : w \in r.wins}
Knows(r, from, to) ==
  /\ from >= r.cov[1] \/ r.left
  /\ to <= r.cov[2] + PerHour \/ from >= r.right
DerivedBy(r) ==
  {e \in WantedBy(r) : /\ Floor(e[1]) < e[1] /\ e[2] = Floor(e[1]) + PerHour
                       /\ <<Floor(e[1]), e[1]>> \in WantedBy(r)
                       /\ Knows(r, Floor(e[1]), e[2])}
ExcusedBy(C, r, w) ==
  \/ \E h \in r.spoilt : Floor(w[1]) <= h /\ h < w[2]
  \/ Partial(w) \cap r.mixed # {}
  \/ Ceil(w[1]) = r.right /\ r.right \in {c.ts : c \in C}

\* The coverage is known; and what lies beyond it.
Sought(r) == r.cov # <<>> /\ r.pc # "extent"
Inside(r, h) == r.cov[1] <= h /\ h <= r.cov[2]

HadOk(C, r) ==
  /\ r.had \subseteq C /\ (\A c \in r.had : c.ts <= r.last) /\ r.last \in Int
  /\ ~r.touched => \A c \in C : c.ts <= r.last => c \in r.had
WinsOk(r) ==
  /\ r.wins # {} /\ \A w \in r.wins : IsWindow(w) /\ w[1] < w[2] /\ w[2] <= r.at
  /\ \E b \in Int : \A w \in r.wins : b <= w[1]
\* Between two rows.
CovOk(R, r) ==
  /\ r.pc \in {"extent", "buckets", "edges", "hours", "again"} => r.cov # <<>>
  /\ r.cov # <<>> => r.cov[1] \in DOMAIN R /\ r.cov[2] \in DOMAIN R
\* What had come lies within, or the hour is not taken for empty.
ExtentOk(r) ==
  Sought(r) => /\ r.right \in Int /\ Floor(r.right) = r.right /\ r.left \in BOOLEAN
               /\ \A c \in r.had : (r.left => r.cov[1] <= c.ts) /\ c.ts <= r.right
\* The buckets count their hours as they were during the request.
BucketsOk(C, r) ==
  Sought(r) /\ r.pc # "buckets" =>
    /\ \A h \in DOMAIN r.buckets :
         /\ h \in Nat /\ Floor(h) = h /\ r.buckets[h] \in Nat
         /\ r.buckets[h] <= Cardinality(HourOfCycles(C, h))
         /\ h \notin r.spoilt => Cardinality(HourOfCycles(r.had, h)) <= r.buckets[h]
    /\ \A w \in r.wins, c \in r.had :
         LET h == Floor(c.ts)
         IN Ceil(w[1]) <= h /\ h < Floor(w[2]) /\ Inside(r, h) =>
              h \in DOMAIN r.buckets \cup r.spoilt
\* The edges count theirs, but for the tails by difference that need an excuse.
EdgesOk(C, r) ==
  r.pc \in {"hours", "again"} \/ (Sought(r) /\ r.pc = "answer") =>
    /\ WantedBy(r) \ DerivedBy(r) \subseteq DOMAIN r.edges
    /\ DOMAIN r.edges \subseteq WantedBy(r)
    /\ r.pc = "hours" => DOMAIN r.edges = WantedBy(r) \ DerivedBy(r)
    /\ r.pc = "answer" => DOMAIN r.edges = WantedBy(r)
    /\ \A e \in DOMAIN r.edges :
         \/ r.pc # "hours" /\ (e \in r.mixed \/ Floor(e[1]) \in r.spoilt)
         \/ Brackets(C, r.had, e, r.edges[e])
\* The heads are exact as long as no cycle comes late.
HeadsOk(C, r) ==
  r.pc = "hours" =>
    \A e \in DOMAIN r.edges :
      Inside(r, Floor(e[1])) /\ Floor(e[1]) \notin r.spoilt /\ e[2] <= Floor(e[1]) + PerHour =>
        r.edges[e] = Cardinality(Within(C, e[1], e[2]))
DoneOk(C, r) ==
  /\ DOMAIN r.done \subseteq r.wins
  /\ r.pc = "answer" /\ r.cov = <<>> => DOMAIN r.done = r.wins
  /\ \A w \in DOMAIN r.done : ExcusedBy(C, r, w) \/ Brackets(C, r.had, w, r.done[w])

ReqOk(C, R, B, r) ==
  r # Idle =>
    /\ IsReq(r) /\ r.at \in Int /\ r.touched \in BOOLEAN /\ B \subseteq r.spoilt
    /\ r.pc \in {"memory", "plan", "coverage", "extent", "buckets", "edges", "hours", "again",
                 "answer"}
    /\ r.pc \in {"memory", "plan", "coverage"} => r.cov = <<>>
    /\ r.pc # "answer" => DOMAIN r.done = {}
    /\ HadOk(C, r) /\ WinsOk(r) /\ CovOk(R, r) /\ ExtentOk(r) /\ BucketsOk(C, r)
    /\ EdgesOk(C, r) /\ HeadsOk(C, r) /\ DoneOk(C, r)
ReqInv == ReqOk(cycles, rows, behind, req)

\* What an entry of the memory answers is right for the cycles up to its last.
Upto(C, t) == {c \in C : c.ts <= t}
EntryOk(C, e) ==
  /\ DOMAIN e = {"at", "last", "print", "done", "touched", "excused"} /\ e.touched \in BOOLEAN
  /\ \A w \in DOMAIN e.done :
       e.touched \/ e.excused[w] \/ Brackets(C, Upto(C, e.last), w, e.done[w])
MemoInv == \A e \in memo : EntryOk(cycles, e)

Answered(a) == a.excused \/ (a.least <= a.n /\ a.n <= a.most)
OeeInv == BehindInv /\ ReqInv /\ MemoInv /\ \A a \in answers : Answered(a)

LEMMA ReqIs ==
  /\ Wanted = WantedBy(req) /\ Derived = DerivedBy(req)
  /\ \A from, to : Authoritative(from, to) <=> Knows(req, from, to)
  /\ \A w : Excused(w) <=> ExcusedBy(cycles, req, w)
  BY DEF Wanted, WantedBy, Derived, DerivedBy, Authoritative, Knows, Excused, ExcusedBy, Instants

\* What a request was asked for and has read of the extent of the rows stays.
SameReq(r, q) ==
  /\ IsReq(q) /\ q.at = r.at /\ q.had = r.had /\ q.last = r.last /\ q.wins = r.wins
  /\ q.cov = r.cov /\ q.left = r.left /\ q.right = r.right

LEMMA SameWanted ==
  ASSUME NEW r, NEW q, SameReq(r, q)
  PROVE  /\ WantedBy(q) = WantedBy(r) /\ DerivedBy(q) = DerivedBy(r)
         /\ \A h : Inside(q, h) <=> Inside(r, h)
         /\ \A from, to : Knows(q, from, to) <=> Knows(r, from, to)
         /\ WinsOk(r) => WinsOk(q)
  BY DEF SameReq, WantedBy, DerivedBy, Knows, Inside, WinsOk

\* More cycles and more hours spoilt: what was read stays right.
LEMMA ReqGrows ==
  ASSUME NEW C, NEW D, C \subseteq D, IsFiniteSet(D), NEW r, NEW q, SameReq(r, q),
         q.pc = r.pc, q.buckets = r.buckets, q.edges = r.edges, q.done = r.done,
         q.mixed = r.mixed, r.spoilt \subseteq q.spoilt
  PROVE  /\ BucketsOk(C, r) => BucketsOk(D, q)
         /\ EdgesOk(C, r) => EdgesOk(D, q)
         /\ DoneOk(C, r) => DoneOk(D, q)
         /\ ExtentOk(r) => ExtentOk(q)
  <1>1. /\ q.had = r.had /\ q.wins = r.wins /\ q.cov = r.cov /\ q.right = r.right
        /\ q.left = r.left
    BY DEF SameReq
  <1>2. Sought(q) <=> Sought(r)
    BY <1>1 DEF Sought
  <1>3. \A h : Inside(q, h) <=> Inside(r, h)
    BY SameWanted
  <1>4. \A h : /\ Cardinality(HourOfCycles(C, h)) \in Nat
               /\ Cardinality(HourOfCycles(D, h)) \in Nat
               /\ Cardinality(HourOfCycles(C, h)) <= Cardinality(HourOfCycles(D, h))
    <2> SUFFICES ASSUME NEW h
                 PROVE  /\ Cardinality(HourOfCycles(C, h)) \in Nat
                        /\ Cardinality(HourOfCycles(D, h)) \in Nat
                        /\ Cardinality(HourOfCycles(C, h)) <= Cardinality(HourOfCycles(D, h))
      OBVIOUS
    <2>1. HourOfCycles(C, h) \subseteq HourOfCycles(D, h) /\ HourOfCycles(D, h) \subseteq D
      BY DEF HourOfCycles
    <2>2. IsFiniteSet(HourOfCycles(D, h))
      BY <2>1, Fewer
    <2> QED
      BY <2>1, <2>2, Fewer
  <1>5. \A w, n : Brackets(C, r.had, w, n) => Brackets(D, r.had, w, n)
    BY BracketsGrow
  <1>6. \A w : ExcusedBy(C, r, w) => ExcusedBy(D, q, w)
    BY <1>1 DEF ExcusedBy
  <1>7. BucketsOk(C, r) => BucketsOk(D, q)
    <2> SUFFICES ASSUME BucketsOk(C, r), Sought(r), r.pc # "buckets"
                 PROVE  /\ \A h \in DOMAIN q.buckets :
                             /\ h \in Nat /\ Floor(h) = h /\ q.buckets[h] \in Nat
                             /\ q.buckets[h] <= Cardinality(HourOfCycles(D, h))
                             /\ h \notin q.spoilt =>
                                  Cardinality(HourOfCycles(q.had, h)) <= q.buckets[h]
                        /\ \A w \in q.wins, c \in q.had :
                             LET h == Floor(c.ts)
                             IN Ceil(w[1]) <= h /\ h < Floor(w[2]) /\ Inside(q, h) =>
                                  h \in DOMAIN q.buckets \cup q.spoilt
      BY <1>2 DEF BucketsOk
    <2>1. /\ \A h \in DOMAIN r.buckets :
               /\ h \in Nat /\ Floor(h) = h /\ r.buckets[h] \in Nat
               /\ r.buckets[h] <= Cardinality(HourOfCycles(C, h))
               /\ h \notin r.spoilt => Cardinality(HourOfCycles(r.had, h)) <= r.buckets[h]
          /\ \A w \in r.wins, c \in r.had :
               LET h == Floor(c.ts)
               IN Ceil(w[1]) <= h /\ h < Floor(w[2]) /\ Inside(r, h) =>
                    h \in DOMAIN r.buckets \cup r.spoilt
      BY DEF BucketsOk
    <2>2. \A h \in DOMAIN q.buckets :
             /\ h \in Nat /\ Floor(h) = h /\ q.buckets[h] \in Nat
             /\ q.buckets[h] <= Cardinality(HourOfCycles(D, h))
             /\ h \notin q.spoilt => Cardinality(HourOfCycles(q.had, h)) <= q.buckets[h]
      BY <1>1, <1>4, <2>1
    <2> QED
      BY <1>1, <1>3, <2>1, <2>2
  <1>8. EdgesOk(C, r) => EdgesOk(D, q)
    <2>1. WantedBy(q) = WantedBy(r) /\ DerivedBy(q) = DerivedBy(r)
      BY SameWanted
    <2> QED
      BY <1>1, <1>2, <1>5, <2>1 DEF EdgesOk
  <1>9. DoneOk(C, r) => DoneOk(D, q)
    BY <1>1, <1>5, <1>6 DEF DoneOk
  <1>10. ExtentOk(r) => ExtentOk(q)
    BY <1>1, <1>2 DEF ExtentOk
  <1> QED
    BY <1>7, <1>8, <1>9, <1>10

LEMMA EntryGrows ==
  ASSUME NEW C, NEW c, IsFiniteSet(C \cup {c}), NEW e, EntryOk(C, e)
  PROVE  EntryOk(C \cup {c}, [e EXCEPT !.touched = @ \/ c.ts <= e.last])
  <1> DEFINE D == C \cup {c}
             f == [e EXCEPT !.touched = @ \/ c.ts <= e.last]
  <1>1. /\ DOMAIN f = {"at", "last", "print", "done", "touched", "excused"}
        /\ f.last = e.last /\ f.done = e.done /\ f.excused = e.excused
        /\ f.touched = (e.touched \/ c.ts <= e.last)
    BY DEF EntryOk
  <1> HIDE DEF f
  <1>2. ASSUME NEW w \in DOMAIN f.done, ~f.touched, ~f.excused[w]
        PROVE  Brackets(D, Upto(D, f.last), w, f.done[w])
    <2>1. ~e.touched /\ ~(c.ts <= e.last) /\ ~e.excused[w] /\ w \in DOMAIN e.done
      BY <1>1, <1>2
    <2>2. Brackets(C, Upto(C, e.last), w, e.done[w])
      BY <2>1 DEF EntryOk
    <2>3. Upto(D, e.last) = Upto(C, e.last)
      BY <2>1 DEF Upto
    <2>4. Brackets(D, Upto(C, e.last), w, e.done[w])
      BY <2>2, BracketsGrow
    <2> QED
      BY <1>1, <2>3, <2>4
  <1>3. f.touched \in BOOLEAN
    BY <1>1
  <1>4. EntryOk(D, f)
    BY <1>1, <1>2, <1>3 DEF EntryOk
  <1> QED
    BY <1>4 DEF f

\* A cycle that comes during a request.
LEMMA ReqArrive ==
  ASSUME CoreInv, BehindInv, ReqInv, MemoInv, NEW c \in scope.cycles, Arrive(c)
  PROVE  ReqInv' /\ MemoInv'
  <1> DEFINE D == cycles \cup {c}
  <1>1. CyclesOk(scope, cycles) /\ IsFiniteSet(D) /\ cycles \subseteq D
    BY FS_AddElement DEF CoreInv, CyclesOk
  <1>2. /\ cycles' = D /\ rows' = rows
        /\ memo' = {[e EXCEPT !.touched = @ \/ c.ts <= e.last] : e \in memo}
        /\ req' = IF req = Idle THEN req
                  ELSE [req EXCEPT !.touched = @ \/ c.ts <= req.last,
                                   !.spoilt = @ \cup (behind' \ behind)]
    BY DEF Arrive
  <1>3. behind \subseteq behind' /\ (Between(rows, Floor(c.ts)) => Floor(c.ts) \in behind')
    BY ArriveBehind
  <1> HIDE DEF D
  <1>4. MemoInv'
    <2> SUFFICES ASSUME NEW f \in memo'
                 PROVE  EntryOk(D, f)
      BY <1>2 DEF MemoInv
    <2>1. PICK e \in memo : f = [e EXCEPT !.touched = @ \/ c.ts <= e.last]
      BY <1>2
    <2>2. EntryOk(cycles, e)
      BY DEF MemoInv
    <2> QED
      BY <1>1, <2>1, <2>2, EntryGrows DEF D
  <1>5. ASSUME req # Idle
        PROVE  ReqOk(D, rows, behind', req')
    <2> DEFINE r == req
               q == req'
    <2>1. /\ IsReq(r) /\ r.at \in Int /\ r.touched \in BOOLEAN /\ behind \subseteq r.spoilt
          /\ r.pc \in {"memory", "plan", "coverage", "extent", "buckets", "edges", "hours",
                       "again", "answer"}
          /\ r.pc \in {"memory", "plan", "coverage"} => r.cov = <<>>
          /\ r.pc # "answer" => DOMAIN r.done = {}
          /\ HadOk(cycles, r) /\ WinsOk(r) /\ CovOk(rows, r) /\ ExtentOk(r)
          /\ BucketsOk(cycles, r) /\ EdgesOk(cycles, r) /\ HeadsOk(cycles, r)
          /\ DoneOk(cycles, r)
      BY <1>5 DEF ReqInv, ReqOk
    <2>2. q = [r EXCEPT !.touched = @ \/ c.ts <= req.last, !.spoilt = @ \cup (behind' \ behind)]
      BY <1>2, <1>5
    <2> HIDE DEF r, q
    <2>3. /\ SameReq(r, q) /\ q.pc = r.pc /\ q.buckets = r.buckets /\ q.edges = r.edges
          /\ q.done = r.done /\ q.mixed = r.mixed
          /\ q.touched = (r.touched \/ c.ts <= r.last)
          /\ q.spoilt = r.spoilt \cup (behind' \ behind)
      BY <2>1, <2>2 DEF SameReq, IsReq, r
    <2>4. /\ IsReq(q) /\ q.at = r.at /\ q.had = r.had /\ q.last = r.last /\ q.cov = r.cov
      BY <2>3 DEF SameReq
    <2>5. q.touched \in BOOLEAN /\ behind' \subseteq q.spoilt /\ r.spoilt \subseteq q.spoilt
      BY <2>1, <2>3
    <2>6. HadOk(D, q)
      <3>1. \A x \in D : x \in cycles \/ x = c
        BY DEF D
      <3> QED
        BY <1>1, <2>1, <2>3, <2>4, <3>1 DEF HadOk
    <2>7. WinsOk(q)
      BY <2>1, <2>3, SameWanted
    <2>8. CovOk(rows, q)
      BY <2>1, <2>3, <2>4 DEF CovOk
    <2>9. ExtentOk(q) /\ BucketsOk(D, q) /\ EdgesOk(D, q) /\ DoneOk(D, q)
      BY <1>1, <2>1, <2>3, <2>5, ReqGrows
    <2>10. HeadsOk(D, q)
      <3> SUFFICES ASSUME q.pc = "hours", NEW e \in DOMAIN q.edges,
                          Inside(q, Floor(e[1])), Floor(e[1]) \notin q.spoilt,
                          e[2] <= Floor(e[1]) + PerHour
                   PROVE  q.edges[e] = Cardinality(Within(D, e[1], e[2]))
        BY DEF HeadsOk
      <3>1. /\ r.pc = "hours" /\ e \in DOMAIN r.edges /\ Inside(r, Floor(e[1]))
            /\ Floor(e[1]) \notin r.spoilt
        BY <2>3, <2>5, SameWanted
      <3>2. r.edges[e] = Cardinality(Within(cycles, e[1], e[2]))
        BY <2>1, <3>1 DEF HeadsOk
      <3>3. IsWindow(e)
        <4>1. e \in WantedBy(r)
          BY <2>1, <3>1 DEF EdgesOk
        <4>2. PICK w \in r.wins : e \in Partial(w)
          BY <4>1 DEF WantedBy
        <4>3. IsWindow(w) /\ w[1] < w[2]
          BY <2>1 DEF WinsOk
        <4> QED
          BY <4>2, <4>3, PartialIs
      <3>4. ~(e[1] <= c.ts /\ c.ts < e[2])
        <4> SUFFICES ASSUME e[1] <= c.ts, c.ts < e[2] PROVE FALSE
          OBVIOUS
        <4>1. c.ts \in Int /\ e[1] \in Int /\ e[2] \in Int
          BY <1>1, <3>3, CycleTimes DEF IsWindow
        <4>2. /\ Floor(e[1]) \in Int /\ Floor(e[1]) <= e[1]
              /\ Floor(Floor(e[1])) = Floor(e[1])
          BY <4>1, FloorBounds
        <4>3. Floor(e[1]) <= c.ts /\ c.ts < Floor(e[1]) + PerHour
          BY <4>1, <4>2, PerHourIs
        <4>4. Floor(c.ts) = Floor(e[1])
          BY <4>1, <4>2, <4>3, HourOf
        <4>5. r.cov # <<>>
          BY <2>1, <3>1 DEF CovOk
        <4>6. r.cov[1] \in DOMAIN rows /\ r.cov[2] \in DOMAIN rows
          BY <2>1, <4>5 DEF CovOk
        <4>7. Between(rows, Floor(c.ts))
          BY <3>1, <4>4, <4>6 DEF Between, Inside
        <4> QED
          BY <1>3, <2>5, <4>4, <4>7
      <3>5. Within(D, e[1], e[2]) = Within(cycles, e[1], e[2])
        BY <3>4 DEF Within, D
      <3> QED
        BY <2>3, <3>2, <3>5
    <2>11. ReqOk(D, rows, behind', q)
      BY <2>1, <2>3, <2>4, <2>5, <2>6, <2>7, <2>8, <2>9, <2>10 DEF ReqOk
    <2> QED
      BY <2>11 DEF q
  <1>6. req = Idle => req' = Idle
    BY <1>2
  <1> QED
    BY <1>2, <1>4, <1>5, <1>6 DEF ReqInv, ReqOk

\* A fill beside a request.
LEMMA ReqFill ==
  ASSUME CoreInv, BehindInv, ReqInv, MemoInv,
         \/ \E since_last \in BOOLEAN : FillBegin(since_last)
         \/ FillPiece \/ FillCommit \/ FillAbort
  PROVE  ReqInv' /\ MemoInv' /\ req' = req /\ answers' = answers
  <1>1. behind' \subseteq behind /\ DOMAIN rows \subseteq DOMAIN rows' /\ cycles' = cycles
    BY FillBehind
  <1>2. req' = req /\ memo' = memo /\ answers' = answers
    BY DEF FillBegin, FillPiece, FillCommit, FillAbort
  <1>3. CovOk(rows, req) => CovOk(rows', req)
    BY <1>1 DEF CovOk
  <1>4. ReqOk(cycles, rows, behind, req) => ReqOk(cycles, rows', behind', req)
    BY <1>1, <1>3 DEF ReqOk
  <1> QED
    BY <1>1, <1>2, <1>4 DEF ReqInv, MemoInv

-----------------------------------------------------------------------------
(* Its steps                                                                  *)

LEMMA MaxTwo ==
  ASSUME NEW a \in Int, NEW b \in Int
  PROVE  Max({a, b}) = IF a <= b THEN b ELSE a
  <1> DEFINE m == IF a <= b THEN b ELSE a
             S == {a, b}
  <1>1. S \in SUBSET Int /\ m \in S /\ \A x \in S : x <= m
    OBVIOUS
  <1> HIDE DEF m, S
  <1>2. Max(S) = m
    BY <1>1, MaxOf
  <1> QED
    BY <1>2 DEF S, m

LEMMA MinTwo ==
  ASSUME NEW a \in Int, NEW b \in Int
  PROVE  Min({a, b}) = IF a <= b THEN a ELSE b
  <1> DEFINE m == IF a <= b THEN a ELSE b
             S == {a, b}
  <1>1. S \in SUBSET Int /\ m \in S /\ \A x \in S : m <= x
    OBVIOUS
  <1> HIDE DEF m, S
  <1>2. Min(S) = m
    BY <1>1, MinOf
  <1> QED
    BY <1>2 DEF S, m

LEMMA SizesAre ==
  /\ Width \in Nat /\ Width > 0 /\ SeriesStep \in Nat /\ SeriesStep > 0
  /\ MaxPoints \in Nat /\ MaxPoints > 0 /\ SeriesSpan \in Nat
  BY RollupAssumption

LEMMA WindowsAre ==
  ASSUME NEW ats, ats # {}, \A at \in ats : at \in Int, NEW lo \in Int, NEW hi \in Int,
         \A at \in ats : lo <= at /\ at <= hi
  PROVE  /\ Windows(ats) # {}
         /\ \A w \in Windows(ats) : IsWindow(w) /\ w[1] < w[2] /\ w[2] <= hi
         /\ \E b \in Int : \A w \in Windows(ats) : b <= w[1]
  <1>1. Width \in Nat /\ Width > 0
    BY SizesAre
  <1>2. ASSUME NEW w \in Windows(ats)
        PROVE  IsWindow(w) /\ w[1] < w[2] /\ w[2] <= hi /\ lo - 2 * Width <= w[1]
    <2>1. PICK at \in ats : w = <<at - Width, at>> \/ w = <<at - 2 * Width, at - Width>>
      BY DEF Windows
    <2>2. at \in Int /\ lo <= at /\ at <= hi
      BY <2>1
    <2>3. CASE w = <<at - Width, at>>
      <3>1. w[1] = at - Width /\ w[2] = at
        BY <2>3
      <3> QED
        BY <1>1, <2>2, <2>3, <3>1 DEF IsWindow
    <2>4. CASE w = <<at - 2 * Width, at - Width>>
      <3>1. w[1] = at - 2 * Width /\ w[2] = at - Width
        BY <2>4
      <3> QED
        BY <1>1, <2>2, <2>4, <3>1 DEF IsWindow
    <2> QED
      BY <2>1, <2>3, <2>4
  <1>3. Windows(ats) # {}
    <2>1. PICK at \in ats : TRUE
      OBVIOUS
    <2>2. <<at - Width, at>> \in Windows(ats)
      BY DEF Windows
    <2> QED
      BY <2>2
  <1>4. lo - 2 * Width \in Int
    BY <1>1
  <1> QED
    BY <1>2, <1>3, <1>4

LEMMA NewestIn ==
  ASSUME CoreInv, cycles # {}
  PROVE  /\ Max(Instants) \in Nat /\ Max(Instants) \in Instants
         /\ \A c \in cycles : c.ts <= Max(Instants)
  <1>1. PICK t : t \in Instants /\ \A c \in cycles : c.ts <= t
    BY DEF CoreInv, HasNewest, NewestIs, Instants
  <1>2. \A c \in cycles : c.ts \in Nat
    BY CycleTimes DEF CoreInv, CyclesOk
  <1>3. Instants \in SUBSET Int /\ t \in Nat /\ \A x \in Instants : x <= t
    BY <1>1, <1>2 DEF Instants
  <1>4. Max(Instants) = t
    BY <1>1, <1>3, MaxOf
  <1> QED
    BY <1>1, <1>3, <1>4

LEMMA NewestAll ==
  ASSUME CoreInv
  PROVE  LET t == IF cycles = {} THEN -1 ELSE Max(Instants)
         IN t \in Int /\ \A c \in cycles : c.ts <= t
  <1>1. CASE cycles = {}
    BY <1>1
  <1>2. CASE cycles # {}
    <2>1. Max(Instants) \in Nat /\ \A c \in cycles : c.ts <= Max(Instants)
      BY <1>2, NewestIn
    <2> QED
      BY <1>2, <2>1
  <1> QED
    BY <1>1, <1>2

LEMMA ReqAsked ==
  ASSUME CoreInv, NEW at \in scope.ats, AskOee(at) \/ AskSeries(at)
  PROVE  ReqInv' /\ BehindInv' = BehindInv /\ memo' = memo /\ cycles' = cycles /\ answers' = {}
  <1>1. PICK pc \in {"coverage", "plan", "memory"}, keep \in BOOLEAN : Request(at, pc, keep)
    BY DEF AskOee, AskSeries
  <1> DEFINE last == IF cycles = {} THEN -1 ELSE Max(Instants)
             q == [pc |-> pc, at |-> at, last |-> last,
                   print |-> <<>>, keep |-> keep, wins |-> Windows({at}),
                   cov |-> <<>>, left |-> FALSE, right |-> 0,
                   buckets |-> <<>>, edges |-> <<>>, done |-> <<>>,
                   had |-> cycles, spoilt |-> behind, touched |-> FALSE, mixed |-> {}]
  <1>2. /\ req' = q /\ cycles' = cycles /\ rows' = rows /\ behind' = behind /\ memo' = memo
        /\ fill' = fill /\ answers' = {}
    BY <1>1 DEF Request
  <1>3. at \in Int
    BY RollupAssumption DEF CoreInv, CyclesOk
  <1>4. last \in Int /\ \A c \in cycles : c.ts <= last
    BY NewestAll
  <1> HIDE DEF last
  <1>5. /\ IsReq(q) /\ q.pc = pc /\ q.at = at /\ q.last = last /\ q.wins = Windows({at})
        /\ q.cov = <<>> /\ q.done = <<>> /\ q.had = cycles /\ q.spoilt = behind
        /\ q.touched = FALSE
    BY DEF IsReq
  <1> HIDE DEF q
  <1>6. WinsOk(q)
    <2> DEFINE ats == {at}
    <2>1. ats # {} /\ \A x \in ats : x \in Int /\ at <= x /\ x <= at
      BY <1>3
    <2>2. q.wins = Windows(ats)
      BY <1>5
    <2> HIDE DEF ats
    <2>3. \A x \in ats : x \in Int
      BY <2>1
    <2>4. /\ Windows(ats) # {}
          /\ \A w \in Windows(ats) : IsWindow(w) /\ w[1] < w[2] /\ w[2] <= at
          /\ \E b \in Int : \A w \in Windows(ats) : b <= w[1]
      BY <1>3, <2>1, <2>3, WindowsAre
    <2> QED
      BY <1>5, <2>2, <2>4 DEF WinsOk
  <1>7. ~Sought(q) /\ DOMAIN q.done = {}
    BY <1>5 DEF Sought
  <1>8. HadOk(cycles, q)
    BY <1>4, <1>5 DEF HadOk
  <1>9. CovOk(rows, q) /\ ExtentOk(q) /\ BucketsOk(cycles, q) /\ EdgesOk(cycles, q)
        /\ HeadsOk(cycles, q) /\ DoneOk(cycles, q)
    BY <1>1, <1>5, <1>7 DEF CovOk, ExtentOk, BucketsOk, EdgesOk, HeadsOk, DoneOk
  <1>10. ReqOk(cycles, rows, behind, q)
    BY <1>1, <1>3, <1>5, <1>6, <1>7, <1>8, <1>9 DEF ReqOk
  <1> QED
    BY <1>2, <1>10 DEF ReqInv, BehindInv

\* The answer found in the memory was right, and is.
LEMMA ReqLookUp ==
  ASSUME CoreInv, ReqInv, MemoInv, LookUp
  PROVE  /\ ReqInv' /\ memo' = memo
         /\ (\A a \in answers : Answered(a)) => \A a \in answers' : Answered(a)
  <1>1. /\ req # Idle /\ req.pc = "memory" /\ cycles' = cycles /\ rows' = rows
        /\ behind' = behind /\ memo' = memo
    BY DEF LookUp
  <1>2. ReqOk(cycles, rows, behind, req) /\ IsFiniteSet(cycles)
    BY DEF ReqInv, CoreInv, CyclesOk
  <1>3. ASSUME NEW e \in memo, Key(e), Hit(e)
        PROVE  ReqInv' /\ \A a \in answers' : Answered(a)
    <2>1. req' = Idle
      BY <1>3 DEF Hit
    <2>2. ReqInv'
      BY <2>1 DEF ReqInv, ReqOk
    <2>3. ASSUME NEW a \in answers'
          PROVE  Answered(a)
      <3>1. PICK w \in DOMAIN e.done :
               a = [w |-> w, n |-> e.done[w], least |-> Tally(req.had, w[1], w[2]),
                    most |-> Direct(w[1], w[2]),
                    excused |-> e.touched \/ e.excused[w] \/ req.touched]
        BY <1>3, <2>3 DEF Hit
      <3>2. CASE e.touched \/ e.excused[w] \/ req.touched
        BY <3>1, <3>2 DEF Answered
      <3>3. CASE ~(e.touched \/ e.excused[w] \/ req.touched)
        <4>1. Brackets(cycles, Upto(cycles, e.last), w, e.done[w])
          BY <3>3 DEF MemoInv, EntryOk
        <4>2. req.had \subseteq Upto(cycles, e.last)
          BY <1>1, <1>2, <1>3 DEF Key, ReqOk, HadOk, Upto
        <4>3. /\ Within(req.had, w[1], w[2]) \subseteq Within(Upto(cycles, e.last), w[1], w[2])
              /\ Within(Upto(cycles, e.last), w[1], w[2]) \subseteq cycles
              /\ Within(cycles, w[1], w[2]) \subseteq cycles
          BY <4>2 DEF Within, Upto
        <4>4. IsFiniteSet(Within(Upto(cycles, e.last), w[1], w[2]))
          BY <1>2, <4>3, FS_Subset
        <4>5. /\ Cardinality(Within(req.had, w[1], w[2])) \in Nat
              /\ Cardinality(Within(Upto(cycles, e.last), w[1], w[2])) \in Nat
              /\ Cardinality(Within(cycles, w[1], w[2])) \in Nat
              /\ Cardinality(Within(req.had, w[1], w[2]))
                   <= Cardinality(Within(Upto(cycles, e.last), w[1], w[2]))
          BY <1>2, <4>3, <4>4, Fewer
        <4>6. /\ a.n = e.done[w] /\ a.least = Cardinality(Within(req.had, w[1], w[2]))
              /\ a.most = Cardinality(Within(cycles, w[1], w[2]))
          BY <3>1, CountsAre
        <4> QED
          BY <4>1, <4>5, <4>6 DEF Brackets, Answered
      <3> QED
        BY <3>2, <3>3
    <2> QED
      BY <2>2, <2>3
  <1>4. ASSUME req' = [req EXCEPT !.pc = "plan", !.print = Imprint], answers' = answers
        PROVE  ReqInv'
    <2> DEFINE r == req
               q == req'
    <2>1. /\ SameReq(r, q) /\ q.pc = "plan" /\ q.done = r.done /\ q.spoilt = r.spoilt
          /\ q.touched = r.touched /\ IsReq(q)
      BY <1>1, <1>2, <1>4 DEF SameReq, ReqOk, IsReq
    <2>2. /\ r.pc = "memory" /\ r.cov = <<>> /\ DOMAIN r.done = {} /\ r.at \in Int
          /\ r.touched \in BOOLEAN /\ behind \subseteq r.spoilt /\ HadOk(cycles, r) /\ WinsOk(r)
      BY <1>1, <1>2 DEF ReqOk
    <2> HIDE DEF r, q
    <2>3. /\ q.cov = <<>> /\ q.at = r.at /\ q.had = r.had /\ q.last = r.last
      BY <2>1, <2>2 DEF SameReq
    <2>4. ~Sought(q) /\ WinsOk(q)
      BY <2>1, <2>2, <2>3, SameWanted DEF Sought
    <2>5. HadOk(cycles, q)
      BY <2>1, <2>2, <2>3 DEF HadOk
    <2>6. CovOk(rows, q) /\ ExtentOk(q) /\ BucketsOk(cycles, q) /\ EdgesOk(cycles, q)
          /\ HeadsOk(cycles, q) /\ DoneOk(cycles, q)
      BY <2>1, <2>2, <2>3, <2>4
         DEF CovOk, ExtentOk, BucketsOk, EdgesOk, HeadsOk, DoneOk
    <2>7. ReqOk(cycles, rows, behind, q)
      BY <2>1, <2>2, <2>3, <2>4, <2>5, <2>6 DEF ReqOk
    <2> QED
      BY <1>1, <2>7 DEF ReqInv, q
  <1> QED
    BY <1>1, <1>3, <1>4 DEF LookUp

LEMMA DivNat ==
  ASSUME NEW a \in Nat, NEW n \in Nat, n > 0
  PROVE  a \div n \in Nat /\ (n <= a => a \div n >= 1)
  <1> DEFINE q == a \div n
  <1>1. q \in Int /\ q * n <= a /\ a < q * n + n
    BY DivBounds
  <1> HIDE DEF q
  <1>2. q >= 0
    <2> SUFFICES ASSUME q < 0 PROVE FALSE
      BY <1>1
    <2>1. q * n + n <= 0 * n
      BY <1>1, Multiples
    <2> QED
      BY <1>1, <2>1
  <1>3. n <= a => q >= 1
    <2> SUFFICES ASSUME n <= a, q < 1 PROVE FALSE
      BY <1>1
    <2>1. q * n + n <= 1 * n
      BY <1>1, Multiples
    <2> QED
      BY <1>1, <2>1
  <1> QED
    BY <1>1, <1>2, <1>3 DEF q

LEMMA Product ==
  ASSUME NEW a \in Nat, a > 0, NEW b \in Nat, b > 0
  PROVE  a * b \in Nat /\ a * b > 0
  <1>1. 0 * b + b <= a * b
    BY Multiples
  <1>2. a * b \in Int /\ 0 * b = 0
    OBVIOUS
  <1> DEFINE p == a * b
  <1> HIDE DEF p
  <1>3. p \in Int /\ 0 + b <= p
    BY <1>1, <1>2 DEF p
  <1>4. p \in Nat /\ p > 0
    BY <1>3
  <1> QED
    BY <1>4 DEF p

\* The instants of a series go back from the one asked for.
LEMMA StrideIs ==
  ASSUME NEW span \in Nat
  PROVE  Stride(span) \in Nat /\ Stride(span) > 0
  <1> DEFINE q == span \div SeriesStep
             k == (q + MaxPoints) \div MaxPoints
  <1>1. q \in Nat
    BY DivNat, SizesAre
  <1> HIDE DEF q
  <1>2. q + MaxPoints \in Nat /\ MaxPoints <= q + MaxPoints
    BY <1>1, SizesAre
  <1>3. k \in Nat /\ k >= 1
    BY <1>2, DivNat, SizesAre
  <1> HIDE DEF k
  <1>4. SeriesStep * k \in Nat /\ SeriesStep * k > 0
    BY <1>3, Product, SizesAre
  <1> QED
    BY <1>4 DEF Stride, k, q

LEMMA SeriesInstants ==
  ASSUME NEW at \in Int, NEW s \in Nat, NEW n \in Nat, n >= 1
  PROVE  LET ats == {at - k * s : k \in 0..(n - 1)}
         IN /\ ats # {}
            /\ \A x \in ats : x \in Int /\ at - n * s <= x /\ x <= at
            /\ at - n * s \in Int
  <1> DEFINE ats == {at - k * s : k \in 0..(n - 1)}
  <1>1. n * s \in Int
    OBVIOUS
  <1>2. 0 \in 0..(n - 1)
    OBVIOUS
  <1>3. at - 0 * s \in ats
    BY <1>2
  <1>4. ASSUME NEW x \in ats
        PROVE  x \in Int /\ at - n * s <= x /\ x <= at
    <2>1. PICK k \in 0..(n - 1) : x = at - k * s
      OBVIOUS
    <2>2. k \in Int /\ 0 <= k /\ k < n /\ k * s \in Int
      OBVIOUS
    <2>3. k * s + s <= n * s
      BY <2>2, Multiples
    <2>4. 0 <= k * s
      <3>1. CASE k = 0
        BY <3>1
      <3>2. CASE 0 < k
        <4>1. 0 * s + s <= k * s
          BY <2>2, <3>2, Multiples
        <4> QED
          BY <4>1
      <3> QED
        BY <2>2, <3>1, <3>2
    <2> QED
      BY <1>1, <2>1, <2>2, <2>3, <2>4
  <1> QED
    BY <1>1, <1>3, <1>4

LEMMA ReqPlan ==
  ASSUME CoreInv, ReqInv, PlanSeries
  PROVE  ReqInv'
  <1> DEFINE covered == IF cycles = {} THEN 0 ELSE Max({0, req.at - FirstCycle})
             span == Min({SeriesSpan, covered})
             s == Stride(span)
             points == Min({span \div s + 1, MaxPoints})
             ats == {req.at - k * s : k \in 0..(points - 1)}
             q == req'
  <1>1. /\ req # Idle /\ req.pc = "plan" /\ cycles' = cycles /\ rows' = rows /\ behind' = behind
        /\ q = [req EXCEPT !.pc = "coverage", !.wins = Windows(ats)]
    BY DEF PlanSeries, At
  <1>2. /\ IsReq(req) /\ req.at \in Int /\ req.touched \in BOOLEAN /\ behind \subseteq req.spoilt
        /\ req.cov = <<>> /\ DOMAIN req.done = {} /\ HadOk(cycles, req) /\ WinsOk(req)
    BY <1>1 DEF ReqInv, ReqOk
  <1>3. covered \in Nat
    <2>1. CASE cycles = {}
      BY <2>1
    <2>2. CASE cycles # {}
      <3>1. FirstCycle \in Nat
        BY <2>2, OldestIs DEF CoreInv, FirstCycle, Instants
      <3>2. req.at - FirstCycle \in Int
        BY <1>2, <3>1
      <3>3. Max({0, req.at - FirstCycle}) = IF 0 <= req.at - FirstCycle THEN req.at - FirstCycle ELSE 0
        BY <3>2, MaxTwo
      <3> QED
        BY <2>2, <3>2, <3>3
    <2> QED
      BY <2>1, <2>2
  <1> HIDE DEF covered
  <1>4. span \in Nat
    <2>1. span = IF SeriesSpan <= covered THEN SeriesSpan ELSE covered
      BY <1>3, MinTwo, SizesAre
    <2> QED
      BY <1>3, <2>1, SizesAre
  <1> HIDE DEF span
  <1>5. s \in Nat /\ s > 0
    BY <1>4, StrideIs
  <1> HIDE DEF s
  <1>6. points \in Nat /\ points >= 1
    <2>1. span \div s \in Nat
      BY <1>4, <1>5, DivNat
    <2>2. span \div s + 1 \in Int
      BY <2>1
    <2>3. points = IF span \div s + 1 <= MaxPoints THEN span \div s + 1 ELSE MaxPoints
      BY <2>2, MinTwo, SizesAre
    <2> QED
      BY <2>1, <2>3, SizesAre
  <1> HIDE DEF points
  <1>7. /\ ats # {} /\ req.at - points * s \in Int
        /\ \A x \in ats : x \in Int /\ req.at - points * s <= x /\ x <= req.at
    BY <1>2, <1>5, <1>6, SeriesInstants
  <1> HIDE DEF ats
  <1>8. /\ Windows(ats) # {}
        /\ \A w \in Windows(ats) : IsWindow(w) /\ w[1] < w[2] /\ w[2] <= req.at
        /\ \E b \in Int : \A w \in Windows(ats) : b <= w[1]
    BY <1>2, <1>7, WindowsAre
  <1>9. /\ IsReq(q) /\ q.pc = "coverage" /\ q.wins = Windows(ats) /\ q.at = req.at
        /\ q.had = req.had /\ q.last = req.last /\ q.cov = req.cov /\ q.done = req.done
        /\ q.spoilt = req.spoilt /\ q.touched = req.touched
    BY <1>1, <1>2 DEF IsReq
  <1> HIDE DEF q
  <1>10. WinsOk(q) /\ ~Sought(q)
    BY <1>2, <1>8, <1>9 DEF WinsOk, Sought
  <1>11. HadOk(cycles, q)
    BY <1>2, <1>9 DEF HadOk
  <1>12. CovOk(rows, q) /\ ExtentOk(q) /\ BucketsOk(cycles, q) /\ EdgesOk(cycles, q)
         /\ HeadsOk(cycles, q) /\ DoneOk(cycles, q)
    BY <1>2, <1>9, <1>10 DEF CovOk, ExtentOk, BucketsOk, EdgesOk, HeadsOk, DoneOk
  <1>13. ReqOk(cycles, rows, behind, q)
    BY <1>2, <1>9, <1>10, <1>11, <1>12 DEF ReqOk
  <1> QED
    BY <1>1, <1>13 DEF ReqInv, q


LEMMA ReqCoverage ==
  ASSUME CoreInv, ReqInv, ReadCoverage
  PROVE  ReqInv'
  <1> DEFINE q == req'
  <1>1. /\ req # Idle /\ req.pc = "coverage" /\ cycles' = cycles /\ rows' = rows /\ behind' = behind
        /\ q = IF rows = <<>>
               THEN [req EXCEPT !.pc = "answer",
                                !.done = [w \in req.wins |-> Direct(w[1], w[2])]]
               ELSE [req EXCEPT !.pc = "extent", !.cov = <<Min(DOMAIN rows), Max(DOMAIN rows)>>]
    BY DEF ReadCoverage, At
  <1>2. /\ IsReq(req) /\ req.at \in Int /\ req.touched \in BOOLEAN /\ behind \subseteq req.spoilt
        /\ req.cov = <<>> /\ DOMAIN req.done = {} /\ HadOk(cycles, req) /\ WinsOk(req)
    BY <1>1 DEF ReqInv, ReqOk
  <1>3. CyclesOk(scope, cycles) /\ HasNewest(cycles) /\ RowsOk(cycles, rows) /\ IsFiniteSet(cycles)
    BY DEF CoreInv, CyclesOk
  <1>4. CASE rows = <<>>
    <2>1. /\ IsReq(q) /\ q.pc = "answer" /\ q.wins = req.wins /\ q.at = req.at
          /\ q.had = req.had /\ q.last = req.last /\ q.cov = <<>>
          /\ q.done = [w \in req.wins |-> Direct(w[1], w[2])]
          /\ q.spoilt = req.spoilt /\ q.touched = req.touched
      BY <1>1, <1>2, <1>4 DEF IsReq
    <2> HIDE DEF q
    <2>2. WinsOk(q) /\ ~Sought(q) /\ HadOk(cycles, q)
      BY <1>2, <2>1 DEF WinsOk, Sought, HadOk
    <2>3. DoneOk(cycles, q)
      <3>1. \A w \in req.wins : Brackets(cycles, q.had, w, Cardinality(Within(cycles, w[1], w[2])))
        BY <1>3, <2>1, <2>2, ScanBrackets DEF HadOk
      <3>2. \A w \in req.wins : Brackets(cycles, q.had, w, q.done[w])
        BY <2>1, <3>1, CountsAre
      <3> QED
        BY <2>1, <3>2 DEF DoneOk
    <2>4. CovOk(rows, q) /\ ExtentOk(q) /\ BucketsOk(cycles, q) /\ EdgesOk(cycles, q)
          /\ HeadsOk(cycles, q)
      BY <2>1, <2>2 DEF CovOk, ExtentOk, BucketsOk, EdgesOk, HeadsOk
    <2>5. ReqOk(cycles, rows, behind, q)
      BY <1>2, <2>1, <2>2, <2>3, <2>4 DEF ReqOk
    <2> QED
      BY <1>1, <2>5 DEF ReqInv, q
  <1>5. CASE rows # <<>>
    <2> DEFINE lo == Min(DOMAIN rows)
               hi == Max(DOMAIN rows)
    <2>1. lo \in DOMAIN rows /\ hi \in DOMAIN rows
      BY <1>3, <1>5, RowsMax DEF RowsOk
    <2> HIDE DEF lo, hi
    <2>2. /\ IsReq(q) /\ q.pc = "extent" /\ q.wins = req.wins /\ q.at = req.at
          /\ q.had = req.had /\ q.last = req.last /\ q.cov = <<lo, hi>>
          /\ q.done = req.done /\ q.spoilt = req.spoilt /\ q.touched = req.touched
      BY <1>1, <1>2, <1>5 DEF IsReq, lo, hi
    <2> HIDE DEF q
    <2>3. /\ q.cov # <<>> /\ q.cov[1] = lo /\ q.cov[2] = hi
      BY <2>2
    <2>4. WinsOk(q) /\ ~Sought(q) /\ HadOk(cycles, q)
      BY <1>2, <2>2 DEF WinsOk, Sought, HadOk
    <2>5. CovOk(rows, q) /\ ExtentOk(q) /\ BucketsOk(cycles, q) /\ EdgesOk(cycles, q)
          /\ HeadsOk(cycles, q) /\ DoneOk(cycles, q)
      BY <1>2, <2>1, <2>2, <2>3, <2>4
         DEF CovOk, ExtentOk, BucketsOk, EdgesOk, HeadsOk, DoneOk
    <2>6. ReqOk(cycles, rows, behind, q)
      BY <1>2, <2>2, <2>4, <2>5 DEF ReqOk
    <2> QED
      BY <1>1, <2>6 DEF ReqInv, q
  <1> QED
    BY <1>4, <1>5

LEMMA ReqExtent ==
  ASSUME CoreInv, ReqInv, ReadExtent
  PROVE  ReqInv'
  <1> DEFINE q == req'
             left == \A t \in Instants : t >= req.cov[1]
             right == Ceil(Max(Instants))
  <1>1. /\ req # Idle /\ req.pc = "extent" /\ cycles' = cycles /\ rows' = rows /\ behind' = behind
        /\ q = [req EXCEPT !.pc = "buckets", !.left = left, !.right = right]
    BY DEF ReadExtent, At
  <1>2. /\ IsReq(req) /\ req.at \in Int /\ req.touched \in BOOLEAN /\ behind \subseteq req.spoilt
        /\ DOMAIN req.done = {} /\ HadOk(cycles, req) /\ WinsOk(req) /\ CovOk(rows, req)
    BY <1>1 DEF ReqInv, ReqOk
  <1>3. CyclesOk(scope, cycles) /\ HasNewest(cycles) /\ RowsOk(cycles, rows)
    BY DEF CoreInv
  <1>4. /\ req.cov # <<>> /\ req.cov[1] \in DOMAIN rows /\ req.cov[2] \in DOMAIN rows
    BY <1>1, <1>2 DEF CovOk
  <1>5. /\ Max(Instants) \in Nat /\ \A c \in cycles : c.ts <= Max(Instants)
    BY <1>3, <1>4, HasCycles, NewestIn
  <1>6. /\ right \in Int /\ Floor(right) = right /\ \A c \in cycles : c.ts <= right
    <2>1. /\ right \in Int /\ Floor(right) = right /\ Max(Instants) <= right
      BY <1>5, CeilIs
    <2>2. \A c \in cycles : c.ts \in Nat
      BY <1>3, CycleTimes DEF CyclesOk
    <2> HIDE DEF right
    <2> QED
      BY <1>5, <2>1, <2>2
  <1>7. left \in BOOLEAN /\ (left => \A c \in cycles : req.cov[1] <= c.ts)
    <2>1. req.cov[1] \in Int /\ \A c \in cycles : c.ts \in Nat /\ c.ts \in Instants
      BY <1>3, <1>4, CycleTimes DEF CyclesOk, RowsOk, Counts, Instants
    <2> QED
      BY <2>1
  <1> HIDE DEF left, right
  <1>8. /\ IsReq(q) /\ q.pc = "buckets" /\ q.wins = req.wins /\ q.at = req.at
        /\ q.had = req.had /\ q.last = req.last /\ q.cov = req.cov
        /\ q.left = left /\ q.right = right
        /\ q.done = req.done /\ q.spoilt = req.spoilt /\ q.touched = req.touched
    BY <1>1, <1>2 DEF IsReq
  <1> HIDE DEF q
  <1>9. WinsOk(q) /\ HadOk(cycles, q) /\ CovOk(rows, q)
    BY <1>1, <1>2, <1>8 DEF WinsOk, HadOk, CovOk
  <1>10. ExtentOk(q)
    <2>1. \A c \in req.had : c \in cycles
      BY <1>2 DEF HadOk
    <2> QED
      BY <1>6, <1>7, <1>8, <2>1 DEF ExtentOk
  <1>11. BucketsOk(cycles, q) /\ EdgesOk(cycles, q) /\ HeadsOk(cycles, q) /\ DoneOk(cycles, q)
    BY <1>2, <1>8 DEF BucketsOk, EdgesOk, HeadsOk, DoneOk
  <1>12. ReqOk(cycles, rows, behind, q)
    BY <1>2, <1>8, <1>9, <1>10, <1>11 DEF ReqOk
  <1> QED
    BY <1>1, <1>12 DEF ReqInv, q

\* An hour with cycles between two rows is a row, or behind.
LEMMA HourHasRow ==
  ASSUME CoreInv, BehindInv, NEW h \in Int, Floor(h) = h, Between(rows, h), h \notin behind
  PROVE  /\ h \in Nat /\ BucketAt(rows, h).total = Cardinality(HourOfCycles(cycles, h))
         /\ \A c \in cycles : Floor(c.ts) = h => h \in DOMAIN rows
  <1>1. CyclesOk(scope, cycles) /\ RowsOk(cycles, rows) /\ IsFiniteSet(cycles)
    BY DEF CoreInv, CyclesOk
  <1>2. h \in Nat
    BY <1>1 DEF Between, RowsOk, Counts
  <1>3. BucketAt(rows, h).total = Cardinality(HourOfCycles(cycles, h))
    BY <1>2 DEF BehindInv, BehindOk, ExactBut
  <1>4. ASSUME NEW c \in cycles, Floor(c.ts) = h
        PROVE  h \in DOMAIN rows
    <2> SUFFICES ASSUME h \notin DOMAIN rows PROVE FALSE
      OBVIOUS
    <2>1. c.ts \in Nat
      BY <1>1, CycleTimes DEF CyclesOk
    <2>2. c \in HourOfCycles(cycles, h)
      BY <1>4, <2>1, FloorBounds DEF HourOfCycles
    <2>3. IsFiniteSet(HourOfCycles(cycles, h))
      <3>1. HourOfCycles(cycles, h) \subseteq cycles
        BY DEF HourOfCycles
      <3> QED
        BY <1>1, <3>1, FS_Subset
    <2>4. Cardinality(HourOfCycles(cycles, h)) # 0
      BY <2>2, <2>3, FS_EmptySet
    <2> QED
      BY <1>3, <2>4 DEF BucketAt, Zero
  <1> QED
    BY <1>2, <1>3, <1>4

LEMMA ReqBuckets ==
  ASSUME CoreInv, BehindInv, ReqInv, ReadBuckets
  PROVE  ReqInv'
  <1> DEFINE q == req'
             lo == Ceil(Min({w[1] : w \in req.wins}))
             S == {g \in DOMAIN rows : lo <= g /\ g < Floor(req.at)}
             B == [h \in S |-> rows[h].total]
  <1>1. /\ req # Idle /\ req.pc = "buckets" /\ cycles' = cycles /\ rows' = rows /\ behind' = behind
        /\ q = [req EXCEPT !.pc = "edges", !.buckets = B]
    BY DEF ReadBuckets, At
  <1>2. /\ IsReq(req) /\ req.at \in Int /\ req.touched \in BOOLEAN /\ behind \subseteq req.spoilt
        /\ DOMAIN req.done = {} /\ HadOk(cycles, req) /\ WinsOk(req) /\ CovOk(rows, req)
        /\ ExtentOk(req)
    BY <1>1 DEF ReqInv, ReqOk
  <1>3. CyclesOk(scope, cycles) /\ RowsOk(cycles, rows) /\ IsFiniteSet(cycles)
    BY DEF CoreInv, CyclesOk
  <1>4. /\ req.cov # <<>> /\ req.cov[1] \in DOMAIN rows /\ req.cov[2] \in DOMAIN rows
    BY <1>1, <1>2 DEF CovOk
  <1>5. ASSUME NEW w \in req.wins
        PROVE  lo <= Ceil(w[1]) /\ lo \in Int /\ Ceil(w[1]) \in Int /\ Floor(w[2]) <= Floor(req.at)
               /\ Floor(w[2]) \in Int /\ Floor(req.at) \in Int
    <2> DEFINE T == {v[1] : v \in req.wins}
    <2>1. PICK b \in Int : \A v \in req.wins : b <= v[1]
      BY <1>2 DEF WinsOk
    <2>2. \A v \in req.wins : v[1] \in Int /\ v[2] \in Int /\ v[2] <= req.at
      BY <1>2 DEF WinsOk, IsWindow
    <2>3. T \in SUBSET Int /\ T # {} /\ (\A x \in T : b <= x) /\ w[1] \in T
      BY <2>1, <2>2
    <2> HIDE DEF T
    <2>4. Min(T) \in Int /\ Min(T) <= w[1]
      BY <2>3, MinIn
    <2>5. Ceil(Min(T)) <= Ceil(w[1]) /\ Ceil(Min(T)) \in Int /\ Ceil(w[1]) \in Int
      BY <2>2, <2>4, CeilOrder, CeilIs
    <2>6. Floor(w[2]) <= Floor(req.at) /\ Floor(w[2]) \in Int /\ Floor(req.at) \in Int
      BY <1>2, <2>2, FloorOrder, FloorBounds
    <2> QED
      BY <2>5, <2>6 DEF T
  <1> HIDE DEF lo
  <1>6. /\ DOMAIN B = S /\ \A h \in S : B[h] = rows[h].total /\ h \in DOMAIN rows
    OBVIOUS
  <1> HIDE DEF B
  <1>7. /\ IsReq(q) /\ q.pc = "edges" /\ q.wins = req.wins /\ q.at = req.at
        /\ q.had = req.had /\ q.last = req.last /\ q.cov = req.cov
        /\ q.left = req.left /\ q.right = req.right /\ q.buckets = B
        /\ q.done = req.done /\ q.spoilt = req.spoilt /\ q.touched = req.touched
    BY <1>1, <1>2 DEF IsReq
  <1> HIDE DEF q
  <1>8. WinsOk(q) /\ HadOk(cycles, q) /\ CovOk(rows, q)
    BY <1>1, <1>2, <1>7 DEF WinsOk, HadOk, CovOk
  <1>9. ExtentOk(q)
    BY <1>1, <1>2, <1>7 DEF ExtentOk, Sought
  <1>10. \A c \in req.had : c \in cycles /\ c.ts \in Nat
    BY <1>2, <1>3, CycleTimes DEF HadOk, CyclesOk
  <1>11. ASSUME NEW h \in S
         PROVE  /\ h \in Nat /\ Floor(h) = h /\ B[h] \in Nat
                /\ B[h] <= Cardinality(HourOfCycles(cycles, h))
                /\ h \notin q.spoilt => Cardinality(HourOfCycles(q.had, h)) <= B[h]
    <2>0. h \in DOMAIN rows
      BY <1>6
    <2> HIDE DEF S
    <2>1. /\ h \in Nat /\ Floor(h) = h
          /\ rows[h].total \in 1..Cardinality(HourOfCycles(cycles, h))
      BY <1>3, <2>0 DEF RowsOk, Counts
    <2>2. /\ HourOfCycles(q.had, h) \subseteq HourOfCycles(cycles, h)
          /\ HourOfCycles(cycles, h) \subseteq cycles
      BY <1>7, <1>10 DEF HourOfCycles
    <2>3. IsFiniteSet(HourOfCycles(cycles, h))
      BY <1>3, <2>2, FS_Subset
    <2>4. /\ Cardinality(HourOfCycles(cycles, h)) \in Nat
          /\ Cardinality(HourOfCycles(q.had, h)) \in Nat
          /\ Cardinality(HourOfCycles(q.had, h)) <= Cardinality(HourOfCycles(cycles, h))
      BY <2>2, <2>3, Fewer
    <2>5. ASSUME h \notin q.spoilt
          PROVE  rows[h].total = Cardinality(HourOfCycles(cycles, h))
      <3>1. Between(rows, h)
        BY <2>0, <2>1 DEF Between
      <3>2. h \notin behind
        BY <1>2, <1>7, <2>5
      <3>3. BucketAt(rows, h).total = Cardinality(HourOfCycles(cycles, h))
        BY <2>1, <3>1, <3>2, HourHasRow
      <3> QED
        BY <2>0, <3>3 DEF BucketAt
    <2> QED
      BY <1>6, <2>1, <2>4, <2>5
  <1>12. ASSUME NEW w \in req.wins, NEW c \in req.had,
                Ceil(w[1]) <= Floor(c.ts), Floor(c.ts) < Floor(w[2]), Inside(q, Floor(c.ts)),
                Floor(c.ts) \notin q.spoilt
         PROVE  Floor(c.ts) \in S
    <2>1. Floor(c.ts) \in Int /\ Floor(Floor(c.ts)) = Floor(c.ts)
      BY <1>10, FloorBounds
    <2>2. Between(rows, Floor(c.ts)) /\ Floor(c.ts) \notin behind
      BY <1>2, <1>4, <1>7, <1>12 DEF Between, Inside
    <2>3. Floor(c.ts) \in DOMAIN rows
      BY <1>10, <2>1, <2>2, HourHasRow
    <2>4. lo <= Floor(c.ts) /\ Floor(c.ts) < Floor(req.at)
      BY <1>5, <1>12, <2>1
    <2> QED
      BY <2>3, <2>4
  <1> HIDE DEF S
  <1>13. BucketsOk(cycles, q)
    <2>1. \A w \in q.wins, c \in q.had :
            LET h == Floor(c.ts)
            IN Ceil(w[1]) <= h /\ h < Floor(w[2]) /\ Inside(q, h) =>
                 h \in DOMAIN q.buckets \cup q.spoilt
      BY <1>6, <1>7, <1>12
    <2> QED
      BY <1>6, <1>7, <1>11, <2>1 DEF BucketsOk
  <1>14. EdgesOk(cycles, q) /\ HeadsOk(cycles, q) /\ DoneOk(cycles, q)
    BY <1>2, <1>7 DEF EdgesOk, HeadsOk, DoneOk
  <1>15. ReqOk(cycles, rows, behind, q)
    BY <1>2, <1>7, <1>8, <1>9, <1>13, <1>14 DEF ReqOk
  <1> QED
    BY <1>1, <1>15 DEF ReqInv, q

\* A statement that reads edges changes nothing else.
LEMMA ReqReads ==
  ASSUME NEW C, NEW R, NEW B, NEW r, r # Idle, ReqOk(C, R, B, r), NEW q, SameReq(r, q),
         q.buckets = r.buckets, q.done = r.done, q.spoilt = r.spoilt, q.touched = r.touched,
         r.pc \in {"edges", "hours", "again"}, q.pc \in {"hours", "again", "answer"},
         EdgesOk(C, q), HeadsOk(C, q)
  PROVE  ReqOk(C, R, B, q)
  <1>1. /\ IsReq(r) /\ r.at \in Int /\ r.touched \in BOOLEAN /\ B \subseteq r.spoilt
        /\ DOMAIN r.done = {} /\ HadOk(C, r) /\ WinsOk(r) /\ CovOk(R, r) /\ ExtentOk(r)
        /\ BucketsOk(C, r) /\ r.cov # <<>>
    BY DEF ReqOk, CovOk
  <1>2. /\ IsReq(q) /\ q.at = r.at /\ q.had = r.had /\ q.last = r.last /\ q.wins = r.wins
        /\ q.cov = r.cov /\ q.left = r.left /\ q.right = r.right
    BY DEF SameReq
  <1>3. Sought(q) /\ Sought(r)
    BY <1>1, <1>2 DEF Sought
  <1>4. HadOk(C, q) /\ WinsOk(q) /\ CovOk(R, q)
    BY <1>1, <1>2 DEF HadOk, WinsOk, CovOk
  <1>5. ExtentOk(q)
    BY <1>1, <1>2, <1>3 DEF ExtentOk
  <1>6. BucketsOk(C, q)
    <2>1. \A h : Inside(q, h) <=> Inside(r, h)
      BY SameWanted
    <2> QED
      BY <1>1, <1>2, <1>3, <2>1 DEF BucketsOk
  <1>7. DoneOk(C, q)
    BY <1>1, <1>2 DEF DoneOk
  <1> QED
    BY <1>1, <1>2, <1>4, <1>5, <1>6, <1>7 DEF ReqOk

LEMMA WantedIs ==
  ASSUME NEW r, WinsOk(r), NEW e \in WantedBy(r)
  PROVE  IsWindow(e) /\ e[1] < e[2] /\ Partial(e) = {e}
  <1>1. PICK w \in r.wins : e \in Partial(w)
    BY DEF WantedBy
  <1>2. IsWindow(w) /\ w[1] < w[2]
    BY DEF WinsOk
  <1>3. IsWindow(e) /\ e[1] < e[2] /\ Ceil(e[1]) >= Floor(e[2])
    BY <1>1, <1>2, PartialIs
  <1> QED
    BY <1>3, PartialIs

LEMMA ReqEdges ==
  ASSUME CoreInv, ReqInv, ReadEdges
  PROVE  ReqInv'
  <1> DEFINE q == req'
             W == Wanted \ Derived
  <1>1. /\ req # Idle /\ req.pc = "edges" /\ cycles' = cycles /\ rows' = rows /\ behind' = behind
        /\ q = [req EXCEPT !.pc = "hours", !.edges = [e \in W |-> Direct(e[1], e[2])]]
    BY DEF ReadEdges, At
  <1>2. ReqOk(cycles, rows, behind, req) /\ IsReq(req) /\ HadOk(cycles, req)
    BY <1>1 DEF ReqInv, ReqOk
  <1>3. IsFiniteSet(cycles)
    BY DEF CoreInv, CyclesOk
  <1>4. W = WantedBy(req) \ DerivedBy(req)
    BY ReqIs
  <1> HIDE DEF W
  <1>5. /\ SameReq(req, q) /\ q.pc = "hours" /\ q.edges = [e \in W |-> Direct(e[1], e[2])]
        /\ q.buckets = req.buckets /\ q.done = req.done /\ q.spoilt = req.spoilt
        /\ q.touched = req.touched /\ q.had = req.had
    BY <1>1, <1>2 DEF IsReq, SameReq
  <1> HIDE DEF q
  <1>6. WantedBy(q) = WantedBy(req) /\ DerivedBy(q) = DerivedBy(req)
    BY <1>5, SameWanted
  <1>7. DOMAIN q.edges = W /\ \A e \in W : q.edges[e] = Cardinality(Within(cycles, e[1], e[2]))
    BY <1>5, CountsAre
  <1>8. \A e \in W : Brackets(cycles, q.had, e, q.edges[e])
    <2>1. \A e : Brackets(cycles, req.had, e, Cardinality(Within(cycles, e[1], e[2])))
      BY <1>2, <1>3, ScanBrackets DEF HadOk
    <2> QED
      BY <1>5, <1>7, <2>1
  <1>9. EdgesOk(cycles, q)
    BY <1>4, <1>5, <1>6, <1>7, <1>8 DEF EdgesOk
  <1>10. HeadsOk(cycles, q)
    BY <1>7 DEF HeadsOk
  <1>11. ReqOk(cycles, rows, behind, q)
    BY <1>1, <1>2, <1>5, <1>9, <1>10, ReqReads
  <1> QED
    BY <1>1, <1>11 DEF ReqInv, q

\* A tail by difference is right, unless its hour got a late cycle or was taken for
\* empty and has a bucket by now.
LEMMA TailByDifference ==
  ASSUME CoreInv, BehindInv, ReqInv, req # Idle, req.pc = "hours",
         NEW e \in DerivedBy(req), Rest(e) >= 0, Floor(e[1]) \notin req.spoilt, e \notin Mixed
  PROVE  Brackets(cycles, req.had, e, Rest(e))
  <1> DEFINE h == Floor(e[1])
             head == <<h, e[1]>>
             n == req.edges[head]
  <1>1. /\ CyclesOk(scope, cycles) /\ RowsOk(cycles, rows) /\ IsFiniteSet(cycles)
        /\ \A c \in cycles : c.ts \in Nat
    BY CycleTimes DEF CoreInv, CyclesOk
  <1>2. /\ IsReq(req) /\ behind \subseteq req.spoilt /\ HadOk(cycles, req) /\ WinsOk(req)
        /\ CovOk(rows, req) /\ ExtentOk(req) /\ EdgesOk(cycles, req) /\ HeadsOk(cycles, req)
    BY DEF ReqInv, ReqOk
  <1>3. /\ req.cov # <<>> /\ req.cov[1] \in DOMAIN rows /\ req.cov[2] \in DOMAIN rows
        /\ Sought(req)
    BY <1>2 DEF CovOk, Sought
  <1>4. /\ req.cov[1] \in Nat /\ Floor(req.cov[1]) = req.cov[1]
        /\ req.cov[2] \in Nat /\ Floor(req.cov[2]) = req.cov[2]
    BY <1>1, <1>3 DEF RowsOk, Counts
  <1>5. /\ e \in WantedBy(req) /\ h < e[1] /\ e[2] = h + PerHour /\ head \in WantedBy(req)
        /\ Knows(req, h, e[2])
    BY DEF DerivedBy
  <1>6. IsWindow(e)
    BY <1>2, <1>5, WantedIs
  <1>7. /\ e[1] \in Int /\ h \in Int /\ Floor(h) = h /\ h <= e[1] /\ e[1] < h + PerHour
        /\ e[2] \in Int /\ PerHour \in Nat /\ PerHour > 0
    BY <1>5, <1>6, FloorBounds, PerHourIs DEF IsWindow
  <1>8. h \notin req.spoilt
    OBVIOUS
  <1> HIDE DEF h
  <1>9. head[1] = h /\ head[2] = e[1] /\ head \notin DerivedBy(req)
    BY <1>7 DEF DerivedBy
  <1>10. head \in DOMAIN req.edges /\ Brackets(cycles, req.had, head, n)
    BY <1>2, <1>5, <1>9 DEF EdgesOk
  <1> HIDE DEF n, head
  <1>11. /\ n \in Nat /\ Cardinality(Within(req.had, h, e[1])) <= n
         /\ n <= Cardinality(Within(cycles, h, e[1]))
    BY <1>9, <1>10 DEF Brackets
  <1>12. Rest(e) = (IF h \in DOMAIN rows THEN rows[h].total ELSE 0) - n
    BY DEF Rest, WholeHour, h, n, head
  <1>13. CASE Inside(req, h)
    <2>1. Between(rows, h) /\ h \notin behind
      BY <1>2, <1>3, <1>8, <1>13 DEF Inside, Between
    <2>2. BucketAt(rows, h).total = Cardinality(HourOfCycles(cycles, h))
      BY <1>7, <2>1, HourHasRow
    <2>3. Rest(e) = Cardinality(Within(cycles, h, h + PerHour)) - n
      BY <1>12, <2>2, CountsAre DEF BucketAt, Zero
    <2>4. n = Cardinality(Within(cycles, h, e[1]))
      <3>1. Floor(head[1]) = h /\ head[2] <= h + PerHour
        BY <1>7, <1>9
      <3>2. n = Cardinality(Within(cycles, head[1], head[2]))
        BY <1>2, <1>8, <1>10, <1>13, <3>1 DEF HeadsOk, n
      <3> QED
        BY <1>9, <3>2
    <2>5. /\ h <= e[1] /\ e[1] <= h + PerHour /\ h + PerHour \in Int
      BY <1>7
    <2>6. /\ Cardinality(Within(cycles, h, e[1])) \in Nat
          /\ Cardinality(Within(cycles, e[1], h + PerHour)) \in Nat
          /\ Cardinality(Within(cycles, h, h + PerHour))
               = Cardinality(Within(cycles, h, e[1])) + Cardinality(Within(cycles, e[1], h + PerHour))
      BY <1>1, <1>7, <2>5, Halves
    <2>7. Rest(e) = Cardinality(Within(cycles, e[1], e[2]))
      BY <1>5, <2>3, <2>4, <2>6
    <2>8. Brackets(cycles, req.had, e, Cardinality(Within(cycles, e[1], e[2])))
      BY <1>1, <1>2, ScanBrackets DEF HadOk
    <2> QED
      BY <2>7, <2>8
  <1>14. CASE ~Inside(req, h)
    <2>1. h < req.cov[1] \/ h > req.cov[2]
      BY <1>4, <1>7, <1>14 DEF Inside
    <2>2. h \notin DOMAIN rows
      BY <2>1, ReqIs DEF Mixed, h
    <2>3. Rest(e) = 0
      BY <1>11, <1>12, <2>2
    <2>4. Within(req.had, e[1], e[2]) = {}
      <3> SUFFICES ASSUME NEW c \in req.had, e[1] <= c.ts, c.ts < e[2] PROVE FALSE
        BY DEF Within
      <3>1. c.ts \in Nat /\ c \in cycles
        BY <1>1, <1>2 DEF HadOk
      <3>2. /\ req.right \in Int
            /\ (req.left => req.cov[1] <= c.ts) /\ c.ts <= req.right
        BY <1>2, <1>3 DEF ExtentOk
      <3>3. CASE h < req.cov[1]
        <4>1. h + PerHour <= req.cov[1]
          BY <1>4, <1>7, <3>3, HourBefore
        <4>2. req.left
          BY <1>4, <1>5, <1>7, <3>3 DEF Knows
        <4> QED
          BY <1>4, <1>5, <1>7, <3>1, <3>2, <4>1, <4>2
      <3>4. CASE h > req.cov[2]
        <4>1. h >= req.right
          BY <1>4, <1>5, <1>7, <3>2, <3>4 DEF Knows
        <4> QED
          BY <1>5, <1>7, <3>1, <3>2, <4>1
      <3> QED
        BY <2>1, <3>3, <3>4
    <2>5. Cardinality(Within(req.had, e[1], e[2])) = 0
      BY <2>4, FS_EmptySet
    <2>6. Within(cycles, e[1], e[2]) \subseteq cycles
      BY DEF Within
    <2>7. Cardinality(Within(cycles, e[1], e[2])) \in Nat
      BY <1>1, <2>6, Fewer
    <2> QED
      BY <2>3, <2>5, <2>7 DEF Brackets
  <1> QED
    BY <1>13, <1>14

LEMMA ReqHours ==
  ASSUME CoreInv, BehindInv, ReqInv, ReadHours
  PROVE  ReqInv'
  <1> DEFINE q == req'
             sure == {e \in Derived : Rest(e) >= 0}
             E == [e \in DOMAIN req.edges \cup sure |->
                     IF e \in sure THEN Rest(e) ELSE req.edges[e]]
  <1>1. /\ req # Idle /\ req.pc = "hours" /\ cycles' = cycles /\ rows' = rows /\ behind' = behind
        /\ q = [req EXCEPT !.pc = IF sure = Derived THEN "answer" ELSE "again",
                           !.mixed = Mixed \cap sure,
                           !.edges = [e \in DOMAIN @ \cup sure |->
                                        IF e \in sure THEN Rest(e) ELSE @[e]]]
    BY DEF ReadHours, At
  <1>2. ReqOk(cycles, rows, behind, req) /\ IsReq(req) /\ EdgesOk(cycles, req)
    BY <1>1 DEF ReqInv, ReqOk
  <1>3. Derived = DerivedBy(req) /\ DerivedBy(req) \subseteq WantedBy(req)
    BY ReqIs DEF DerivedBy
  <1>4. \A e \in sure : e \in DerivedBy(req) /\ Rest(e) >= 0
    BY <1>3
  <1>5. sure = Derived => sure = DerivedBy(req)
    BY <1>3
  <1>6. /\ SameReq(req, q) /\ q.pc = (IF sure = Derived THEN "answer" ELSE "again")
        /\ q.edges = E /\ q.mixed = Mixed \cap sure
        /\ q.buckets = req.buckets /\ q.done = req.done /\ q.spoilt = req.spoilt
        /\ q.touched = req.touched /\ q.had = req.had
    BY <1>1, <1>2 DEF IsReq, SameReq
  <1> HIDE DEF q, sure
  <1>7. /\ DOMAIN E = DOMAIN req.edges \cup sure /\ \A e \in sure : E[e] = Rest(e)
        /\ \A e \in DOMAIN req.edges : e \notin sure => E[e] = req.edges[e]
    OBVIOUS
  <1> HIDE DEF E
  <1>8. WantedBy(q) = WantedBy(req) /\ DerivedBy(q) = DerivedBy(req)
    BY <1>6, SameWanted
  <1>9. /\ DOMAIN req.edges = WantedBy(req) \ DerivedBy(req)
        /\ \A e \in DOMAIN req.edges : Brackets(cycles, req.had, e, req.edges[e])
    BY <1>1, <1>2 DEF EdgesOk
  <1>10. q.pc \in {"again", "answer"}
    BY <1>6
  <1>11. ASSUME NEW e \in DOMAIN E
         PROVE  e \in q.mixed \/ Floor(e[1]) \in q.spoilt \/ Brackets(cycles, q.had, e, E[e])
    <2>1. CASE e \in sure
      <3>1. e \notin q.mixed => e \notin Mixed
        BY <1>6, <2>1
      <3>2. e \notin Mixed /\ Floor(e[1]) \notin q.spoilt => Brackets(cycles, req.had, e, Rest(e))
        BY <1>1, <1>4, <1>6, <2>1, TailByDifference
      <3> QED
        BY <1>6, <1>7, <2>1, <3>1, <3>2
    <2>2. CASE e \notin sure
      BY <1>6, <1>7, <1>9, <2>2
    <2> QED
      BY <2>1, <2>2
  <1>12. EdgesOk(cycles, q)
    <2>1. DOMAIN E \subseteq WantedBy(req) /\ WantedBy(req) \ DerivedBy(req) \subseteq DOMAIN E
      BY <1>3, <1>4, <1>7, <1>9
    <2>2. q.pc = "answer" => DOMAIN E = WantedBy(req)
      BY <1>3, <1>5, <1>6, <1>7, <1>9
    <2>3. q.pc # "hours"
      BY <1>10
    <2> QED
      BY <1>6, <1>8, <1>11, <2>1, <2>2, <2>3 DEF EdgesOk
  <1>13. HeadsOk(cycles, q)
    BY <1>10 DEF HeadsOk
  <1>14. ReqOk(cycles, rows, behind, q)
    BY <1>1, <1>2, <1>6, <1>10, <1>12, <1>13, ReqReads
  <1> QED
    BY <1>1, <1>14 DEF ReqInv, q

LEMMA ReqAgain ==
  ASSUME CoreInv, ReqInv, ReadAgain
  PROVE  ReqInv'
  <1> DEFINE q == req'
             E == [e \in Wanted |-> IF e \in DOMAIN req.edges THEN req.edges[e]
                                    ELSE Direct(e[1], e[2])]
  <1>1. /\ req # Idle /\ req.pc = "again" /\ cycles' = cycles /\ rows' = rows /\ behind' = behind
        /\ q = [req EXCEPT !.pc = "answer",
                           !.edges = [e \in Wanted |-> IF e \in DOMAIN @ THEN @[e]
                                                       ELSE Direct(e[1], e[2])]]
    BY DEF ReadAgain, At
  <1>2. ReqOk(cycles, rows, behind, req) /\ IsReq(req) /\ EdgesOk(cycles, req)
        /\ HadOk(cycles, req)
    BY <1>1 DEF ReqInv, ReqOk
  <1>3. IsFiniteSet(cycles)
    BY DEF CoreInv, CyclesOk
  <1>4. /\ SameReq(req, q) /\ q.pc = "answer" /\ q.edges = E /\ q.mixed = req.mixed
        /\ q.buckets = req.buckets /\ q.done = req.done /\ q.spoilt = req.spoilt
        /\ q.touched = req.touched /\ q.had = req.had
    BY <1>1, <1>2 DEF IsReq, SameReq
  <1> HIDE DEF q
  <1>5. /\ DOMAIN E = WantedBy(req)
        /\ \A e \in WantedBy(req) :
             E[e] = IF e \in DOMAIN req.edges THEN req.edges[e]
                    ELSE Cardinality(Within(cycles, e[1], e[2]))
    BY ReqIs, CountsAre
  <1> HIDE DEF E
  <1>6. WantedBy(q) = WantedBy(req) /\ DerivedBy(q) = DerivedBy(req)
    BY <1>4, SameWanted
  <1>7. \A e \in DOMAIN req.edges :
          e \in req.mixed \/ Floor(e[1]) \in req.spoilt
          \/ Brackets(cycles, req.had, e, req.edges[e])
    BY <1>1, <1>2 DEF EdgesOk
  <1>8. \A e : Brackets(cycles, req.had, e, Cardinality(Within(cycles, e[1], e[2])))
    BY <1>2, <1>3, ScanBrackets DEF HadOk
  <1>9. EdgesOk(cycles, q)
    BY <1>4, <1>5, <1>6, <1>7, <1>8 DEF EdgesOk
  <1>10. HeadsOk(cycles, q)
    BY <1>4 DEF HeadsOk
  <1>11. ReqOk(cycles, rows, behind, q)
    BY <1>1, <1>2, <1>4, <1>9, <1>10, ReqReads
  <1> QED
    BY <1>1, <1>11 DEF ReqInv, q

LEMMA CountIs ==
  ASSUME NEW w
  PROVE  LET from == Ceil(w[1])
             to == Floor(w[2])
             inside == {h \in DOMAIN req.buckets : from <= h /\ h < to}
         IN Count(w) = IF from < to /\ Knows(req, from, to)
                       THEN SumFunctionOnSet(req.buckets, inside)
                            + SumFunctionOnSet(req.edges, Partial(w) \cap DOMAIN req.edges)
                       ELSE IF w \in DOMAIN req.edges THEN req.edges[w]
                            ELSE Cardinality(Within(cycles, w[1], w[2]))
  <1>1. Authoritative(Ceil(w[1]), Floor(w[2])) <=> Knows(req, Ceil(w[1]), Floor(w[2]))
    BY ReqIs
  <1>2. Direct(w[1], w[2]) = Cardinality(Within(cycles, w[1], w[2]))
    BY CountsAre
  <1> QED
    BY <1>1, <1>2, Zenon DEF Count

\* A window is counted right, or excused.
LEMMA CountBrackets ==
  ASSUME CoreInv, ReqInv, req # Idle, req.pc = "answer", req.cov # <<>>, NEW w \in req.wins,
         ~ExcusedBy(cycles, req, w)
  PROVE  Brackets(cycles, req.had, w, Count(w))
  <1> DEFINE from == Ceil(w[1])
             to == Floor(w[2])
             inside == {h \in DOMAIN req.buckets : from <= h /\ h < to}
             whole == from < to /\ Knows(req, from, to)
  <1>1. /\ CyclesOk(scope, cycles) /\ RowsOk(cycles, rows) /\ IsFiniteSet(cycles)
        /\ \A c \in cycles : c.ts \in Nat
    BY CycleTimes DEF CoreInv, CyclesOk
  <1>2. /\ HadOk(cycles, req) /\ WinsOk(req) /\ CovOk(rows, req) /\ ExtentOk(req)
        /\ BucketsOk(cycles, req) /\ EdgesOk(cycles, req) /\ Sought(req)
    BY DEF ReqInv, ReqOk, Sought
  <1>3. /\ IsWindow(w) /\ w[1] < w[2]
    BY <1>2 DEF WinsOk
  <1>4. /\ w[1] \in Int /\ w[2] \in Int /\ from \in Int /\ to \in Int
        /\ w[1] <= from /\ to <= w[2] /\ Floor(from) = from /\ Floor(to) = to
        /\ Floor(w[1]) \in Int /\ Floor(w[1]) <= w[1]
    BY <1>3, CeilIs, FloorBounds DEF IsWindow
  <1>5. /\ \A h \in req.spoilt : ~(Floor(w[1]) <= h /\ h < w[2])
        /\ Partial(w) \cap req.mixed = {}
        /\ ~(from = req.right /\ req.right \in {c.ts : c \in cycles})
    BY DEF ExcusedBy
  <1>6. DOMAIN req.edges = WantedBy(req)
        /\ \A e \in DOMAIN req.edges :
             e \in req.mixed \/ Floor(e[1]) \in req.spoilt
             \/ Brackets(cycles, req.had, e, req.edges[e])
    BY <1>2 DEF EdgesOk
  <1>7. Count(w) = IF whole THEN SumFunctionOnSet(req.buckets, inside)
                                 + SumFunctionOnSet(req.edges, Partial(w) \cap DOMAIN req.edges)
                   ELSE IF w \in DOMAIN req.edges THEN req.edges[w]
                        ELSE Cardinality(Within(cycles, w[1], w[2]))
    BY CountIs
  <1>8. CASE whole
    <2>1. /\ req.cov[1] \in Nat /\ Floor(req.cov[1]) = req.cov[1]
          /\ req.cov[2] \in Nat /\ Floor(req.cov[2]) = req.cov[2]
      BY <1>1, <1>2 DEF CovOk, RowsOk, Counts
    <2>2. from < to /\ Knows(req, from, to)
      BY <1>8
    <2> DEFINE S == inside
    <2>3. \A h \in S : h \in DOMAIN req.buckets /\ from <= h /\ h < to
      OBVIOUS
    <2>4. \A h \in DOMAIN req.buckets : from <= h /\ h < to => h \in S
      OBVIOUS
    <2> HIDE DEF from, to, S, whole
    <2>5. Partial(w) \subseteq DOMAIN req.edges
      BY <1>6 DEF WantedBy
    <2>6. \A e \in Partial(w) : Brackets(cycles, req.had, e, req.edges[e])
      <3> SUFFICES ASSUME NEW e \in Partial(w)
                   PROVE  Brackets(cycles, req.had, e, req.edges[e])
        OBVIOUS
      <3>1. IsWindow(e) /\ e[1] < e[2] /\ w[1] <= e[1] /\ e[2] <= w[2]
        BY <1>3, PartialIs
      <3>2. Floor(w[1]) <= Floor(e[1]) /\ Floor(e[1]) <= e[1] /\ Floor(e[1]) \in Int
            /\ e[1] \in Int /\ e[2] \in Int
        BY <1>4, <3>1, FloorOrder, FloorBounds DEF IsWindow
      <3>3. Floor(e[1]) < w[2]
        BY <1>4, <3>1, <3>2
      <3> QED
        BY <1>5, <1>6, <2>5, <3>2, <3>3
    <2>7. \A h \in S : /\ h \in Int /\ Floor(h) = h /\ from <= h /\ h < to
                       /\ req.buckets[h] \in Nat
                       /\ Cardinality(HourOfCycles(req.had, h)) <= req.buckets[h]
                       /\ req.buckets[h] <= Cardinality(HourOfCycles(cycles, h))
      <3> SUFFICES ASSUME NEW h \in S
                   PROVE  /\ h \in Int /\ Floor(h) = h /\ from <= h /\ h < to
                          /\ req.buckets[h] \in Nat
                          /\ Cardinality(HourOfCycles(req.had, h)) <= req.buckets[h]
                          /\ req.buckets[h] <= Cardinality(HourOfCycles(cycles, h))
        OBVIOUS
      <3>1. /\ h \in Nat /\ Floor(h) = h /\ req.buckets[h] \in Nat
            /\ req.buckets[h] <= Cardinality(HourOfCycles(cycles, h))
            /\ h \notin req.spoilt => Cardinality(HourOfCycles(req.had, h)) <= req.buckets[h]
        BY <1>2, <2>3 DEF BucketsOk
      <3>2. Floor(w[1]) <= h /\ h < w[2]
        BY <1>4, <2>3, <3>1
      <3> QED
        BY <1>5, <2>3, <3>1, <3>2
    <2>8. \A c \in req.had : from <= c.ts /\ c.ts < to => Floor(c.ts) \in S
      <3> SUFFICES ASSUME NEW c \in req.had, from <= c.ts, c.ts < to
                   PROVE  Floor(c.ts) \in S
        OBVIOUS
      <3>1. c \in cycles /\ c.ts \in Nat /\ c.ts \in Int
        BY <1>1, <1>2 DEF HadOk
      <3>2. Floor(c.ts) \in Int /\ Floor(c.ts) <= c.ts /\ Floor(Floor(c.ts)) = Floor(c.ts)
        BY <3>1, FloorBounds
      <3>3. from <= Floor(c.ts) /\ Floor(c.ts) < to
        <4>1. Floor(from) <= Floor(c.ts)
          BY <1>4, <3>1, FloorOrder
        <4> QED
          BY <1>4, <3>1, <3>2, <4>1
      <3>4. /\ req.right \in Int /\ (req.left => req.cov[1] <= c.ts) /\ c.ts <= req.right
        BY <1>2 DEF ExtentOk
      <3>5. Inside(req, Floor(c.ts))
        <4>1. req.cov[1] <= Floor(c.ts)
          <5> SUFFICES ASSUME Floor(c.ts) < req.cov[1] PROVE FALSE
            BY <2>1, <3>2
          <5>1. req.left
            BY <1>4, <2>1, <2>2, <3>2, <3>3 DEF Knows
          <5>2. Floor(req.cov[1]) <= Floor(c.ts)
            BY <2>1, <3>1, <3>4, <5>1, FloorOrder
          <5> QED
            BY <2>1, <3>2, <5>2
        <4>2. Floor(c.ts) <= req.cov[2]
          <5> SUFFICES ASSUME req.cov[2] < Floor(c.ts) PROVE FALSE
            BY <2>1, <3>2
          <5>1. req.cov[2] + PerHour <= Floor(c.ts)
            BY <2>1, <3>2, HourBefore
          <5>2. from >= req.right
            BY <1>4, <2>1, <2>2, <3>2, <3>3, <3>4, <5>1, PerHourIs DEF Knows
          <5>3. from = c.ts /\ from = req.right
            BY <1>4, <3>1, <3>4, <5>2
          <5> QED
            BY <1>5, <3>1, <5>3
        <4> QED
          BY <4>1, <4>2 DEF Inside
      <3>6. Floor(c.ts) \in DOMAIN req.buckets \cup req.spoilt
        BY <1>2, <3>3, <3>5 DEF BucketsOk, from, to
      <3>7. Floor(w[1]) <= Floor(c.ts) /\ Floor(c.ts) < w[2]
        BY <1>4, <3>2, <3>3
      <3> QED
        BY <1>5, <2>4, <3>3, <3>6, <3>7
    <2>9. req.had \subseteq cycles
      BY <1>2 DEF HadOk
    <2>10. Brackets(cycles, req.had, w, SumFunctionOnSet(req.buckets, S)
                                         + SumFunctionOnSet(req.edges, Partial(w)))
      BY <1>1, <1>3, <2>2, <2>6, <2>7, <2>8, <2>9, WindowSum DEF from, to
    <2>11. Partial(w) \cap DOMAIN req.edges = Partial(w)
      BY <2>5
    <2> QED
      BY <1>7, <1>8, <2>10, <2>11 DEF S
  <1>9. CASE ~whole
    <2>1. Brackets(cycles, req.had, w, Cardinality(Within(cycles, w[1], w[2])))
      BY <1>1, <1>2, ScanBrackets DEF HadOk
    <2>2. CASE w \in DOMAIN req.edges
      <3>1. Partial(w) = {w}
        BY <1>2, <1>6, <2>2, WantedIs
      <3>2. Floor(w[1]) < w[2]
        BY <1>3, <1>4
      <3>3. w \notin req.mixed /\ Floor(w[1]) \notin req.spoilt
        BY <1>4, <1>5, <3>1, <3>2
      <3>4. Count(w) = req.edges[w]
        BY <1>7, <1>9, <2>2
      <3> HIDE DEF whole, inside
      <3> QED
        BY <1>6, <2>2, <3>3, <3>4
    <2>3. CASE w \notin DOMAIN req.edges
      <3>1. Count(w) = Cardinality(Within(cycles, w[1], w[2]))
        BY <1>7, <1>9, <2>3
      <3> QED
        BY <2>1, <3>1
    <2> QED
      BY <2>2, <2>3
  <1> QED
    BY <1>8, <1>9

LEMMA ReqCount ==
  ASSUME CoreInv, ReqInv, NEW w, req # Idle, w \in req.wins, CountWindow(w)
  PROVE  ReqInv'
  <1> DEFINE q == req'
             n == Count(w)
             D == [v \in DOMAIN req.done \cup {w} |-> IF v = w THEN n ELSE req.done[v]]
  <1>1. /\ req.pc = "answer" /\ cycles' = cycles /\ rows' = rows /\ behind' = behind
        /\ w \notin DOMAIN req.done
        /\ q = [req EXCEPT !.done = [v \in DOMAIN @ \cup {w} |-> IF v = w THEN n ELSE @[v]]]
    BY DEF CountWindow, At
  <1>2. /\ IsReq(req) /\ req.at \in Int /\ req.touched \in BOOLEAN /\ behind \subseteq req.spoilt
        /\ HadOk(cycles, req) /\ WinsOk(req) /\ CovOk(rows, req) /\ ExtentOk(req)
        /\ BucketsOk(cycles, req) /\ EdgesOk(cycles, req) /\ DoneOk(cycles, req)
    BY <1>1 DEF ReqInv, ReqOk
  <1>3. req.cov # <<>>
    BY <1>1, <1>2 DEF DoneOk
  <1>4. ExcusedBy(cycles, req, w) \/ Brackets(cycles, req.had, w, n)
    BY <1>1, <1>3, CountBrackets
  <1> HIDE DEF n
  <1>5. /\ SameReq(req, q) /\ q.pc = "answer" /\ q.done = D /\ q.edges = req.edges
        /\ q.mixed = req.mixed /\ q.buckets = req.buckets /\ q.spoilt = req.spoilt
        /\ q.touched = req.touched
    BY <1>1, <1>2 DEF IsReq, SameReq
  <1> HIDE DEF q
  <1>6. /\ IsReq(q) /\ q.at = req.at /\ q.had = req.had /\ q.last = req.last /\ q.wins = req.wins
        /\ q.cov = req.cov /\ q.left = req.left /\ q.right = req.right
    BY <1>5 DEF SameReq
  <1>7. DOMAIN D = DOMAIN req.done \cup {w}
        /\ \A v \in DOMAIN D : D[v] = IF v = w THEN n ELSE req.done[v]
    OBVIOUS
  <1> HIDE DEF D
  <1>8. HadOk(cycles, q) /\ WinsOk(q) /\ CovOk(rows, q) /\ HeadsOk(cycles, q)
    BY <1>1, <1>2, <1>3, <1>5, <1>6 DEF HadOk, WinsOk, CovOk, HeadsOk
  <1>9. Sought(q) <=> Sought(req)
    BY <1>1, <1>5, <1>6 DEF Sought
  <1>10. ExtentOk(q)
    BY <1>2, <1>6, <1>9 DEF ExtentOk
  <1>11. BucketsOk(cycles, q)
    <2>1. \A h : Inside(q, h) <=> Inside(req, h)
      BY <1>5, SameWanted
    <2> QED
      BY <1>1, <1>2, <1>5, <1>6, <1>9, <2>1 DEF BucketsOk
  <1>12. EdgesOk(cycles, q)
    <2>1. WantedBy(q) = WantedBy(req) /\ DerivedBy(q) = DerivedBy(req)
      BY <1>5, SameWanted
    <2> QED
      BY <1>1, <1>2, <1>5, <1>6, <1>9, <2>1 DEF EdgesOk
  <1>13. DoneOk(cycles, q)
    <2>1. \A v : ExcusedBy(cycles, req, v) => ExcusedBy(cycles, q, v)
      BY <1>5, <1>6 DEF ExcusedBy
    <2> QED
      BY <1>2, <1>3, <1>4, <1>5, <1>6, <1>7, <2>1 DEF DoneOk
  <1>14. ReqOk(cycles, rows, behind, q)
    BY <1>2, <1>5, <1>6, <1>8, <1>10, <1>11, <1>12, <1>13 DEF ReqOk
  <1> QED
    BY <1>1, <1>14 DEF ReqInv, q

\* The cycles up to the last of the key were there when the request began.
LEMMA ReqAnswer ==
  ASSUME CoreInv, ReqInv, MemoInv, AnswerOee
  PROVE  /\ ReqInv' /\ MemoInv' /\ \A a \in answers' : Answered(a)
         /\ cycles' = cycles /\ rows' = rows /\ fill' = fill /\ behind' = behind
  <1>1. /\ req # Idle /\ DOMAIN req.done = req.wins /\ req' = Idle
        /\ cycles' = cycles /\ rows' = rows /\ fill' = fill /\ behind' = behind
    BY DEF AnswerOee
  <1>2. HadOk(cycles, req) /\ DoneOk(cycles, req) /\ req.touched \in BOOLEAN
    BY <1>1 DEF ReqInv, ReqOk
  <1>3. IsFiniteSet(cycles) /\ IsFiniteSet(req.had)
    BY <1>2, FS_Subset DEF CoreInv, CyclesOk, HadOk
  <1>4. ASSUME NEW w \in req.wins, ~Excused(w)
        PROVE  Brackets(cycles, req.had, w, req.done[w])
    BY <1>1, <1>2, <1>4, ReqIs DEF DoneOk
  <1>5. ASSUME NEW a \in answers'
        PROVE  Answered(a)
    <2>1. PICK w \in req.wins :
             a = [w |-> w, n |-> req.done[w], least |-> Tally(req.had, w[1], w[2]),
                  most |-> Direct(w[1], w[2]), excused |-> Excused(w)]
      BY <1>5 DEF AnswerOee
    <2>2. /\ a.n = req.done[w] /\ a.least = Cardinality(Within(req.had, w[1], w[2]))
          /\ a.most = Cardinality(Within(cycles, w[1], w[2])) /\ a.excused = Excused(w)
      BY <2>1, CountsAre
    <2> QED
      BY <1>4, <2>2 DEF Brackets, Answered
  <1>6. MemoInv'
    <2> DEFINE f == [at |-> req.at, last |-> req.last, print |-> req.print,
                     done |-> req.done, touched |-> req.touched,
                     excused |-> [w \in req.wins |-> Excused(w)]]
    <2>1. \A e \in memo' : e \in memo \/ e = f
      BY DEF AnswerOee
    <2>2. EntryOk(cycles, f)
      <3>1. /\ DOMAIN f = {"at", "last", "print", "done", "touched", "excused"}
            /\ f.last = req.last /\ f.done = req.done /\ f.touched = req.touched
            /\ \A w \in req.wins : f.excused[w] = Excused(w)
        OBVIOUS
      <3> HIDE DEF f
      <3>2. ASSUME NEW w \in req.wins, ~req.touched, ~Excused(w)
            PROVE  Brackets(cycles, Upto(cycles, req.last), w, req.done[w])
        <4>1. Brackets(cycles, req.had, w, req.done[w])
          BY <1>4, <3>2
        <4>2. Upto(cycles, req.last) \subseteq req.had
          BY <1>2, <3>2 DEF HadOk, Upto
        <4>3. /\ Within(Upto(cycles, req.last), w[1], w[2]) \subseteq Within(req.had, w[1], w[2])
              /\ Within(req.had, w[1], w[2]) \subseteq req.had
          BY <4>2 DEF Within
        <4>4. IsFiniteSet(Within(req.had, w[1], w[2]))
          BY <1>3, <4>3, FS_Subset
        <4>5. /\ Cardinality(Within(Upto(cycles, req.last), w[1], w[2])) \in Nat
              /\ Cardinality(Within(req.had, w[1], w[2])) \in Nat
              /\ Cardinality(Within(Upto(cycles, req.last), w[1], w[2]))
                   <= Cardinality(Within(req.had, w[1], w[2]))
          BY <4>3, <4>4, Fewer
        <4>6. /\ req.done[w] \in Nat
              /\ Cardinality(Within(req.had, w[1], w[2])) <= req.done[w]
              /\ req.done[w] <= Cardinality(Within(cycles, w[1], w[2]))
          BY <4>1 DEF Brackets
        <4>7. Cardinality(Within(Upto(cycles, req.last), w[1], w[2])) <= req.done[w]
          BY <4>5, <4>6
        <4> QED
          BY <4>6, <4>7 DEF Brackets
      <3> QED
        BY <1>1, <1>2, <3>1, <3>2 DEF EntryOk
    <2> QED
      BY <1>1, <2>1, <2>2 DEF MemoInv
  <1>7. ReqInv'
    BY <1>1 DEF ReqInv, ReqOk
  <1> QED
    BY <1>1, <1>5, <1>6, <1>7

LEMMA StatementsLeave ==
  ASSUME \/ PlanSeries \/ ReadCoverage \/ ReadExtent \/ ReadBuckets
         \/ ReadEdges \/ ReadHours \/ ReadAgain
         \/ \E w \in (IF req = Idle THEN {} ELSE req.wins) : CountWindow(w)
  PROVE  UNCHANGED <<cycles, rows, fill, memo, behind, answers>>
  <1>1. \E pc : At(pc)
    BY DEF PlanSeries, ReadCoverage, ReadExtent, ReadBuckets, ReadEdges, ReadHours, ReadAgain,
           CountWindow
  <1> QED
    BY <1>1 DEF At

LEMMA OeeSame ==
  ASSUME OeeInv, UNCHANGED <<cycles, rows, fill, req, memo, behind, answers>>
  PROVE  OeeInv'
  BY DEF OeeInv, BehindInv, ReqInv, MemoInv

LEMMA RollupOee ==
  ASSUME CoreInv, OeeInv, RollupNext
  PROVE  OeeInv'
  <1>1. BehindInv /\ ReqInv /\ MemoInv /\ \A a \in answers : Answered(a)
    BY DEF OeeInv
  <1>2. ASSUME NEW c \in scope.cycles \ cycles, Arrive(c)
        PROVE  OeeInv'
    <2>1. c \in scope.cycles
      OBVIOUS
    <2>2. BehindInv'
      BY <1>1, <1>2, <2>1, ArriveBehind
    <2>3. ReqInv' /\ MemoInv'
      BY <1>1, <1>2, <2>1, ReqArrive
    <2>4. answers' = answers
      BY <1>2 DEF Arrive
    <2> QED
      BY <1>1, <2>2, <2>3, <2>4 DEF OeeInv
  <1>3. ASSUME \/ \E since_last \in BOOLEAN : FillBegin(since_last)
               \/ FillPiece \/ FillCommit \/ FillAbort
        PROVE  OeeInv'
    <2>1. BehindInv'
      BY <1>1, <1>3, FillBehind
    <2>2. ReqInv' /\ MemoInv' /\ answers' = answers
      BY <1>1, <1>3, ReqFill
    <2> QED
      BY <1>1, <2>1, <2>2 DEF OeeInv
  <1>4. ASSUME NEW at \in scope.ats, AskOee(at) \/ AskSeries(at)
        PROVE  OeeInv'
    <2>1. ReqInv' /\ BehindInv' = BehindInv /\ memo' = memo /\ cycles' = cycles /\ answers' = {}
      BY <1>4, ReqAsked
    <2> QED
      BY <1>1, <2>1 DEF OeeInv, MemoInv
  <1>5. CASE LookUp
    <2>1. UNCHANGED <<cycles, rows, fill, behind, memo>>
      BY <1>5 DEF LookUp
    <2>2. ReqInv' /\ ((\A a \in answers : Answered(a)) => \A a \in answers' : Answered(a))
      BY <1>1, <1>5, ReqLookUp
    <2> QED
      BY <1>1, <2>1, <2>2 DEF OeeInv, BehindInv, MemoInv
  <1>6. CASE \/ PlanSeries \/ ReadCoverage \/ ReadExtent \/ ReadBuckets
             \/ ReadEdges \/ ReadHours \/ ReadAgain
             \/ \E w \in (IF req = Idle THEN {} ELSE req.wins) : CountWindow(w)
    <2>1. UNCHANGED <<cycles, rows, fill, memo, behind, answers>>
      BY <1>6, StatementsLeave
    <2>2. ASSUME NEW w \in (IF req = Idle THEN {} ELSE req.wins), CountWindow(w)
          PROVE  ReqInv'
      <3>1. req # Idle /\ w \in req.wins
        BY <2>2
      <3> QED
        BY <1>1, <2>2, <3>1, ReqCount
    <2>3. ReqInv'
      BY <1>1, <1>6, <2>2, ReqPlan, ReqCoverage, ReqExtent, ReqBuckets, ReqEdges, ReqHours,
         ReqAgain
    <2> QED
      BY <1>1, <2>1, <2>3 DEF OeeInv, BehindInv, MemoInv
  <1>7. CASE AnswerOee
    <2>1. /\ ReqInv' /\ MemoInv' /\ \A a \in answers' : Answered(a)
          /\ cycles' = cycles /\ rows' = rows /\ fill' = fill /\ behind' = behind
      BY <1>1, <1>7, ReqAnswer
    <2> QED
      BY <1>1, <2>1 DEF OeeInv, BehindInv
  <1> QED
    BY <1>2, <1>3, <1>4, <1>5, <1>6, <1>7 DEF RollupNext

LEMMA OeeInit == ReadingsInit => OeeInv
  <1> SUFFICES ASSUME ReadingsInit
               PROVE  OeeInv
    OBVIOUS
  <1>1. /\ cycles = {} /\ rows = <<>> /\ fill = Idle /\ req = Idle /\ memo = {}
        /\ behind = {} /\ answers = {}
    BY DEF ReadingsInit, VerdictInit, Init
  <1>2. DOMAIN rows = {}
    BY <1>1
  <1>3. BehindInv
    BY <1>1, <1>2 DEF BehindInv, BehindOk, ExactBut, Between
  <1> QED
    BY <1>1, <1>3 DEF OeeInv, ReqInv, ReqOk, MemoInv

\* The other steps of the verdicts leave the OEE routes alone.
LEMMA VerdictOthers ==
  ASSUME VerdictNext, ~RollupStep
  PROVE  UNCHANGED <<cycles, rows, fill, req, memo, behind, answers>>
  <1>1. ASSUME UNCHANGED rollupVars
        PROVE  UNCHANGED <<cycles, rows, fill, req, memo, behind, answers>>
    BY <1>1 DEF rollupVars
  <1>2. CASE MakeBegin \/ MakeSeries \/ MakeRows \/ MakeCommit \/ MakeAbort
    BY <1>1, <1>2 DEF MakeBegin, MakeSeries, MakeRows, MakeCommit, MakeAbort
  <1>3. ASSUME NEW p \in Prices, ChangePolicy(p)
        PROVE  UNCHANGED <<cycles, rows, fill, req, memo, behind, answers>>
    BY <1>1, <1>3 DEF ChangePolicy
  <1>4. ASSUME NEW at, AskVerdict(at)
        PROVE  UNCHANGED <<cycles, rows, fill, req, memo, behind, answers>>
    BY <1>4 DEF AskVerdict
  <1>5. CASE \/ ReadPolicy \/ ReadReach \/ ReadPrints \/ ReadInside
             \/ ReadRows \/ ReadStory \/ ReadSeries \/ Compute
    BY <1>1, <1>5 DEF ReadPolicy, ReadReach, ReadPrints, ReadInside, ReadRows, ReadStory,
                      ReadSeries, Compute, Fresh, Reading
  <1> QED
    BY <1>2, <1>3, <1>4, <1>5 DEF VerdictNext

LEMMA OeeNext ==
  ASSUME CoreInv, OeeInv, [Next]_allVars
  PROVE  OeeInv'
  <1>1. CASE RollupNext
    BY <1>1, RollupOee
  <1>2. CASE VerdictNext /\ ~RollupNext
    BY <1>2, VerdictOthers, OeeSame DEF RollupStep
  <1>3. CASE ReadingNext
    <2>1. UNCHANGED <<cycles, rows, fill, req, memo, behind, answers>>
      BY <1>3, ReadingOthers DEF coreVars
    <2> QED
      BY <2>1, OeeSame
  <1>4. CASE RestartApi
    <2>1. /\ UNCHANGED <<cycles, rows, fill, behind>>
          /\ req' = Idle /\ memo' = {} /\ answers' = {}
      BY <1>4 DEF RestartApi, RestartOee
    <2> QED
      BY <2>1 DEF OeeInv, BehindInv, ReqInv, ReqOk, MemoInv
  <1>5. CASE UNCHANGED allVars
    <2>1. UNCHANGED <<cycles, rows, fill, req, memo, behind, answers>>
      BY <1>5 DEF allVars, vars, rollupVars
    <2> QED
      BY <2>1, OeeSame
  <1> QED
    BY <1>1, <1>2, <1>3, <1>4, <1>5 DEF Next

-----------------------------------------------------------------------------
(* Buckets of an hour or a day                                                *)

Multiple(t, g) == \E k \in Int : t = k * g

LEMMA GrainIs ==
  ASSUME NEW g \in {PerHour, Day}
  PROVE  g \in Nat /\ g > 0 /\ Multiple(g, PerHour)
  <1>1. PerHour \in Nat /\ PerHour > 0 /\ Day \in Nat /\ Day > 0 /\ Day % PerHour = 0
    BY PerHourIs, ReadingsAssumption
  <1>2. Multiple(PerHour, PerHour)
    <2>1. PerHour = 1 * PerHour
      BY <1>1
    <2> QED
      BY <2>1 DEF Multiple
  <1>3. Multiple(Day, PerHour)
    <2> DEFINE k == Day \div PerHour
    <2>1. k \in Int /\ Day = k * PerHour
      BY <1>1
    <2> QED
      BY <2>1 DEF Multiple
  <1> QED
    BY <1>1, <1>2, <1>3

LEMMA MultipleHour ==
  ASSUME NEW t \in Int, NEW g \in {PerHour, Day}, Multiple(t, g)
  PROVE  Floor(t) = t
  <1>1. PICK k \in Int : t = k * g
    BY DEF Multiple
  <1>2. PICK m \in Int : g = m * PerHour
    BY GrainIs DEF Multiple
  <1>3. t = (k * m) * PerHour /\ k * m \in Int
    BY <1>1, <1>2, PerHourIs
  <1> DEFINE i == k * m
  <1>4. i \in Int /\ t = i * PerHour
    BY <1>3
  <1> HIDE DEF i
  <1> QED
    BY <1>4, HourIndex

LEMMA FloorToIs ==
  ASSUME NEW t \in Int, NEW g \in {PerHour, Day}
  PROVE  /\ FloorTo(t, g) \in Int /\ Multiple(FloorTo(t, g), g)
         /\ FloorTo(t, g) <= t /\ t < FloorTo(t, g) + g
  <1>1. g \in Nat /\ g > 0
    BY GrainIs
  <1>2. t \div g \in Int /\ (t \div g) * g <= t /\ t < (t \div g) * g + g
    BY <1>1, DivBounds
  <1>3. FloorTo(t, g) = (t \div g) * g
    BY DEF FloorTo
  <1>4. (t \div g) * g \in Int
    BY <1>1, <1>2
  <1> QED
    BY <1>2, <1>3, <1>4 DEF Multiple

LEMMA CeilToIs ==
  ASSUME NEW t \in Int, NEW g \in {PerHour, Day}
  PROVE  CeilTo(t, g) \in Int /\ Multiple(CeilTo(t, g), g) /\ t <= CeilTo(t, g)
  <1>1. g \in Nat /\ g > 0
    BY GrainIs
  <1> DEFINE f == FloorTo(t, g)
  <1>2. f \in Int /\ Multiple(f, g) /\ f <= t /\ t < f + g
    BY FloorToIs
  <1>3. CeilTo(t, g) = IF f = t THEN t ELSE f + g
    BY DEF CeilTo
  <1> HIDE DEF f
  <1>4. Multiple(f + g, g)
    <2>1. PICK k \in Int : f = k * g
      BY <1>2 DEF Multiple
    <2>2. f + g = (k + 1) * g /\ k + 1 \in Int
      BY <1>1, <2>1
    <2> QED
      BY <2>2 DEF Multiple
  <1> QED
    BY <1>1, <1>2, <1>3, <1>4

\* The windows of lo..hi: whole hours, side by side.
LEMMA BucketsAre ==
  ASSUME NEW g \in {PerHour, Day}, NEW lo \in Int, NEW hi \in Int,
         Multiple(lo, g), Multiple(hi, g)
  PROVE  LET W == Buckets(lo, hi, g)
         IN /\ IsFiniteSet(W)
            /\ \A w \in W : /\ IsWindow(w) /\ Floor(w[1]) = w[1] /\ Floor(w[2]) = w[2]
                            /\ lo <= w[1] /\ w[1] < w[2] /\ w[2] <= hi
            /\ \A w, x \in W : w = x \/ w[2] <= x[1] \/ x[2] <= w[1]
            /\ \A t \in Int : lo <= t /\ t < hi => \E w \in W : w[1] <= t /\ t < w[2]
  <1> DEFINE W == Buckets(lo, hi, g)
             T == {u \in lo..(hi - 1) : (u - lo) % g = 0}
  <1>1. g \in Nat /\ g > 0
    BY GrainIs
  <1>2. PICK i \in Int : lo = i * g
    BY DEF Multiple
  <1>3. PICK j \in Int : hi = j * g
    BY DEF Multiple
  <1>4. ASSUME NEW u \in T
        PROVE  u \in Int /\ lo <= u /\ u < hi /\ \E k \in Int : u = k * g
    <2>1. u \in Int /\ lo <= u /\ u < hi /\ (u - lo) % g = 0
      OBVIOUS
    <2> DEFINE q == (u - lo) \div g
    <2>2. q \in Int /\ u - lo = q * g
      BY <1>1, <2>1
    <2> HIDE DEF q
    <2>3. u = (i + q) * g /\ i + q \in Int
      BY <1>1, <1>2, <2>1, <2>2
    <2> QED
      BY <2>1, <2>3
  <1>5. ASSUME NEW k \in Int, lo <= k * g, k * g < hi
        PROVE  k * g \in T
    <2>1. k * g \in Int /\ k * g - lo = (k - i) * g /\ k - i \in Int
      BY <1>1, <1>2
    <2> DEFINE d == k - i
               a == d * g
    <2>2. a % g = 0
      <3>1. d \in Int /\ a \in Int /\ a = d * g /\ a \div g \in Int
            /\ (a \div g) * g <= a /\ a < (a \div g) * g + g
        BY <1>1, <2>1, DivBounds
      <3> DEFINE e == a \div g
      <3>2. e = d
        <4>1. e \in Int /\ d \in Int /\ e * g <= d * g /\ d * g < e * g + g
          BY <3>1
        <4> HIDE DEF e, d, a
        <4>2. ~(e < d)
          BY <1>1, <4>1, Multiples
        <4>3. ~(d < e)
          BY <1>1, <4>1, Multiples
        <4> QED
          BY <4>1, <4>2, <4>3
      <3>3. a % g = a - e * g
        <4> HIDE DEF d
        <4> QED
          BY <1>1, <3>1
      <3> HIDE DEF e, d
      <3> QED
        BY <3>1, <3>2, <3>3
    <2> QED
      BY <1>5, <2>1, <2>2
  <1>6. W = {<<t, t + g>> : t \in T}
    BY DEF Buckets
  <1> HIDE DEF W, T
  <1>7. IsFiniteSet(W)
    <2>1. T \subseteq lo..(hi - 1) /\ IsFiniteSet(lo..(hi - 1))
      BY FS_Interval DEF T
    <2>2. IsFiniteSet(T)
      BY <2>1, FS_Subset
    <2> DEFINE f == [t \in T |-> <<t, t + g>>]
    <2>3. f \in Surjection(T, W)
      <3>1. f \in [T -> W] /\ \A w \in W : \E t \in T : f[t] = w
        BY <1>6
      <3> QED
        BY <3>1 DEF Surjection
    <2> HIDE DEF f
    <2> QED
      BY <2>2, <2>3, FS_Surjection
  <1>8. ASSUME NEW w \in W
        PROVE  \E k \in Int : /\ w = <<k * g, k * g + g>> /\ w[1] = k * g /\ w[2] = k * g + g
                              /\ k * g \in Int /\ lo <= k * g /\ k * g + g <= hi
    <2>1. PICK t \in T : w = <<t, t + g>>
      BY <1>6
    <2>2. PICK k \in Int : t = k * g
      BY <1>4
    <2>3. lo <= t /\ t < hi /\ t \in Int
      BY <1>4
    <2>4. k < j
      <3> SUFFICES ASSUME ~(k < j) PROVE FALSE
        OBVIOUS
      <3>1. j < k \/ j = k
        BY <3>1
      <3>2. j < k => j * g + g <= k * g
        BY <1>1, Multiples
      <3>3. j * g \in Int
        BY <1>1
      <3> QED
        BY <1>1, <1>3, <2>2, <2>3, <3>1, <3>2, <3>3
    <2>5. k * g + g <= j * g
      BY <1>1, <2>4, Multiples
    <2> QED
      BY <1>3, <2>1, <2>2, <2>3, <2>5
  <1>9. ASSUME NEW w \in W
        PROVE  /\ IsWindow(w) /\ Floor(w[1]) = w[1] /\ Floor(w[2]) = w[2]
               /\ lo <= w[1] /\ w[1] < w[2] /\ w[2] <= hi
    <2>1. PICK k \in Int : /\ w = <<k * g, k * g + g>> /\ w[1] = k * g /\ w[2] = k * g + g
                           /\ k * g \in Int /\ lo <= k * g /\ k * g + g <= hi
      BY <1>8
    <2>2. k * g + g = (k + 1) * g /\ k + 1 \in Int
      BY <1>1
    <2>3. Multiple(w[1], g) /\ Multiple(w[2], g)
      BY <2>1, <2>2 DEF Multiple
    <2>4. w[1] \in Int /\ w[2] \in Int
      BY <1>1, <2>1
    <2>5. w = <<w[1], w[2]>> /\ lo <= w[1] /\ w[1] < w[2] /\ w[2] <= hi
      BY <1>1, <2>1
    <2> QED
      BY <2>3, <2>4, <2>5, MultipleHour DEF IsWindow
  <1>10. ASSUME NEW w \in W, NEW x \in W
         PROVE  w = x \/ w[2] <= x[1] \/ x[2] <= w[1]
    <2>1. PICK k \in Int : w = <<k * g, k * g + g>> /\ w[1] = k * g /\ w[2] = k * g + g
      BY <1>8
    <2>2. PICK m \in Int : x = <<m * g, m * g + g>> /\ x[1] = m * g /\ x[2] = m * g + g
      BY <1>8
    <2>3. k = m \/ k < m \/ m < k
      OBVIOUS
    <2> QED
      BY <1>1, <2>1, <2>2, <2>3, Multiples
  <1>11. ASSUME NEW t \in Int, lo <= t, t < hi
         PROVE  \E w \in W : w[1] <= t /\ t < w[2]
    <2> DEFINE k == t \div g
    <2>1. k \in Int /\ k * g <= t /\ t < k * g + g
      BY <1>1, DivBounds
    <2> HIDE DEF k
    <2>2. ~(k < i)
      <3> SUFFICES ASSUME k < i PROVE FALSE
        OBVIOUS
      <3>1. k * g + g <= i * g
        BY <1>1, <2>1, Multiples
      <3>2. k * g \in Int
        BY <1>1, <2>1
      <3> QED
        BY <1>1, <1>2, <1>11, <2>1, <3>1, <3>2
    <2>3. i * g <= k * g
      <3>1. i = k \/ i < k
        BY <2>1, <2>2
      <3>2. k * g \in Int /\ i * g \in Int
        BY <1>1, <2>1
      <3>3. i < k => i * g + g <= k * g
        BY <1>1, <2>1, Multiples
      <3> QED
        BY <1>1, <3>1, <3>2, <3>3
    <2>4. k * g \in Int /\ lo <= k * g /\ k * g < hi
      BY <1>1, <1>2, <1>11, <2>1, <2>3
    <2>5. <<k * g, k * g + g>> \in W
      BY <1>5, <1>6, <2>1, <2>4
    <2> DEFINE w == <<k * g, k * g + g>>
    <2>6. w \in W /\ w[1] <= t /\ t < w[2]
      BY <2>1, <2>5
    <2> QED
      BY <2>6
  <1> QED
    BY <1>7, <1>9, <1>10, <1>11 DEF W

-----------------------------------------------------------------------------
(* The statements of a request of the other routes                            *)

PieceRec == [from : {"rows", "cycles"}, lo : Int, hi : Int]

\* t is in a piece yet to be read.
Awaits(todo, t) == \E i \in DOMAIN todo : todo[i].lo <= t /\ t < todo[i].hi

LEMMA PieceIs ==
  ASSUME NEW from \in {"rows", "cycles"}, NEW lo \in Int, NEW hi \in Int
  PROVE  /\ Piece(from, lo, hi) \in PieceRec /\ Piece(from, lo, hi).from = from
         /\ Piece(from, lo, hi).lo = lo /\ Piece(from, lo, hi).hi = hi
  BY DEF Piece, PieceRec

LEMMA TodoIs ==
  ASSUME NEW todo \in Seq(PieceRec), todo # <<>>
  PROVE  /\ Head(todo) \in PieceRec /\ Tail(todo) \in Seq(PieceRec)
         /\ Head(todo) = todo[1] /\ 1 \in DOMAIN todo /\ DOMAIN todo \subseteq Int
         /\ \A i \in DOMAIN Tail(todo) : i \in Int /\ i >= 1 /\ i + 1 \in DOMAIN todo
                                         /\ Tail(todo)[i] = todo[i + 1]
         /\ \A i \in DOMAIN todo : i = 1 \/ (i - 1 \in DOMAIN Tail(todo)
                                             /\ Tail(todo)[i - 1] = todo[i])
         /\ Tail(todo) # <<>> => Head(Tail(todo)) = todo[2] /\ 2 \in DOMAIN todo
         /\ Len(todo) \in Nat /\ (Tail(todo) # <<>> <=> Len(todo) > 1)
  <1>1. /\ Head(todo) \in PieceRec /\ Tail(todo) \in Seq(PieceRec)
        /\ Len(Tail(todo)) = Len(todo) - 1
        /\ \A i \in 1..Len(Tail(todo)) : Tail(todo)[i] = todo[i + 1]
    BY HeadTailProperties
  <1>2. DOMAIN todo = 1..Len(todo) /\ Len(todo) \in Nat /\ Len(todo) # 0
    BY LenProperties, EmptySeq
  <1>3. DOMAIN Tail(todo) = 1..Len(Tail(todo)) /\ Len(Tail(todo)) \in Nat
    BY <1>1, LenProperties
  <1>4. Tail(todo) # <<>> <=> Len(Tail(todo)) # 0
    <2> DEFINE s == Tail(todo)
    <2>1. s \in Seq(PieceRec)
      BY <1>1
    <2> HIDE DEF s
    <2>2. s # <<>> <=> Len(s) # 0
      BY <2>1, EmptySeq
    <2> QED
      BY <2>2 DEF s
  <1>5. Head(todo) = todo[1]
    BY DEF Head
  <1>6. Tail(todo) # <<>> => Head(Tail(todo)) = Tail(todo)[1]
    BY DEF Head
  <1> HIDE DEF PieceRec
  <1>7. \A i \in DOMAIN todo : i = 1 \/ (i - 1 \in DOMAIN Tail(todo)
                                         /\ Tail(todo)[i - 1] = todo[i])
    <2> SUFFICES ASSUME NEW i \in DOMAIN todo, i # 1
                 PROVE  i - 1 \in DOMAIN Tail(todo) /\ Tail(todo)[i - 1] = todo[i]
      OBVIOUS
    <2>1. i - 1 \in 1..Len(Tail(todo)) /\ (i - 1) + 1 = i
      BY <1>1, <1>2
    <2> QED
      BY <1>1, <1>3, <2>1
  <1>8. Tail(todo) # <<>> => Head(Tail(todo)) = todo[2] /\ 2 \in DOMAIN todo
    <2> SUFFICES ASSUME Tail(todo) # <<>>
                 PROVE  Head(Tail(todo)) = todo[2] /\ 2 \in DOMAIN todo
      OBVIOUS
    <2>1. 1 \in 1..Len(Tail(todo)) /\ 2 \in 1..Len(todo)
      BY <1>1, <1>2, <1>3, <1>4
    <2>2. Tail(todo)[1] = todo[1 + 1] /\ 1 + 1 = 2
      BY <1>1, <2>1
    <2> QED
      BY <1>2, <1>6, <2>1, <2>2
  <1> QED
    BY <1>1, <1>2, <1>3, <1>4, <1>5, <1>7, <1>8

LEMMA AwaitsHead ==
  ASSUME NEW todo \in Seq(PieceRec), todo # <<>>, NEW t
  PROVE  Awaits(todo, t) <=> (Head(todo).lo <= t /\ t < Head(todo).hi) \/ Awaits(Tail(todo), t)
  <1>1. /\ Head(todo) = todo[1] /\ 1 \in DOMAIN todo
        /\ \A i \in DOMAIN Tail(todo) : i + 1 \in DOMAIN todo /\ Tail(todo)[i] = todo[i + 1]
        /\ \A i \in DOMAIN todo : i = 1 \/ (i - 1 \in DOMAIN Tail(todo)
                                            /\ Tail(todo)[i - 1] = todo[i])
    BY TodoIs
  <1> QED
    BY <1>1 DEF Awaits

LEMMA NoneAwaits == \A t : ~Awaits(<<>>, t)
  <1>1. DOMAIN <<>> = {}
    OBVIOUS
  <1> QED
    BY <1>1 DEF Awaits

LEMMA PrependIs ==
  ASSUME NEW p \in PieceRec, NEW s \in Seq(PieceRec)
  PROVE  /\ <<p>> \o s \in Seq(PieceRec) /\ <<p>> \o s # <<>>
         /\ Head(<<p>> \o s) = p /\ Tail(<<p>> \o s) = s
  <1> DEFINE X == <<p>> \o s
  <1>1. <<p>> \in Seq(PieceRec) /\ Len(<<p>>) = 1 /\ <<p>>[1] = p
    OBVIOUS
  <1> HIDE DEF PieceRec
  <1>2. /\ X \in Seq(PieceRec) /\ Len(X) = 1 + Len(s)
        /\ \A i \in 1..(1 + Len(s)) : X[i] = IF i <= 1 THEN <<p>>[i] ELSE s[i - 1]
    <2>1. /\ X \in Seq(PieceRec) /\ Len(X) = Len(<<p>>) + Len(s)
          /\ \A i \in 1..(Len(<<p>>) + Len(s)) :
               X[i] = IF i <= Len(<<p>>) THEN <<p>>[i] ELSE s[i - Len(<<p>>)]
      BY <1>1, ConcatProperties
    <2> QED
      BY <1>1, <2>1
  <1>3. Len(s) \in Nat
    BY LenProperties
  <1> HIDE DEF X
  <1>4. X # <<>>
    BY <1>2, <1>3, EmptySeq
  <1>5. Head(X) = p
    <2>1. Head(X) = X[1]
      BY DEF Head
    <2> QED
      BY <1>1, <1>2, <1>3, <2>1
  <1>6. /\ Tail(X) \in Seq(PieceRec) /\ Len(Tail(X)) = Len(X) - 1
        /\ \A i \in 1..Len(Tail(X)) : Tail(X)[i] = X[i + 1]
    BY <1>2, <1>4, HeadTailProperties
  <1>7. Len(Tail(X)) = Len(s)
    BY <1>2, <1>3, <1>6
  <1>8. \A i \in 1..Len(s) : Tail(X)[i] = s[i]
    <2> SUFFICES ASSUME NEW i \in 1..Len(s)
                 PROVE  Tail(X)[i] = s[i]
      OBVIOUS
    <2>1. i \in Int /\ i + 1 \in 1..(1 + Len(s)) /\ ~(i + 1 <= 1) /\ (i + 1) - 1 = i
      BY <1>3
    <2>2. X[i + 1] = s[i]
      BY <1>2, <2>1
    <2>3. Tail(X)[i] = X[i + 1]
      BY <1>6, <1>7
    <2> QED
      BY <2>2, <2>3
  <1>9. Tail(X) = s
    <2> DEFINE u == Tail(X)
    <2>1. u \in Seq(PieceRec) /\ Len(u) = Len(s) /\ \A i \in 1..Len(u) : u[i] = s[i]
      BY <1>6, <1>7, <1>8
    <2> HIDE DEF u
    <2>2. u = s
      BY <2>1, SeqEqual
    <2> QED
      BY <2>2 DEF u
  <1> QED
    BY <1>2, <1>4, <1>5, <1>9 DEF X

LEMMA OnePiece ==
  ASSUME NEW p \in PieceRec
  PROVE  /\ <<p>> \in Seq(PieceRec) /\ <<p>> # <<>> /\ Head(<<p>>) = p /\ Tail(<<p>>) = <<>>
         /\ DOMAIN <<p>> = {1} /\ <<p>>[1] = p
         /\ \A t : Awaits(<<p>>, t) <=> p.lo <= t /\ t < p.hi
  <1>1. <<p>> \in Seq(PieceRec) /\ <<p>> # <<>> /\ DOMAIN <<p>> = {1} /\ <<p>>[1] = p
        /\ Head(<<p>>) = p
    OBVIOUS
  <1>2. <<>> \in Seq(PieceRec)
    BY EmptySeq
  <1> HIDE DEF PieceRec
  <1>3. <<p>> \o <<>> = <<p>>
    BY <1>1, ConcatEmptySeq
  <1>4. Tail(<<p>> \o <<>>) = <<>>
    BY <1>2, PrependIs
  <1> QED
    BY <1>1, <1>3, <1>4 DEF Awaits

\* The whole hours of a window, and its edges as pieces.
CovIs(cov) == cov # <<>> => cov[1] \in Int /\ cov[2] \in Int
EdgePieces(lo, hi, cov) ==
  LET out == Uncovered(lo, hi, cov)
  IN [i \in DOMAIN out |-> Piece("cycles", out[i][1], out[i][2])]

LEMMA MidIs ==
  ASSUME NEW lo \in Int, NEW hi \in Int, NEW cov, CovIs(cov)
  PROVE  LET mid == WholeHours(lo, hi, cov)
         IN /\ mid[1] \in Int /\ mid[2] \in Int
            /\ mid[2] > mid[1] =>
                 /\ cov # <<>> /\ lo <= mid[1] /\ mid[2] <= hi
                 /\ cov[1] <= mid[1] /\ mid[2] <= cov[2]
                 /\ Floor(mid[1]) = mid[1] /\ Floor(mid[2]) = mid[2]
  <1> DEFINE mid == WholeHours(lo, hi, cov)
  <1>1. CASE cov = <<>>
    <2>1. mid = <<lo, lo>>
      BY <1>1 DEF WholeHours
    <2> QED
      BY <2>1
  <1>2. CASE cov # <<>>
    <2> DEFINE a == Max({lo, cov[1]})
               b == Min({hi, cov[2]})
    <2>1. cov[1] \in Int /\ cov[2] \in Int
      BY <1>2 DEF CovIs
    <2>2. a = (IF lo <= cov[1] THEN cov[1] ELSE lo) /\ b = IF hi <= cov[2] THEN hi ELSE cov[2]
      BY <2>1, MaxTwo, MinTwo
    <2>3. mid = <<Ceil(a), Floor(b)>>
      BY <1>2 DEF WholeHours
    <2> HIDE DEF a, b, mid
    <2>4. a \in Int /\ b \in Int /\ lo <= a /\ cov[1] <= a /\ b <= hi /\ b <= cov[2]
      BY <2>1, <2>2
    <2>5. /\ Ceil(a) \in Int /\ Floor(Ceil(a)) = Ceil(a) /\ a <= Ceil(a)
          /\ Floor(b) \in Int /\ Floor(Floor(b)) = Floor(b) /\ Floor(b) <= b
      BY <2>4, CeilIs, FloorBounds
    <2>6. mid[1] = Ceil(a) /\ mid[2] = Floor(b)
      BY <2>3
    <2> QED
      BY <1>2, <2>1, <2>4, <2>5, <2>6 DEF mid
  <1> QED
    BY <1>1, <1>2

LEMMA EdgesAre ==
  ASSUME NEW lo \in Int, NEW hi \in Int, NEW cov, CovIs(cov)
  PROVE  LET mid == WholeHours(lo, hi, cov)
             X == EdgePieces(lo, hi, cov)
         IN /\ X \in Seq(PieceRec) /\ \A i \in DOMAIN X : X[i].from = "cycles"
            /\ mid[2] <= mid[1] => X = <<Piece("cycles", lo, hi)>>
            /\ mid[2] > mid[1] =>
                 /\ \A i \in DOMAIN X : \/ X[i].lo = lo /\ X[i].hi = mid[1]
                                        \/ X[i].lo = mid[2] /\ X[i].hi = hi
                 /\ \A i, j \in DOMAIN X : i < j => X[i].hi <= X[j].lo
                 /\ \A t \in Int : lo <= t /\ t < hi /\ ~Awaits(X, t) =>
                      mid[1] <= t /\ t < mid[2]
  <1> DEFINE mid == WholeHours(lo, hi, cov)
             out == Uncovered(lo, hi, cov)
             X == EdgePieces(lo, hi, cov)
             a == mid[1]
             b == mid[2]
             low == Piece("cycles", lo, a)
             high == Piece("cycles", b, hi)
  <1>1. a \in Int /\ b \in Int
    BY MidIs
  <1>2. X = [i \in DOMAIN out |-> Piece("cycles", out[i][1], out[i][2])]
    BY DEF EdgePieces
  <1>3. out = IF b <= a THEN <<<<lo, hi>>>> ELSE Edge(lo, a) \o Edge(b, hi)
    BY DEF Uncovered
  <1>4. /\ low \in PieceRec /\ low.from = "cycles" /\ low.lo = lo /\ low.hi = a
        /\ high \in PieceRec /\ high.from = "cycles" /\ high.lo = b /\ high.hi = hi
    BY <1>1, PieceIs
  <1> HIDE DEF X, out
  <1>5. CASE b <= a
    <2>1. out = <<<<lo, hi>>>>
      BY <1>3, <1>5
    <2>2. DOMAIN out = {1} /\ out[1][1] = lo /\ out[1][2] = hi
      BY <2>1
    <2>3. X = <<Piece("cycles", lo, hi)>>
      BY <1>2, <2>2
    <2>4. Piece("cycles", lo, hi) \in PieceRec /\ Piece("cycles", lo, hi).from = "cycles"
      BY PieceIs
    <2>5. X \in Seq(PieceRec) /\ DOMAIN X = {1} /\ X[1].from = "cycles"
      BY <2>3, <2>4, OnePiece
    <2>6. ~(b > a)
      BY <1>1, <1>5
    <2> QED
      BY <2>3, <2>5, <2>6 DEF X
  <1>6. CASE ~(b <= a)
    <2> HIDE DEF low, high, mid
    <2> SUFFICES /\ X \in Seq(PieceRec) /\ \A i \in DOMAIN X : X[i].from = "cycles"
                 /\ \A i \in DOMAIN X : X[i] = low \/ X[i] = high
                 /\ \A i, j \in DOMAIN X : i < j => X[i] = low /\ X[j] = high
                 /\ lo < a => Awaits(X, lo) /\ \E i \in DOMAIN X : X[i] = low
                 /\ b < hi => \E i \in DOMAIN X : X[i] = high
      <3>1. \A t \in Int : lo <= t /\ t < hi /\ ~Awaits(X, t) => a <= t /\ t < b
        <4> SUFFICES ASSUME NEW t \in Int, lo <= t, t < hi, ~Awaits(X, t)
                     PROVE  a <= t /\ t < b
          OBVIOUS
        <4>1. ~(t < a)
          <5> SUFFICES ASSUME t < a PROVE FALSE
            OBVIOUS
          <5>1. lo < a
            BY <1>1
          <5> QED
            BY <1>4, <5>1 DEF Awaits
        <4>2. ~(b <= t)
          <5> SUFFICES ASSUME b <= t PROVE FALSE
            OBVIOUS
          <5>1. b < hi
            BY <1>1
          <5> QED
            BY <1>4, <5>1 DEF Awaits
        <4> QED
          BY <1>1, <4>1, <4>2
      <3>2. \A i \in DOMAIN X : \/ X[i].lo = lo /\ X[i].hi = a
                                \/ X[i].lo = b /\ X[i].hi = hi
        BY <1>4
      <3>3. \A i, j \in DOMAIN X : i < j => X[i].hi <= X[j].lo
        BY <1>1, <1>4, <1>6
      <3> QED
        BY <1>6, <3>1, <3>2, <3>3 DEF X, mid
    <2>1. out = Edge(lo, a) \o Edge(b, hi)
      BY <1>3, <1>6
    <2>2. low = Piece("cycles", lo, a) /\ high = Piece("cycles", b, hi)
      BY DEF low, high
    <2>3. lo < a /\ low \in {X[i] : i \in DOMAIN X} => Awaits(X, lo)
      BY <1>1, <1>4 DEF Awaits
    <2>4. CASE lo < a /\ b < hi
      <3> DEFINE p == <<lo, a>>
                 q == <<b, hi>>
      <3>1. out = <<p>> \o <<q>>
        BY <2>1, <2>4 DEF Edge
      <3> HIDE DEF p, q
      <3>2. DOMAIN out = {1, 2} /\ out[1] = p /\ out[2] = q
        <4>1. /\ <<p>> \in Seq({p, q}) /\ <<q>> \in Seq({p, q})
              /\ Len(<<p>>) = 1 /\ Len(<<q>>) = 1 /\ <<p>>[1] = p /\ <<q>>[1] = q
          OBVIOUS
        <4>2. /\ out \in Seq({p, q}) /\ Len(out) = 2
              /\ \A i \in 1..2 : out[i] = IF i <= 1 THEN <<p>>[i] ELSE <<q>>[i - 1]
          <5>1. /\ <<p>> \o <<q>> \in Seq({p, q})
                /\ Len(<<p>> \o <<q>>) = Len(<<p>>) + Len(<<q>>)
                /\ \A i \in 1..(Len(<<p>>) + Len(<<q>>)) : (<<p>> \o <<q>>)[i] =
                     IF i <= Len(<<p>>) THEN <<p>>[i] ELSE <<q>>[i - Len(<<p>>)]
            BY <4>1, ConcatProperties
          <5> QED
            BY <3>1, <4>1, <5>1
        <4>3. DOMAIN out = 1..2
          BY <4>2, LenProperties
        <4> QED
          BY <4>1, <4>2, <4>3
      <3>3. DOMAIN X = {1, 2} /\ X[1] = low /\ X[2] = high
        BY <1>2, <2>2, <3>2 DEF p, q
      <3>4. X = <<low, high>>
        <4>1. X = [i \in {1, 2} |-> IF i = 1 THEN low ELSE high]
          BY <1>2, <2>2, <3>2 DEF p, q
        <4> QED
          BY <4>1
      <3>5. X \in Seq(PieceRec)
        BY <1>4, <3>4
      <3> QED
        BY <1>4, <2>3, <3>3, <3>5
    <2>5. CASE lo < a /\ ~(b < hi)
      <3>1. out = <<<<lo, a>>>>
        BY <2>1, <2>5 DEF Edge
      <3>2. DOMAIN out = {1} /\ out[1] = <<lo, a>>
        BY <3>1
      <3>3. X = <<low>> /\ DOMAIN X = {1} /\ X[1] = low
        BY <1>2, <2>2, <3>2
      <3> QED
        BY <1>4, <2>3, <2>5, <3>3
    <2>6. CASE ~(lo < a) /\ b < hi
      <3>1. out = <<<<b, hi>>>>
        BY <2>1, <2>6 DEF Edge
      <3>2. DOMAIN out = {1} /\ out[1] = <<b, hi>>
        BY <3>1
      <3>3. X = <<high>> /\ DOMAIN X = {1} /\ X[1] = high
        BY <1>2, <2>2, <3>2
      <3> QED
        BY <1>4, <2>6, <3>3
    <2>7. CASE ~(lo < a) /\ ~(b < hi)
      <3>1. out = <<>>
        BY <2>1, <2>7 DEF Edge
      <3>2. DOMAIN out = {}
        BY <3>1
      <3>3. X = <<>> /\ DOMAIN X = {}
        BY <1>2, <3>2
      <3> QED
        BY <2>7, <3>3, EmptySeq
    <2> QED
      BY <2>4, <2>5, <2>6, <2>7
  <1> QED
    BY <1>5, <1>6

-----------------------------------------------------------------------------
(* A request of the other routes, step by step                                *)

IsView(v) ==
  DOMAIN v = {"ask", "pc", "had", "last", "print", "cov", "prior", "todo", "got", "next",
              "whole", "done", "stale", "twice"}

\* The cycles of the window that have been counted.
Seen(X, todo, w) == {c \in X : w[1] <= c.ts /\ c.ts < w[2] /\ ~Awaits(todo, c.ts)}
Covers(C, had, todo, w, n) ==
  n \in Nat /\ Cardinality(Seen(had, todo, w)) <= n /\ n <= Cardinality(Seen(C, todo, w))
Tallied(C, had, todo, got, hours) ==
  \A w \in DOMAIN got : Touches(w, hours) \/ Covers(C, had, todo, w, got[w])

\* The windows do not overlap, nor do the pieces; a profile takes its pieces whole.
WindowsOk(W) ==
  /\ IsFiniteSet(W) /\ \A w \in W : IsWindow(w)
  /\ \A w, x \in W : w = x \/ w[2] <= x[1] \/ x[2] <= w[1]
PiecesOk(kind, W, todo) ==
  /\ todo \in Seq(PieceRec) /\ todo # <<>>
  /\ \A i \in DOMAIN todo : i = 1 \/ todo[i].from = "cycles"
  /\ \A i, j \in DOMAIN todo :
       i < j /\ todo[i].from = "cycles" =>
         todo[i].hi <= todo[j].lo \/ todo[j].hi <= todo[i].lo
  /\ kind = "profile" =>
       \A w \in W, i \in DOMAIN todo : w[1] <= todo[i].lo /\ todo[i].hi <= w[2]
\* A whole is made of the windows, for what had come.
WholeOk(had, W, whole) ==
  whole # <<>> =>
    /\ \A w \in W : whole[1] <= w[1] /\ w[2] <= whole[2]
    /\ whole[1] \in Int /\ whole[2] \in Int
    /\ \A c \in had : whole[1] <= c.ts /\ c.ts < whole[2] =>
         \E w \in W : w[1] <= c.ts /\ c.ts < w[2]
\* Before the buckets are read: they are the hours of their piece; what had come and is
\* not read from cycles has its hour there; and what is read twice is after the coverage.
RowsOf(kind, had, cov, todo, w) ==
  LET s == Share(kind, Head(todo), w)
  IN /\ Floor(s[1]) = s[1] /\ Floor(s[2]) = s[2]
     /\ \A c \in Seen(had, Tail(todo), w) :
          s[1] <= c.ts /\ c.ts < s[2] /\ cov[1] <= c.ts /\ c.ts < cov[2]
     /\ \A h \in Int, t \in Int :
          Floor(h) = h /\ s[1] <= h /\ h < s[2] /\ h <= t /\ t < h + PerHour
          /\ Awaits(Tail(todo), t) => kind = "quality" /\ cov[2] <= h
RowsAhead(kind, had, cov, todo, got) ==
  /\ cov # <<>>
  /\ \A w \in DOMAIN got : got[w] = 0 /\ RowsOf(kind, had, cov, todo, w)
Counting(C, kind, had, cov, todo, got, whole, hours) ==
  /\ WindowsOk(DOMAIN got) /\ PiecesOk(kind, DOMAIN got, todo) /\ WholeOk(had, DOMAIN got, whole)
  /\ Head(todo).from = "rows" => RowsAhead(kind, had, cov, todo, got)
  /\ Head(todo).from = "cycles" => Tallied(C, had, todo, got, hours)

CountsOk(C, had, done) ==
  \A x \in done : /\ DOMAIN x = {"w", "n", "excused"} /\ x.excused \in BOOLEAN
                  /\ x.excused \/ Brackets(C, had, x.w, x.n)

Asked(a) ==
  \/ a.kind = "quality" /\ {a.from, a.to} \subseteq Int /\ a.grain \in {PerHour, Day}
  \/ a.kind = "profile" /\ {a.from, a.to} \subseteq Int
  \/ a.kind = "progression"
  \/ a.kind = "baseline" /\ a.window \in {<<>>} \cup (Int \X Int)

\* What the statements before have found: the extent of the rows, the last cycle.
Found(C, R, v) ==
  /\ v.had \subseteq C /\ v.last \in Int /\ \A c \in v.had : c.ts <= v.last
  /\ v.cov # <<>> => /\ v.cov[1] \in DOMAIN R /\ v.cov[2] - PerHour \in DOMAIN R
                     /\ v.cov[2] \in Int
PlaceOk(v) ==
  /\ v.pc \in {"prior", "sigma"} \/ (v.pc = "last" /\ v.ask.kind = "quality") => v.cov # <<>>
  /\ v.pc \in {"pieces", "cache"} => v.next \in {"answer", "sigma", "window", "spread"}
  /\ v.stale \cup v.twice \subseteq Int
  /\ v.pc \in {"pieces", "cache"} /\ v.next = "sigma" => v.cov # <<>>
  /\ v.pc = "last" /\ v.cov # <<>> /\ ~v.prior => \A c \in v.had : v.cov[1] <= c.ts
  /\ v.ask.kind = "baseline" =>
       v.stale = {} /\ v.twice = {} /\ (v.pc # "answer" => \A x \in v.done : ~x.excused)
ViewOk(C, R, v) ==
  v # Idle =>
    /\ IsView(v) /\ Asked(v.ask) /\ Found(C, R, v) /\ PlaceOk(v)
    /\ v.pc \in {"pieces", "cache"} =>
         Counting(C, v.ask.kind, v.had, v.cov, v.todo, v.got, v.whole, v.stale \cup v.twice)
    /\ CountsOk(C, v.had, v.done)
ViewInv == ViewOk(cycles, rows, view)

RecallInv ==
  \A e \in recall : e.had \subseteq cycles /\ CountsOk(cycles, e.had, e.done)
BaselineInv ==
  baseline # <<>> =>
    baseline.had \subseteq cycles /\ Brackets(cycles, baseline.had, baseline.w, baseline.n)
ViewsInv == ViewInv /\ RecallInv /\ BaselineInv /\ \A a \in shown : Answered(a)

\* More cycles: what was counted stays right.
LEMMA CoversGrow ==
  ASSUME NEW C, NEW D, C \subseteq D, IsFiniteSet(D), NEW had, NEW todo, NEW w, NEW n,
         Covers(C, had, todo, w, n)
  PROVE  Covers(D, had, todo, w, n)
  <1> DEFINE X == Seen(C, todo, w)
             Y == Seen(D, todo, w)
  <1>1. X \subseteq Y /\ Y \subseteq D
    BY DEF Seen
  <1> HIDE DEF X, Y
  <1>2. IsFiniteSet(Y)
    BY <1>1, Fewer
  <1>3. Cardinality(X) \in Nat /\ Cardinality(Y) \in Nat /\ Cardinality(X) <= Cardinality(Y)
    BY <1>1, <1>2, Fewer
  <1>4. /\ n \in Nat /\ Cardinality(Seen(had, todo, w)) <= n /\ n <= Cardinality(X)
    BY DEF Covers, X
  <1>5. n <= Cardinality(Y)
    BY <1>3, <1>4
  <1> QED
    BY <1>4, <1>5 DEF Covers, Y

LEMMA CountsGrow ==
  ASSUME NEW C, NEW D, C \subseteq D, IsFiniteSet(D), NEW had, NEW done, CountsOk(C, had, done)
  PROVE  CountsOk(D, had, done)
  <1>1. \A x \in done : Brackets(C, had, x.w, x.n) => Brackets(D, had, x.w, x.n)
    BY BracketsGrow
  <1> QED
    BY <1>1 DEF CountsOk

LEMMA CountingGrows ==
  ASSUME NEW C, NEW D, C \subseteq D, IsFiniteSet(D), NEW kind, NEW had, NEW cov, NEW todo,
         NEW got, NEW whole, NEW hours, Counting(C, kind, had, cov, todo, got, whole, hours)
  PROVE  Counting(D, kind, had, cov, todo, got, whole, hours)
  <1>1. \A w \in DOMAIN got : Covers(C, had, todo, w, got[w]) => Covers(D, had, todo, w, got[w])
    BY CoversGrow
  <1>2. Tallied(C, had, todo, got, hours) => Tallied(D, had, todo, got, hours)
    BY <1>1 DEF Tallied
  <1> QED
    BY <1>2 DEF Counting

LEMMA ViewGrows ==
  ASSUME NEW C, NEW D, C \subseteq D, IsFiniteSet(D), NEW R, NEW S, DOMAIN R \subseteq DOMAIN S,
         NEW v, ViewOk(C, R, v)
  PROVE  ViewOk(D, S, v)
  <1> SUFFICES ASSUME v # Idle
               PROVE  ViewOk(D, S, v)
    BY DEF ViewOk
  <1>1. /\ IsView(v) /\ Asked(v.ask) /\ Found(C, R, v) /\ PlaceOk(v)
        /\ v.pc \in {"pieces", "cache"} =>
             Counting(C, v.ask.kind, v.had, v.cov, v.todo, v.got, v.whole, v.stale \cup v.twice)
        /\ CountsOk(C, v.had, v.done)
    BY DEF ViewOk
  <1>2. Found(D, S, v)
    BY <1>1 DEF Found
  <1>3. CountsOk(D, v.had, v.done)
    BY <1>1, CountsGrow
  <1>4. v.pc \in {"pieces", "cache"} =>
          Counting(D, v.ask.kind, v.had, v.cov, v.todo, v.got, v.whole, v.stale \cup v.twice)
    BY <1>1, CountingGrows
  <1> QED
    BY <1>1, <1>2, <1>3, <1>4 DEF ViewOk

LEMMA ViewsGrow ==
  ASSUME ViewsInv, cycles \subseteq cycles', IsFiniteSet(cycles'), DOMAIN rows \subseteq DOMAIN rows',
         UNCHANGED readingsVars
  PROVE  ViewsInv'
  <1>1. view' = view /\ recall' = recall /\ baseline' = baseline /\ shown' = shown
    BY DEF readingsVars
  <1>2. ViewOk(cycles', rows', view)
    BY ViewGrows DEF ViewsInv, ViewInv
  <1>3. RecallInv'
    <2>1. \A e \in recall : CountsOk(cycles', e.had, e.done)
      BY CountsGrow DEF ViewsInv, RecallInv
    <2> QED
      BY <1>1, <2>1 DEF ViewsInv, RecallInv
  <1>4. BaselineInv'
    <2>1. baseline # <<>> => Brackets(cycles', baseline.had, baseline.w, baseline.n)
      BY BracketsGrow DEF ViewsInv, BaselineInv
    <2> QED
      BY <1>1, <2>1 DEF ViewsInv, BaselineInv
  <1> QED
    BY <1>1, <1>2, <1>3, <1>4 DEF ViewsInv, ViewInv

\* A piece within a window.
LEMMA ShareIs ==
  ASSUME NEW kind, NEW p \in PieceRec, NEW w, IsWindow(w),
         kind = "profile" => w[1] <= p.lo /\ p.hi <= w[2]
  PROVE  LET s == Share(kind, p, w)
         IN /\ s[1] \in Int /\ s[2] \in Int /\ w[1] <= s[1] /\ s[2] <= w[2]
            /\ \A t \in Int : s[1] <= t /\ t < s[2] <=>
                 (w[1] <= t /\ t < w[2] /\ p.lo <= t /\ t < p.hi)
  <1>1. p.lo \in Int /\ p.hi \in Int /\ w[1] \in Int /\ w[2] \in Int
    BY DEF PieceRec, IsWindow
  <1>2. CASE kind = "profile"
    <2>1. Share(kind, p, w) = <<p.lo, p.hi>>
      BY <1>2 DEF Share
    <2> QED
      BY <1>1, <1>2, <2>1
  <1>3. CASE kind # "profile"
    <2> DEFINE a == Max({w[1], p.lo})
               b == Min({w[2], p.hi})
    <2>1. Share(kind, p, w) = <<a, b>>
      BY <1>3 DEF Share
    <2>2. a = (IF w[1] <= p.lo THEN p.lo ELSE w[1]) /\ b = IF w[2] <= p.hi THEN w[2] ELSE p.hi
      BY <1>1, MaxTwo, MinTwo
    <2> HIDE DEF a, b
    <2> QED
      BY <1>1, <2>1, <2>2
  <1> QED
    BY <1>2, <1>3

\* s is what the next piece has of the window, and no other piece has it.
CutsOff(todo, w, s) ==
  /\ \A t \in Int : s[1] <= t /\ t < s[2] <=>
       (w[1] <= t /\ t < w[2] /\ Head(todo).lo <= t /\ t < Head(todo).hi)
  /\ \A t \in Int : Head(todo).lo <= t /\ t < Head(todo).hi => ~Awaits(Tail(todo), t)

\* With every piece more of a window is counted, and nothing twice.
LEMMA SeenMore ==
  ASSUME NEW X, IsFiniteSet(X), \A c \in X : c.ts \in Nat,
         NEW todo \in Seq(PieceRec), todo # <<>>, NEW w, NEW s, CutsOff(todo, w, s)
  PROVE  /\ Cardinality(Seen(X, todo, w)) \in Nat /\ Cardinality(Within(X, s[1], s[2])) \in Nat
         /\ Cardinality(Seen(X, Tail(todo), w))
              = Cardinality(Seen(X, todo, w)) + Cardinality(Within(X, s[1], s[2]))
  <1> DEFINE Old == Seen(X, todo, w)
             Now == Within(X, s[1], s[2])
             After == Seen(X, Tail(todo), w)
  <1>1. \A t : Awaits(todo, t) <=>
          (Head(todo).lo <= t /\ t < Head(todo).hi) \/ Awaits(Tail(todo), t)
    BY AwaitsHead
  <1>2. After = Old \cup Now /\ Old \cap Now = {} /\ Old \subseteq X /\ Now \subseteq X
    <2>1. \A c \in X : c.ts \in Int
      OBVIOUS
    <2>2. \A c \in X : c \in After <=> c \in Old \/ c \in Now
      BY <1>1, <2>1 DEF Seen, Within, CutsOff
    <2>3. \A c \in X : ~(c \in Old /\ c \in Now)
      BY <1>1, <2>1 DEF Seen, Within, CutsOff
    <2>4. After \subseteq X /\ Old \subseteq X /\ Now \subseteq X
      BY DEF Seen, Within
    <2> HIDE DEF After, Old, Now
    <2> QED
      BY <2>2, <2>3, <2>4
  <1> HIDE DEF Old, Now, After
  <1>3. /\ IsFiniteSet(Old) /\ IsFiniteSet(Now)
        /\ Cardinality(Old) \in Nat /\ Cardinality(Now) \in Nat
    BY <1>2, Fewer
  <1>4. Cardinality(Old \cap Now) = 0
    BY <1>2, FS_EmptySet
  <1>5. Cardinality(Old \cup Now)
          = Cardinality(Old) + Cardinality(Now) - Cardinality(Old \cap Now)
    BY <1>3, FS_Union
  <1>6. Cardinality(After) = Cardinality(Old) + Cardinality(Now)
    BY <1>2, <1>3, <1>4, <1>5
  <1> QED
    BY <1>3, <1>6 DEF Old, Now, After

LEMMA CyclesPiece ==
  ASSUME NEW C, IsFiniteSet(C), \A c \in C : c.ts \in Nat, NEW had, had \subseteq C,
         NEW kind, NEW cov, NEW todo, NEW got, NEW whole, NEW hours,
         Counting(C, kind, had, cov, todo, got, whole, hours), Head(todo).from = "cycles",
         NEW new, DOMAIN new = DOMAIN got,
         \A w \in DOMAIN got :
           LET s == Share(kind, Head(todo), w)
           IN new[w] = got[w] + Cardinality(Within(C, s[1], s[2]))
  PROVE  Tallied(C, had, Tail(todo), new, hours)
  <1>1. /\ WindowsOk(DOMAIN got) /\ PiecesOk(kind, DOMAIN got, todo)
        /\ Tallied(C, had, todo, got, hours)
    BY DEF Counting
  <1>2. /\ todo \in Seq(PieceRec) /\ todo # <<>> /\ Head(todo) \in PieceRec
        /\ Head(todo) = todo[1] /\ 1 \in DOMAIN todo
    BY <1>1, TodoIs DEF PiecesOk
  <1>3. ASSUME NEW t \in Int, Head(todo).lo <= t, t < Head(todo).hi
        PROVE  ~Awaits(Tail(todo), t)
    <2> SUFFICES ASSUME NEW i \in DOMAIN Tail(todo), Tail(todo)[i].lo <= t, t < Tail(todo)[i].hi
                 PROVE  FALSE
      BY DEF Awaits
    <2>1. i \in Int /\ i >= 1 /\ i + 1 \in DOMAIN todo /\ Tail(todo)[i] = todo[i + 1]
          /\ Tail(todo) \in Seq(PieceRec)
      BY <1>2, TodoIs
    <2>2. 1 < i + 1
      BY <2>1
    <2>3. todo[1].hi <= todo[i + 1].lo \/ todo[i + 1].hi <= todo[1].lo
      BY <1>1, <1>2, <2>1, <2>2 DEF PiecesOk
    <2>4. todo[i + 1] \in PieceRec
      <3>1. DOMAIN todo = 1..Len(todo)
        BY <1>2, LenProperties
      <3> QED
        BY <1>2, <2>1, <3>1, ElementOfSeq
    <2>5. /\ todo[1].lo \in Int /\ todo[1].hi \in Int
          /\ todo[i + 1].lo \in Int /\ todo[i + 1].hi \in Int
      BY <1>2, <2>4 DEF PieceRec
    <2> QED
      BY <1>2, <1>3, <2>1, <2>3, <2>5
  <1>4. ASSUME NEW w \in DOMAIN got, ~Touches(w, hours)
        PROVE  Covers(C, had, Tail(todo), w, new[w])
    <2> DEFINE s == Share(kind, Head(todo), w)
               k == Cardinality(Within(C, s[1], s[2]))
    <2>1. IsWindow(w) /\ Covers(C, had, todo, w, got[w])
      BY <1>1, <1>4 DEF WindowsOk, Tallied
    <2>2. kind = "profile" => w[1] <= Head(todo).lo /\ Head(todo).hi <= w[2]
      BY <1>1, <1>2 DEF PiecesOk
    <2>3. \A t \in Int : s[1] <= t /\ t < s[2] <=>
            (w[1] <= t /\ t < w[2] /\ Head(todo).lo <= t /\ t < Head(todo).hi)
      BY <1>2, <2>1, <2>2, ShareIs
    <2>4. new[w] = got[w] + k
      OBVIOUS
    <2> HIDE DEF s
    <2>5. IsFiniteSet(had) /\ \A c \in had : c.ts \in Nat
      BY FS_Subset
    <2>6. CutsOff(todo, w, s)
      BY <1>3, <2>3 DEF CutsOff
    <2>7. /\ Cardinality(Seen(C, todo, w)) \in Nat /\ k \in Nat
          /\ Cardinality(Seen(C, Tail(todo), w)) = Cardinality(Seen(C, todo, w)) + k
      BY <1>2, <2>6, SeenMore
    <2> DEFINE m == Cardinality(Within(had, s[1], s[2]))
    <2>8. /\ Cardinality(Seen(had, todo, w)) \in Nat /\ m \in Nat
          /\ Cardinality(Seen(had, Tail(todo), w)) = Cardinality(Seen(had, todo, w)) + m
      BY <1>2, <2>5, <2>6, SeenMore
    <2>9. m <= k
      <3>1. Within(had, s[1], s[2]) \subseteq Within(C, s[1], s[2])
            /\ Within(C, s[1], s[2]) \subseteq C
        BY DEF Within
      <3>2. IsFiniteSet(Within(C, s[1], s[2]))
        BY <3>1, FS_Subset
      <3> QED
        BY <3>1, <3>2, Fewer
    <2>10. /\ got[w] \in Nat /\ Cardinality(Seen(had, todo, w)) <= got[w]
           /\ got[w] <= Cardinality(Seen(C, todo, w))
      BY <2>1 DEF Covers
    <2> HIDE DEF k, m
    <2> QED
      BY <2>4, <2>7, <2>8, <2>9, <2>10 DEF Covers
  <1> QED
    BY <1>4 DEF Tallied

\* The buckets of the share of a window, summed, are the cycles of its hours; but for
\* windows with cycles that came late, or hours to be read again from cycles.
LEMMA RowsPiece ==
  ASSUME CoreInv, BehindInv, NEW had, had \subseteq cycles, NEW kind, NEW cov,
         cov # <<>> => cov[1] \in DOMAIN rows /\ cov[2] - PerHour \in DOMAIN rows /\ cov[2] \in Int,
         NEW todo, NEW got, NEW whole, NEW before, NEW hours,
         Counting(cycles, kind, had, cov, todo, got, whole, before), Head(todo).from = "rows",
         behind \subseteq hours,
         kind = "quality" /\ Len(todo) > 1 => {h \in DOMAIN rows : h >= cov[2]} \subseteq hours,
         NEW new, DOMAIN new = DOMAIN got,
         \A w \in DOMAIN got :
           LET s == Share(kind, Head(todo), w) IN new[w] = got[w] + Summed(s[1], s[2])
  PROVE  Tallied(cycles, had, Tail(todo), new, hours)
  <1>1. /\ CyclesOk(scope, cycles) /\ RowsOk(cycles, rows) /\ IsFiniteSet(cycles)
        /\ \A c \in cycles : c.ts \in Nat
    BY CycleTimes DEF CoreInv, CyclesOk
  <1>2. \A h \in DOMAIN rows : /\ h \in Nat /\ Floor(h) = h /\ rows[h].total \in Nat
                               /\ rows[h].total <= Cardinality(HourOfCycles(cycles, h))
    <2> SUFFICES ASSUME NEW h \in DOMAIN rows
                 PROVE  /\ h \in Nat /\ Floor(h) = h /\ rows[h].total \in Nat
                        /\ rows[h].total <= Cardinality(HourOfCycles(cycles, h))
      OBVIOUS
    <2>1. /\ h \in Nat /\ Floor(h) = h
          /\ rows[h].total \in 1..Cardinality(HourOfCycles(cycles, h))
      BY <1>1 DEF RowsOk, Counts
    <2>2. HourOfCycles(cycles, h) \subseteq cycles
      BY DEF HourOfCycles
    <2>3. Cardinality(HourOfCycles(cycles, h)) \in Nat
      BY <1>1, <2>2, Fewer
    <2> QED
      BY <2>1, <2>3
  <1>3. /\ WindowsOk(DOMAIN got) /\ PiecesOk(kind, DOMAIN got, todo)
        /\ RowsAhead(kind, had, cov, todo, got)
    BY DEF Counting
  <1>4. /\ todo \in Seq(PieceRec) /\ todo # <<>> /\ Head(todo) \in PieceRec
        /\ Head(todo) = todo[1] /\ 1 \in DOMAIN todo
        /\ Tail(todo) # <<>> => Len(todo) > 1
    BY <1>3, TodoIs DEF PiecesOk
  <1>5. /\ cov[1] \in DOMAIN rows /\ cov[2] - PerHour \in DOMAIN rows
        /\ cov[1] \in Int /\ cov[2] \in Int /\ Floor(cov[1]) = cov[1] /\ Floor(cov[2]) = cov[2]
    <2>1. cov # <<>>
      BY <1>3 DEF RowsAhead
    <2>2. /\ cov[1] \in DOMAIN rows /\ cov[2] - PerHour \in DOMAIN rows /\ cov[2] \in Int
      BY <2>1
    <2>3. cov[1] \in Nat /\ Floor(cov[1]) = cov[1]
      BY <1>2, <2>2
    <2>4. cov[2] - PerHour \in Int /\ Floor(cov[2] - PerHour) = cov[2] - PerHour
      BY <1>2, <2>2
    <2>5. (cov[2] - PerHour) + PerHour = cov[2]
      BY <2>2, PerHourIs
    <2>6. Floor(cov[2]) = cov[2]
      BY <2>4, <2>5, HourNext
    <2> QED
      BY <2>2, <2>3, <2>6
  <1>6. ASSUME NEW w \in DOMAIN got, ~Touches(w, hours)
        PROVE  Covers(cycles, had, Tail(todo), w, new[w])
    <2> DEFINE s == Share(kind, Head(todo), w)
               S == {h \in DOMAIN rows : s[1] <= h /\ h < s[2]}
               f == [h \in DOMAIN rows |-> rows[h].total]
               n == SumFunctionOnSet(f, S)
               X == Seen(cycles, Tail(todo), w)
               Y == Seen(had, Tail(todo), w)
    <2>1. IsWindow(w) /\ w[1] \in Int /\ w[2] \in Int
      BY <1>3 DEF WindowsOk, IsWindow
    <2>2. /\ s[1] \in Int /\ s[2] \in Int /\ w[1] <= s[1] /\ s[2] <= w[2]
      <3>1. kind = "profile" => w[1] <= Head(todo).lo /\ Head(todo).hi <= w[2]
        BY <1>3, <1>4 DEF PiecesOk
      <3> QED
        BY <1>4, <2>1, <3>1, ShareIs
    <2>3. /\ got[w] = 0 /\ RowsOf(kind, had, cov, todo, w)
      BY <1>3 DEF RowsAhead
    <2>4. /\ Floor(s[1]) = s[1] /\ Floor(s[2]) = s[2]
          /\ \A c \in Y : s[1] <= c.ts /\ c.ts < s[2] /\ cov[1] <= c.ts /\ c.ts < cov[2]
          /\ \A h \in Int, t \in Int :
               Floor(h) = h /\ s[1] <= h /\ h < s[2] /\ h <= t /\ t < h + PerHour
               /\ Awaits(Tail(todo), t) => kind = "quality" /\ cov[2] <= h
      BY <2>3 DEF RowsOf
    <2>5. new[w] = n
      <3>1. new[w] = got[w] + n
        BY DEF Summed
      <3>2. IsFiniteSet(S)
        <4>1. \A h \in S : h \in Int /\ s[1] <= h /\ h <= s[2]
          BY <1>2, <2>2
        <4> HIDE DEF s, S
        <4> QED
          BY <2>2, <4>1, FiniteHours
      <3>3. \A h \in S : f[h] \in Nat
        BY <1>2
      <3> HIDE DEF f, S
      <3>4. n \in Nat
        BY <3>2, <3>3, SumNat
      <3> HIDE DEF n
      <3> QED
        BY <2>3, <3>1, <3>4
    <2> HIDE DEF s
    <2>6. ASSUME NEW h \in Int, h < s[2], w[1] < h + PerHour
          PROVE  h \notin hours
      <3>1. h < w[2]
        BY <2>1, <2>2, <2>6
      <3> QED
        BY <1>6, <2>6, <3>1 DEF Touches
    <2>7. \A h \in S : /\ h \in Int /\ Floor(h) = h /\ s[1] <= h /\ h < s[2] /\ h \notin hours
                       /\ f[h] = rows[h].total /\ f[h] \in Nat
                       /\ f[h] <= Cardinality(HourOfCycles(cycles, h))
      <3> SUFFICES ASSUME NEW h \in S
                   PROVE  /\ h \in Int /\ Floor(h) = h /\ s[1] <= h /\ h < s[2] /\ h \notin hours
                          /\ f[h] = rows[h].total /\ f[h] \in Nat
                          /\ f[h] <= Cardinality(HourOfCycles(cycles, h))
        OBVIOUS
      <3>1. h \in Int /\ Floor(h) = h /\ s[1] <= h /\ h < s[2] /\ h \in DOMAIN rows
        BY <1>2
      <3>2. w[1] < h + PerHour
        BY <2>1, <2>2, <3>1, PerHourIs
      <3>3. h \notin hours
        BY <2>6, <3>1, <3>2
      <3> QED
        BY <1>2, <3>1, <3>3
    <2>8. IsFiniteSet(S)
      <3>1. \A h \in S : h \in Int /\ s[1] <= h /\ h <= s[2]
        BY <2>2, <2>7
      <3> HIDE DEF S
      <3> QED
        BY <2>2, <3>1, FiniteHours
    <2>9. \A c \in cycles : Floor(c.ts) \in S => c \in X
      <3> SUFFICES ASSUME NEW c \in cycles, Floor(c.ts) \in S
                   PROVE  c \in X
        OBVIOUS
      <3> DEFINE h == Floor(c.ts)
      <3>1. c.ts \in Int
        BY <1>1
      <3>2. h \in Int /\ h <= c.ts /\ c.ts < h + PerHour /\ Floor(h) = h
        BY <3>1, FloorBounds
      <3>3. s[1] <= h /\ h < s[2] /\ h \notin hours /\ h \in DOMAIN rows
        BY <2>7
      <3> HIDE DEF h
      <3>4. h + PerHour <= s[2]
        BY <2>2, <2>4, <3>2, <3>3, HourBefore
      <3>5. w[1] <= c.ts /\ c.ts < w[2]
        BY <2>1, <2>2, <3>1, <3>2, <3>3, <3>4, PerHourIs
      <3>6. ~Awaits(Tail(todo), c.ts)
        <4> SUFFICES ASSUME Awaits(Tail(todo), c.ts) PROVE FALSE
          OBVIOUS
        <4>1. kind = "quality" /\ cov[2] <= h
          BY <2>4, <3>1, <3>2, <3>3
        <4>2. Len(todo) > 1
          BY <1>4, NoneAwaits
        <4>3. h \in hours
          BY <1>5, <3>2, <3>3, <4>1, <4>2
        <4> QED
          BY <3>3, <4>3
      <3> QED
        BY <3>5, <3>6 DEF Seen
    <2>10. \A c \in Y : Floor(c.ts) \in S
      <3> SUFFICES ASSUME NEW c \in Y
                   PROVE  Floor(c.ts) \in S
        OBVIOUS
      <3> DEFINE h == Floor(c.ts)
      <3>1. c \in cycles /\ c.ts \in Int /\ w[1] <= c.ts /\ c.ts < w[2]
        BY <1>1 DEF Seen
      <3>2. h \in Int /\ h <= c.ts /\ c.ts < h + PerHour /\ Floor(h) = h
        BY <3>1, FloorBounds
      <3>3. s[1] <= c.ts /\ c.ts < s[2] /\ cov[1] <= c.ts /\ c.ts < cov[2]
        BY <2>4
      <3>4. s[1] <= h /\ cov[1] <= h
        <4>1. Floor(s[1]) <= h /\ Floor(cov[1]) <= h
          BY <1>5, <2>2, <3>1, <3>3, FloorOrder
        <4> QED
          BY <1>5, <2>4, <4>1
      <3> HIDE DEF h
      <3>5. h < s[2] /\ h < cov[2] /\ w[1] < h + PerHour
        BY <1>5, <2>1, <2>2, <3>1, <3>2, <3>3, PerHourIs
      <3>6. h <= cov[2] - PerHour
        <4>1. h + PerHour <= cov[2]
          BY <1>5, <3>2, <3>5, HourBefore
        <4> QED
          BY <1>5, <3>2, <4>1, PerHourIs
      <3>7. Between(rows, h)
        BY <1>5, <3>4, <3>6 DEF Between
      <3>8. h \notin behind
        BY <2>6, <3>2, <3>5
      <3>9. h \in DOMAIN rows
        BY <3>1, <3>2, <3>7, <3>8, HourHasRow DEF h
      <3> QED
        BY <3>4, <3>5, <3>9 DEF h
    <2>11. Y \subseteq cycles /\ X \subseteq cycles
      BY DEF Seen
    <2>12. ASSUME NEW h \in S
           PROVE  Cardinality(HourOfCycles(Y, h)) <= f[h]
      <3>1. h \in DOMAIN rows /\ h \in Int /\ Floor(h) = h /\ h \notin behind
        BY <2>7
      <3>2. Between(rows, h)
        BY <3>1 DEF Between
      <3>3. BucketAt(rows, h).total = Cardinality(HourOfCycles(cycles, h))
        BY <3>1, <3>2, HourHasRow
      <3>4. f[h] = Cardinality(HourOfCycles(cycles, h))
        BY <2>7, <3>1, <3>3 DEF BucketAt
      <3>5. HourOfCycles(Y, h) \subseteq HourOfCycles(cycles, h)
            /\ HourOfCycles(cycles, h) \subseteq cycles
        BY <2>11 DEF HourOfCycles
      <3>6. IsFiniteSet(HourOfCycles(cycles, h))
        BY <1>1, <3>5, FS_Subset
      <3>7. Cardinality(HourOfCycles(Y, h)) <= Cardinality(HourOfCycles(cycles, h))
        BY <3>5, <3>6, Fewer
      <3> QED
        BY <3>4, <3>7
    <2> HIDE DEF S, f, X, Y
    <2>13. /\ n \in Nat
           /\ n <= Cardinality({c \in cycles : Floor(c.ts) \in S})
           /\ Cardinality(Y) <= n
      <3>1. \A h \in S : h \in Int /\ Floor(h) = h
        BY <2>7
      <3>2. \A h \in S : f[h] \in Nat
        BY <2>7
      <3>3. \A h \in S : f[h] <= Cardinality(HourOfCycles(cycles, h))
        BY <2>7
      <3> QED
        BY <1>1, <2>8, <2>10, <2>11, <2>12, <3>1, <3>2, <3>3, HoursSum
    <2>14. Cardinality({c \in cycles : Floor(c.ts) \in S}) <= Cardinality(X)
           /\ Cardinality({c \in cycles : Floor(c.ts) \in S}) \in Nat /\ Cardinality(X) \in Nat
      <3>1. {c \in cycles : Floor(c.ts) \in S} \subseteq X
        BY <2>9
      <3>2. IsFiniteSet(X)
        BY <1>1, <2>11, FS_Subset
      <3> QED
        BY <3>1, <3>2, Fewer
    <2> HIDE DEF n
    <2> QED
      BY <2>5, <2>13, <2>14 DEF Covers, X, Y
  <1> QED
    BY <1>6 DEF Tallied

\* A sum over the windows lies where a scan of the whole would.
LEMMA TotalBrackets ==
  ASSUME NEW C, IsFiniteSet(C), \A c \in C : c.ts \in Nat, NEW had, had \subseteq C,
         NEW got, WindowsOk(DOMAIN got), NEW whole, whole # <<>>,
         WholeOk(had, DOMAIN got, whole),
         \A w \in DOMAIN got : Brackets(C, had, w, got[w])
  PROVE  Brackets(C, had, whole, SumFunction(got))
  <1> DEFINE W == DOMAIN got
             n == SumFunctionOnSet(got, W)
  <1>1. SumFunction(got) = n
    BY Zenon DEF SumFunction
  <1>2. /\ IsFiniteSet(W) /\ \A w \in W : w[1] \in Int /\ w[2] \in Int
        /\ \A w, x \in W : w = x \/ w[2] <= x[1] \/ x[2] <= w[1]
    BY DEF WindowsOk, IsWindow
  <1>3. /\ \A w \in W : whole[1] <= w[1] /\ w[2] <= whole[2]
        /\ whole[1] \in Int /\ whole[2] \in Int
        /\ \A c \in had : whole[1] <= c.ts /\ c.ts < whole[2] =>
             \E w \in W : w[1] <= c.ts /\ c.ts < w[2]
    BY DEF WholeOk
  <1>4. \A w \in W : /\ got[w] \in Nat /\ Cardinality(Within(had, w[1], w[2])) <= got[w]
                     /\ got[w] <= Cardinality(Within(C, w[1], w[2]))
    BY DEF Brackets
  <1>5. ASSUME NEW X, X \subseteq C
        PROVE  LET A == [w \in W |-> Within(X, w[1], w[2])]
               IN /\ \A w \in W : IsFiniteSet(A[w]) /\ A[w] = Within(X, w[1], w[2])
                  /\ \A w, x \in W : w # x => A[w] \cap A[x] = {}
                  /\ UNION {A[w] : w \in W} \subseteq Within(X, whole[1], whole[2])
    <2> DEFINE A == [w \in W |-> Within(X, w[1], w[2])]
    <2>1. \A w \in W : A[w] = Within(X, w[1], w[2])
      OBVIOUS
    <2> HIDE DEF A
    <2>2. \A w \in W : IsFiniteSet(A[w])
      <3>1. \A w \in W : A[w] \subseteq C
        BY <1>5, <2>1 DEF Within
      <3> QED
        BY <3>1, FS_Subset
    <2>3. \A c \in X : c.ts \in Int
      BY <1>5
    <2>4. \A w, x \in W : w # x => A[w] \cap A[x] = {}
      <3> SUFFICES ASSUME NEW w \in W, NEW x \in W, w # x, NEW c \in A[w] \cap A[x]
                   PROVE  FALSE
        OBVIOUS
      <3>1. c.ts \in Int /\ w[1] <= c.ts /\ c.ts < w[2] /\ x[1] <= c.ts /\ c.ts < x[2]
        BY <2>1, <2>3 DEF Within
      <3>2. w[2] <= x[1] \/ x[2] <= w[1]
        BY <1>2
      <3>3. w[1] \in Int /\ w[2] \in Int /\ x[1] \in Int /\ x[2] \in Int
        BY <1>2
      <3> QED
        BY <3>1, <3>2, <3>3
    <2>5. UNION {A[w] : w \in W} \subseteq Within(X, whole[1], whole[2])
      <3> SUFFICES ASSUME NEW w \in W, NEW c \in A[w]
                   PROVE  c \in Within(X, whole[1], whole[2])
        OBVIOUS
      <3>1. c \in X /\ c.ts \in Int /\ w[1] <= c.ts /\ c.ts < w[2]
        BY <2>1, <2>3 DEF Within
      <3>2. w[1] \in Int /\ w[2] \in Int /\ whole[1] <= w[1] /\ w[2] <= whole[2]
            /\ whole[1] \in Int /\ whole[2] \in Int
        BY <1>2, <1>3
      <3>3. whole[1] <= c.ts /\ c.ts < whole[2]
        BY <3>1, <3>2
      <3> QED
        BY <3>1, <3>3 DEF Within
    <2> QED
      BY <2>1, <2>2, <2>4, <2>5 DEF A
  <1> HIDE DEF W
  <1>6. n \in Nat /\ n <= Cardinality(Within(C, whole[1], whole[2]))
    <2> DEFINE A == [w \in W |-> Within(C, w[1], w[2])]
               U == UNION {A[w] : w \in W}
    <2>1. /\ \A w \in W : IsFiniteSet(A[w]) /\ A[w] = Within(C, w[1], w[2])
          /\ \A w, x \in W : w # x => A[w] \cap A[x] = {}
          /\ U \subseteq Within(C, whole[1], whole[2])
      BY <1>5
    <2> HIDE DEF A
    <2>2. \A w \in W : got[w] <= Cardinality(A[w])
      BY <1>4, <2>1
    <2>3. n \in Nat /\ n <= Cardinality(U)
      <3>1. /\ \A w \in W : got[w] \in Nat
            /\ \A w \in W : IsFiniteSet(A[w])
            /\ \A w, x \in W : w # x => A[w] \cap A[x] = {}
        BY <1>4, <2>1
      <3> QED
        BY <1>2, <2>2, <3>1, SumAtMost
    <2> HIDE DEF U, n
    <2>4. Within(C, whole[1], whole[2]) \subseteq C
      BY DEF Within
    <2>5. IsFiniteSet(Within(C, whole[1], whole[2]))
      BY <2>4, FS_Subset
    <2>6. /\ Cardinality(U) <= Cardinality(Within(C, whole[1], whole[2]))
          /\ Cardinality(U) \in Nat /\ Cardinality(Within(C, whole[1], whole[2])) \in Nat
      BY <2>1, <2>5, Fewer
    <2> QED
      BY <2>3, <2>6
  <1>7. Cardinality(Within(had, whole[1], whole[2])) <= n
    <2> DEFINE A == [w \in W |-> Within(had, w[1], w[2])]
               U == UNION {A[w] : w \in W}
    <2>1. /\ \A w \in W : IsFiniteSet(A[w]) /\ A[w] = Within(had, w[1], w[2])
          /\ \A w, x \in W : w # x => A[w] \cap A[x] = {}
          /\ U \subseteq Within(had, whole[1], whole[2])
      BY <1>5
    <2> HIDE DEF A
    <2>2. \A w \in W : Cardinality(A[w]) <= got[w]
      BY <1>4, <2>1
    <2>3. Cardinality(U) <= n
      <3>1. /\ \A w \in W : got[w] \in Nat
            /\ \A w \in W : IsFiniteSet(A[w])
            /\ \A w, x \in W : w # x => A[w] \cap A[x] = {}
        BY <1>4, <2>1
      <3> QED
        BY <1>2, <2>2, <3>1, SumAtLeast
    <2>4. \A c \in Within(had, whole[1], whole[2]) : c \in U
      <3> SUFFICES ASSUME NEW c \in Within(had, whole[1], whole[2])
                   PROVE  c \in U
        OBVIOUS
      <3>1. c \in had /\ whole[1] <= c.ts /\ c.ts < whole[2]
        BY DEF Within
      <3>2. PICK w \in W : w[1] <= c.ts /\ c.ts < w[2]
        BY <1>3, <3>1
      <3>3. c \in A[w]
        BY <2>1, <3>1, <3>2 DEF Within
      <3> QED
        BY <3>3
    <2> HIDE DEF U, n
    <2>5. Within(had, whole[1], whole[2]) = U
      BY <2>1, <2>4
    <2> QED
      BY <2>3, <2>5
  <1> QED
    BY <1>1, <1>6, <1>7 DEF Brackets, n

\* The counts of the windows are complete.
LEMMA NothingAwaits ==
  ASSUME NEW C, NEW had, NEW w, NEW n, Covers(C, had, <<>>, w, n)
  PROVE  Brackets(C, had, w, n)
  <1>1. \A X : Seen(X, <<>>, w) = Within(X, w[1], w[2])
    BY NoneAwaits DEF Seen, Within
  <1> QED
    BY <1>1 DEF Covers, Brackets

LEMMA TouchesMore ==
  ASSUME NEW w, NEW x, IsWindow(w), x[1] \in Int, x[2] \in Int, x[1] <= w[1], w[2] <= x[2],
         NEW hours, \A h \in hours : h \in Int, Touches(w, hours)
  PROVE  Touches(x, hours)
  <1>1. PICK h \in hours : h < w[2] /\ w[1] < h + PerHour
    BY DEF Touches
  <1>2. h < x[2] /\ x[1] < h + PerHour
    BY <1>1, PerHourIs DEF IsWindow
  <1> QED
    BY <1>2 DEF Touches

LEMMA ClosedOk ==
  ASSUME NEW C, IsFiniteSet(C), \A c \in C : c.ts \in Nat, NEW R, NEW v,
         IsView(v), Asked(v.ask), Found(C, R, v), CountsOk(C, v.had, v.done),
         v.next \in {"answer", "sigma", "window", "spread"}, v.next = "sigma" => v.cov # <<>>,
         v.stale \cup v.twice \subseteq Int,
         v.ask.kind = "baseline" =>
           v.stale = {} /\ v.twice = {} /\ \A x \in v.done : ~x.excused,
         WindowsOk(DOMAIN v.got), WholeOk(v.had, DOMAIN v.got, v.whole),
         Tallied(C, v.had, <<>>, v.got, v.stale \cup v.twice)
  PROVE  ViewOk(C, R, Closed(v))
  <1> DEFINE q == Closed(v)
             hours == v.stale \cup v.twice
             each == {Result(v, w, v.got[w]) : w \in DOMAIN v.got}
             all == IF v.whole = <<>> THEN {} ELSE {Result(v, v.whole, SumFunction(v.got))}
  <1>1. /\ IsView(q) /\ q.ask = v.ask /\ q.had = v.had /\ q.last = v.last /\ q.cov = v.cov
        /\ q.pc = v.next /\ q.stale = {} /\ q.twice = {}
        /\ q.done = v.done \cup each \cup all
    BY DEF Closed, IsView
  <1> HIDE DEF q
  <1>2. \A w, n : /\ DOMAIN Result(v, w, n) = {"w", "n", "excused"}
                  /\ Result(v, w, n).w = w /\ Result(v, w, n).n = n
                  /\ Result(v, w, n).excused = Touches(w, hours)
                  /\ Result(v, w, n).excused \in BOOLEAN
    BY DEF Result, Touches
  <1> HIDE DEF hours
  <1>3. \A w \in DOMAIN v.got : Touches(w, hours) \/ Brackets(C, v.had, w, v.got[w])
    BY NothingAwaits DEF Tallied, hours
  <1>4. ASSUME NEW x \in each
        PROVE  /\ DOMAIN x = {"w", "n", "excused"} /\ x.excused \in BOOLEAN
               /\ x.excused \/ Brackets(C, v.had, x.w, x.n)
               /\ hours = {} => ~x.excused
    <2>1. PICK w \in DOMAIN v.got : x = Result(v, w, v.got[w])
      OBVIOUS
    <2>2. /\ DOMAIN x = {"w", "n", "excused"} /\ x.w = w /\ x.n = v.got[w]
          /\ x.excused = Touches(w, hours) /\ x.excused \in BOOLEAN
      BY <1>2, <2>1
    <2>3. Touches(w, hours) \/ Brackets(C, v.had, w, v.got[w])
      BY <1>3
    <2>4. hours = {} => ~Touches(w, hours)
      BY DEF Touches
    <2> QED
      BY <2>2, <2>3, <2>4
  <1>5. ASSUME NEW x \in all
        PROVE  /\ DOMAIN x = {"w", "n", "excused"} /\ x.excused \in BOOLEAN
               /\ x.excused \/ Brackets(C, v.had, x.w, x.n)
               /\ hours = {} => ~x.excused
    <2>1. v.whole # <<>> /\ x = Result(v, v.whole, SumFunction(v.got))
      OBVIOUS
    <2>2. ASSUME ~Touches(v.whole, hours)
          PROVE  Brackets(C, v.had, v.whole, SumFunction(v.got))
      <3>1. ASSUME NEW w \in DOMAIN v.got
            PROVE  Brackets(C, v.had, w, v.got[w])
        <4>1. /\ IsWindow(w) /\ v.whole[1] <= w[1] /\ w[2] <= v.whole[2]
              /\ v.whole[1] \in Int /\ v.whole[2] \in Int
          BY <2>1 DEF WindowsOk, WholeOk
        <4>2. \A h \in hours : h \in Int
          BY DEF hours
        <4>3. ~Touches(w, hours)
          BY <2>2, <4>1, <4>2, TouchesMore
        <4> QED
          BY <1>3, <4>3
      <3>2. v.had \subseteq C
        BY DEF Found
      <3> QED
        BY <2>1, <3>1, <3>2, TotalBrackets
    <2>3. /\ DOMAIN x = {"w", "n", "excused"} /\ x.w = v.whole /\ x.n = SumFunction(v.got)
          /\ x.excused = Touches(v.whole, hours) /\ x.excused \in BOOLEAN
      BY <1>2, <2>1
    <2>4. hours = {} => ~Touches(v.whole, hours)
      BY DEF Touches
    <2> QED
      BY <2>2, <2>3, <2>4
  <1> HIDE DEF each, all
  <1>6. CountsOk(C, q.had, q.done)
    BY <1>1, <1>4, <1>5 DEF CountsOk
  <1>7. Found(C, R, q)
    BY <1>1 DEF Found
  <1>8. PlaceOk(q)
    <2>1. q.ask.kind = "baseline" => \A x \in q.done : ~x.excused
      BY <1>1, <1>4, <1>5 DEF hours
    <2> QED
      BY <1>1, <2>1 DEF PlaceOk
  <1> QED
    BY <1>1, <1>6, <1>7, <1>8 DEF ViewOk, q

LEMMA TailOk ==
  ASSUME NEW kind, NEW W, NEW todo, PiecesOk(kind, W, todo), Tail(todo) # <<>>
  PROVE  PiecesOk(kind, W, Tail(todo)) /\ Head(Tail(todo)).from = "cycles"
  <1>1. /\ todo \in Seq(PieceRec) /\ todo # <<>>
        /\ \A i \in DOMAIN todo : i = 1 \/ todo[i].from = "cycles"
        /\ \A i, j \in DOMAIN todo :
             i < j /\ todo[i].from = "cycles" =>
               todo[i].hi <= todo[j].lo \/ todo[j].hi <= todo[i].lo
        /\ kind = "profile" =>
             \A w \in W, i \in DOMAIN todo : w[1] <= todo[i].lo /\ todo[i].hi <= w[2]
    BY DEF PiecesOk
  <1>2. /\ Tail(todo) \in Seq(PieceRec) /\ 2 \in DOMAIN todo /\ Head(Tail(todo)) = todo[2]
        /\ \A i \in DOMAIN Tail(todo) : i \in Int /\ i >= 1 /\ i + 1 \in DOMAIN todo
                                        /\ Tail(todo)[i] = todo[i + 1]
    BY <1>1, TodoIs
  <1> DEFINE u == Tail(todo)
  <1>3. \A i \in DOMAIN u : u[i].from = "cycles"
    BY <1>1, <1>2
  <1>4. \A i, j \in DOMAIN u : i < j => u[i].hi <= u[j].lo \/ u[j].hi <= u[i].lo
    <2> SUFFICES ASSUME NEW i \in DOMAIN u, NEW j \in DOMAIN u, i < j
                 PROVE  u[i].hi <= u[j].lo \/ u[j].hi <= u[i].lo
      OBVIOUS
    <2>1. /\ i + 1 \in DOMAIN todo /\ j + 1 \in DOMAIN todo /\ u[i] = todo[i + 1]
          /\ u[j] = todo[j + 1] /\ i + 1 < j + 1
      BY <1>2
    <2>2. todo[i + 1].from = "cycles"
      BY <1>3, <2>1
    <2> QED
      BY <1>1, <2>1, <2>2
  <1>5. kind = "profile" => \A w \in W, i \in DOMAIN u : w[1] <= u[i].lo /\ u[i].hi <= w[2]
    BY <1>1, <1>2
  <1>6. Head(u).from = "cycles"
    BY <1>1, <1>2
  <1> HIDE DEF u
  <1>7. u \in Seq(PieceRec) /\ u # <<>>
    BY <1>2 DEF u
  <1>8. PiecesOk(kind, W, u)
    BY <1>3, <1>4, <1>5, <1>7 DEF PiecesOk
  <1> QED
    BY <1>6, <1>8 DEF u

LEMMA PieceStep ==
  ASSUME CoreInv, BehindInv, ViewInv, NEW from \in {"rows", "cycles"}, NEW kind,
         FetchPiece(from, kind), from = "rows" => kind # "baseline"
  PROVE  ViewInv'
  <1> DEFINE piece == Head(view.todo)
             new == [w \in DOMAIN view.got |->
                       view.got[w] + Amount(from, Share(kind, piece, w))]
             twice == IF from = "rows" /\ Len(view.todo) > 1 /\ kind = "quality"
                      THEN {h \in DOMAIN rows : h >= view.cov[2]} ELSE view.twice
             v == [view EXCEPT !.got = new, !.stale = IF from = "rows" THEN behind ELSE @,
                               !.twice = twice, !.todo = Tail(@)]
             hours == v.stale \cup v.twice
  <1>1. /\ view # Idle /\ view.pc = "pieces" /\ view.ask.kind = kind /\ piece.from = from
        /\ cycles' = cycles /\ rows' = rows
        /\ view' = IF v.todo = <<>> THEN Closed(v) ELSE v
    BY DEF FetchPiece, Viewing, vars, rollupVars
  <1>2. /\ IsView(view) /\ Asked(view.ask) /\ Found(cycles, rows, view) /\ PlaceOk(view)
        /\ Counting(cycles, kind, view.had, view.cov, view.todo, view.got, view.whole,
                    view.stale \cup view.twice)
        /\ CountsOk(cycles, view.had, view.done)
    BY <1>1 DEF ViewInv, ViewOk
  <1>3. /\ CyclesOk(scope, cycles) /\ IsFiniteSet(cycles) /\ \A c \in cycles : c.ts \in Nat
        /\ RowsOk(cycles, rows)
    BY CycleTimes DEF CoreInv, CyclesOk
  <1>4. /\ IsView(v) /\ v.ask = view.ask /\ v.pc = view.pc /\ v.had = view.had
        /\ v.last = view.last /\ v.cov = view.cov /\ v.prior = view.prior
        /\ v.todo = Tail(view.todo) /\ v.got = new /\ v.next = view.next
        /\ v.whole = view.whole /\ v.done = view.done
        /\ v.stale = (IF from = "rows" THEN behind ELSE view.stale) /\ v.twice = twice
    BY <1>2 DEF IsView
  <1> HIDE DEF v
  <1>5. DOMAIN new = DOMAIN view.got
    OBVIOUS
  <1>6. /\ WindowsOk(DOMAIN new) /\ PiecesOk(kind, DOMAIN new, view.todo)
        /\ WholeOk(v.had, DOMAIN new, v.whole)
    BY <1>2, <1>4, <1>5 DEF Counting
  <1>7. Found(cycles, rows, v) /\ v.had \subseteq cycles
    BY <1>2, <1>4 DEF Found
  <1>8. hours \subseteq Int
    <2>1. behind \subseteq Int /\ DOMAIN rows \subseteq Int
      BY <1>3 DEF BehindInv, BehindOk, RowsOk, Counts
    <2>2. view.stale \subseteq Int /\ view.twice \subseteq Int
      BY <1>2 DEF PlaceOk
    <2> QED
      BY <1>4, <2>1, <2>2
  <1>9. Tallied(cycles, v.had, v.todo, new, hours)
    <2>1. CASE from = "cycles"
      <3>1. ASSUME NEW w \in DOMAIN view.got
            PROVE  LET s == Share(kind, Head(view.todo), w)
                   IN new[w] = view.got[w] + Cardinality(Within(cycles, s[1], s[2]))
        <4> DEFINE s == Share(kind, Head(view.todo), w)
        <4>1. Amount(from, s) = Direct(s[1], s[2])
          BY <2>1 DEF Amount
        <4>2. Direct(s[1], s[2]) = Cardinality(Within(cycles, s[1], s[2]))
          BY CountsAre
        <4> QED
          BY <4>1, <4>2
      <3>2. hours = view.stale \cup view.twice
        BY <1>4, <2>1
      <3>3. view.had \subseteq cycles /\ Head(view.todo).from = "cycles"
        BY <1>1, <1>4, <1>7, <2>1
      <3> HIDE DEF new, hours
      <3>4. Tallied(cycles, view.had, Tail(view.todo), new, view.stale \cup view.twice)
        BY <1>2, <1>3, <1>5, <3>1, <3>3, CyclesPiece
      <3> QED
        BY <1>4, <3>2, <3>4
    <2>2. CASE from = "rows"
      <3>1. ASSUME NEW w \in DOMAIN view.got
            PROVE  LET s == Share(kind, Head(view.todo), w)
                   IN new[w] = view.got[w] + Summed(s[1], s[2])
        BY <2>2 DEF Amount
      <3>2. behind \subseteq hours
        BY <1>4, <2>2
      <3>3. kind = "quality" /\ Len(view.todo) > 1 =>
              {h \in DOMAIN rows : h >= view.cov[2]} \subseteq hours
        BY <1>4, <2>2
      <3>4. view.had \subseteq cycles /\ Head(view.todo).from = "rows"
        BY <1>1, <1>4, <1>7, <2>2
      <3>5. view.cov # <<>> => /\ view.cov[1] \in DOMAIN rows
                               /\ view.cov[2] - PerHour \in DOMAIN rows /\ view.cov[2] \in Int
        BY <1>2 DEF Found
      <3> HIDE DEF new, hours
      <3>6. Tallied(cycles, view.had, Tail(view.todo), new, hours)
        BY <1>2, <1>5, <3>1, <3>2, <3>3, <3>4, <3>5, RowsPiece
      <3> QED
        BY <1>4, <3>6
    <2> QED
      BY <2>1, <2>2
  <1>10. v.ask.kind = "baseline" =>
           v.stale = {} /\ v.twice = {} /\ \A x \in v.done : ~x.excused
    <2> SUFFICES ASSUME v.ask.kind = "baseline"
                 PROVE  v.stale = {} /\ v.twice = {} /\ \A x \in v.done : ~x.excused
      OBVIOUS
    <2>1. view.stale = {} /\ view.twice = {} /\ \A x \in view.done : ~x.excused
      BY <1>1, <1>2, <1>4 DEF PlaceOk
    <2>2. from = "cycles"
      BY <1>1, <1>4
    <2> QED
      BY <1>1, <1>4, <2>1, <2>2
  <1>11. CountsOk(cycles, v.had, v.done) /\ Asked(v.ask)
    BY <1>2, <1>4
  <1>12. /\ v.next \in {"answer", "sigma", "window", "spread"}
         /\ v.next = "sigma" => v.cov # <<>>
    BY <1>1, <1>2, <1>4 DEF PlaceOk
  <1> HIDE DEF new
  <1>13. CASE v.todo = <<>>
    <2>1. /\ WindowsOk(DOMAIN v.got) /\ WholeOk(v.had, DOMAIN v.got, v.whole)
          /\ Tallied(cycles, v.had, <<>>, v.got, hours)
      BY <1>4, <1>6, <1>9, <1>13
    <2>2. ViewOk(cycles, rows, Closed(v))
      BY <1>3, <1>4, <1>7, <1>8, <1>10, <1>11, <1>12, <2>1, ClosedOk
    <2> QED
      BY <1>1, <1>13, <2>2 DEF ViewInv
  <1>14. CASE v.todo # <<>>
    <2>1. PiecesOk(kind, DOMAIN new, v.todo) /\ Head(v.todo).from = "cycles"
      <3>1. Tail(view.todo) # <<>> /\ v.todo = Tail(view.todo)
        BY <1>4, <1>14
      <3>2. PiecesOk(kind, DOMAIN new, view.todo)
        BY <1>6
      <3>3. PiecesOk(kind, DOMAIN new, Tail(view.todo)) /\ Head(Tail(view.todo)).from = "cycles"
        BY <3>1, <3>2, TailOk
      <3> QED
        BY <3>1, <3>3
    <2>2. Counting(cycles, v.ask.kind, v.had, v.cov, v.todo, v.got, v.whole, hours)
      <3>1. v.ask.kind = kind /\ v.got = new
        BY <1>1, <1>4
      <3>2. Counting(cycles, kind, v.had, v.cov, v.todo, new, v.whole, hours)
        BY <1>6, <1>9, <2>1 DEF Counting
      <3> QED
        BY <3>1, <3>2
    <2>3. PlaceOk(v)
      <3>1. v.pc = "pieces"
        BY <1>1, <1>4
      <3> QED
        BY <1>8, <1>10, <1>12, <3>1 DEF PlaceOk
    <2>4. ViewOk(cycles, rows, v)
      BY <1>4, <1>7, <1>11, <2>2, <2>3 DEF ViewOk
    <2> QED
      BY <1>1, <1>14, <2>4 DEF ViewInv
  <1> QED
    BY <1>13, <1>14

\* What a request has got when its statements begin.
Ready(C, R, v) ==
  /\ IsView(v) /\ Asked(v.ask) /\ Found(C, R, v) /\ CountsOk(C, v.had, v.done)
  /\ v.stale \cup v.twice \subseteq Int
  /\ v.ask.kind = "baseline" => v.stale = {} /\ v.twice = {} /\ \A x \in v.done : ~x.excused

LEMMA ViewReady ==
  ASSUME ViewInv, view # Idle, view.pc # "answer"
  PROVE  Ready(cycles, rows, view)
  BY DEF ViewInv, ViewOk, PlaceOk, Ready

\* No window has a cycle yet.
Zeros(W) == [w \in W |-> 0]

LEMMA StartAt ==
  ASSUME NEW C, NEW R, NEW v, Ready(C, R, v), NEW got, NEW todo, NEW whole,
         NEW next \in {"answer", "sigma", "window", "spread"}, next # "sigma" \/ v.cov # <<>>,
         Counting(C, v.ask.kind, v.had, v.cov, todo, got, whole, v.stale \cup v.twice),
         NEW pc \in {"pieces", "cache"}, NEW q,
         q = [v EXCEPT !.pc = pc, !.got = got, !.todo = todo, !.next = next, !.whole = whole]
  PROVE  ViewOk(C, R, q)
  <1>1. /\ IsView(v) /\ Asked(v.ask) /\ Found(C, R, v) /\ CountsOk(C, v.had, v.done)
        /\ v.stale \cup v.twice \subseteq Int
        /\ v.ask.kind = "baseline" => v.stale = {} /\ v.twice = {} /\ \A x \in v.done : ~x.excused
    BY DEF Ready
  <1>2. /\ IsView(q) /\ q.ask = v.ask /\ q.pc = pc /\ q.had = v.had /\ q.last = v.last
        /\ q.cov = v.cov /\ q.prior = v.prior /\ q.todo = todo /\ q.got = got
        /\ q.next = next /\ q.whole = whole /\ q.done = v.done /\ q.stale = v.stale
        /\ q.twice = v.twice
    BY <1>1 DEF IsView
  <1>3. Found(C, R, q) /\ CountsOk(C, q.had, q.done)
    BY <1>1, <1>2 DEF Found
  <1>4. Counting(C, q.ask.kind, q.had, q.cov, q.todo, q.got, q.whole, q.stale \cup q.twice)
    BY <1>2
  <1>5. PlaceOk(q)
    BY <1>1, <1>2 DEF PlaceOk
  <1> QED
    BY <1>1, <1>2, <1>3, <1>4, <1>5 DEF ViewOk

LEMMA StartOk ==
  ASSUME NEW C, NEW R, NEW v, Ready(C, R, v), NEW W, NEW todo, NEW whole,
         NEW next \in {"answer", "sigma", "window", "spread"}, next # "sigma" \/ v.cov # <<>>,
         Counting(C, v.ask.kind, v.had, v.cov, todo, Zeros(W), whole, v.stale \cup v.twice)
  PROVE  ViewOk(C, R, Start(v, W, todo, next, whole))
  <1>1. Start(v, W, todo, next, whole)
          = [v EXCEPT !.pc = "pieces", !.got = Zeros(W), !.todo = todo, !.next = next,
                      !.whole = whole]
    <2>1. IsView(v)
      BY DEF Ready
    <2> QED
      BY <2>1 DEF Start, Zeros
  <1> DEFINE got == Zeros(W)
             q == Start(v, W, todo, next, whole)
  <1>2. Counting(C, v.ask.kind, v.had, v.cov, todo, got, whole, v.stale \cup v.twice)
    OBVIOUS
  <1>3. q = [v EXCEPT !.pc = "pieces", !.got = got, !.todo = todo, !.next = next, !.whole = whole]
    BY <1>1
  <1> HIDE DEF got, q
  <1>4. ViewOk(C, R, q)
    BY <1>2, <1>3, StartAt
  <1> QED
    BY <1>4 DEF q

LEMMA StartCache ==
  ASSUME NEW C, NEW R, NEW v, Ready(C, R, v), NEW W, NEW todo, NEW whole,
         NEW next \in {"answer", "sigma", "window", "spread"}, next # "sigma" \/ v.cov # <<>>,
         Counting(C, v.ask.kind, v.had, v.cov, todo, Zeros(W), whole, v.stale \cup v.twice)
  PROVE  ViewOk(C, R, [Start(v, W, todo, next, whole) EXCEPT !.pc = "cache"])
  <1> DEFINE got == Zeros(W)
             q == [Start(v, W, todo, next, whole) EXCEPT !.pc = "cache"]
  <1>1. q = [v EXCEPT !.pc = "cache", !.got = got, !.todo = todo, !.next = next, !.whole = whole]
    <2>1. IsView(v)
      BY DEF Ready
    <2> QED
      BY <2>1 DEF Start, IsView, Zeros
  <1>2. Counting(C, v.ask.kind, v.had, v.cov, todo, got, whole, v.stale \cup v.twice)
    OBVIOUS
  <1> HIDE DEF got, q
  <1>3. ViewOk(C, R, q)
    BY <1>1, <1>2, StartAt
  <1> QED
    BY <1>3 DEF q

\* No piece has been read, and all is read from cycles.
LEMMA CyclesFirst ==
  ASSUME NEW C, \A c \in C : c.ts \in Nat, NEW had, had \subseteq C, NEW kind, NEW cov,
         NEW W, WindowsOk(W), NEW todo, PiecesOk(kind, W, todo), Head(todo).from = "cycles",
         NEW whole, WholeOk(had, W, whole), NEW hours,
         \A w \in W : \A t \in Int : w[1] <= t /\ t < w[2] => Awaits(todo, t)
  PROVE  Counting(C, kind, had, cov, todo, [w \in W |-> 0], whole, hours)
  <1> DEFINE got == [w \in W |-> 0]
  <1>1. DOMAIN got = W /\ \A w \in W : got[w] = 0
    OBVIOUS
  <1> HIDE DEF got
  <1>2. ASSUME NEW w \in W
        PROVE  Covers(C, had, todo, w, got[w])
    <2>1. ASSUME NEW X, X \subseteq C
          PROVE  Cardinality(Seen(X, todo, w)) = 0
      <3>1. \A c \in X : c.ts \in Int
        BY <2>1
      <3>2. Seen(X, todo, w) = {}
        BY <3>1 DEF Seen
      <3> QED
        BY <3>2, FS_EmptySet
    <2> QED
      BY <1>1, <2>1 DEF Covers
  <1>3. Tallied(C, had, todo, got, hours)
    BY <1>1, <1>2 DEF Tallied
  <1> QED
    BY <1>1, <1>3 DEF Counting, got

\* No piece has been read, and the buckets come first.
LEMMA RowsFirst ==
  ASSUME NEW C, NEW had, NEW kind, NEW cov, cov # <<>>,
         NEW W, WindowsOk(W), NEW todo, PiecesOk(kind, W, todo), Head(todo).from = "rows",
         NEW whole, WholeOk(had, W, whole), NEW hours,
         \A w \in W : RowsOf(kind, had, cov, todo, w)
  PROVE  Counting(C, kind, had, cov, todo, [w \in W |-> 0], whole, hours)
  <1> DEFINE got == [w \in W |-> 0]
  <1>1. DOMAIN got = W /\ \A w \in W : got[w] = 0
    OBVIOUS
  <1> HIDE DEF got
  <1>2. RowsAhead(kind, had, cov, todo, got)
    BY <1>1 DEF RowsAhead
  <1> QED
    BY <1>1, <1>2 DEF Counting, got

\* One piece alone.
LEMMA OneIsOk ==
  ASSUME NEW p \in PieceRec, NEW W, NEW kind,
         kind = "profile" => \A w \in W : w[1] <= p.lo /\ p.hi <= w[2]
  PROVE  PiecesOk(kind, W, <<p>>)
  <1>1. <<p>> \in Seq(PieceRec) /\ <<p>> # <<>> /\ DOMAIN <<p>> = {1} /\ <<p>>[1] = p
    BY OnePiece
  <1> QED
    BY <1>1 DEF PiecesOk

-----------------------------------------------------------------------------
(* How each route begins to count                                             *)

LEMMA CovHours ==
  ASSUME CoreInv, NEW v, Found(cycles, rows, v), v.cov # <<>>
  PROVE  /\ v.cov[1] \in Int /\ Floor(v.cov[1]) = v.cov[1] /\ Multiple(v.cov[1], PerHour)
         /\ v.cov[2] \in Int /\ Floor(v.cov[2]) = v.cov[2] /\ Multiple(v.cov[2], PerHour)
  <1>1. \A h \in DOMAIN rows : h \in Nat /\ Floor(h) = h
    BY DEF CoreInv, RowsOk, Counts
  <1>2. /\ v.cov[1] \in DOMAIN rows /\ v.cov[2] - PerHour \in DOMAIN rows /\ v.cov[2] \in Int
    BY DEF Found
  <1>3. v.cov[1] \in Int /\ Floor(v.cov[1]) = v.cov[1]
    BY <1>1, <1>2
  <1>4. v.cov[2] - PerHour \in Int /\ Floor(v.cov[2] - PerHour) = v.cov[2] - PerHour
    BY <1>1, <1>2
  <1>5. (v.cov[2] - PerHour) + PerHour = v.cov[2]
    BY <1>2, PerHourIs
  <1>6. Floor(v.cov[2]) = v.cov[2]
    BY <1>4, <1>5, HourNext
  <1>7. \A t \in Int : Floor(t) = t => Multiple(t, PerHour)
    BY FloorBounds DEF Multiple
  <1> QED
    BY <1>2, <1>3, <1>6, <1>7

LEMMA CyclesTimed ==
  ASSUME CoreInv
  PROVE  IsFiniteSet(cycles) /\ \A c \in cycles : c.ts \in Nat
  BY CycleTimes DEF CoreInv, CyclesOk

LEMMA BaseStart ==
  ASSUME CoreInv, NEW v, Ready(cycles, rows, v), v.ask.kind = "baseline",
         NEW w, IsWindow(w)
  PROVE  LET todo == <<Piece("cycles", w[1], w[2])>>
         IN Counting(cycles, v.ask.kind, v.had, v.cov, todo, [x \in {w} |-> 0], <<>>,
                     v.stale \cup v.twice)
  <1> DEFINE p == Piece("cycles", w[1], w[2])
  <1>1. p \in PieceRec /\ p.from = "cycles" /\ p.lo = w[1] /\ p.hi = w[2]
    BY PieceIs DEF IsWindow
  <1> HIDE DEF p
  <1>2. WindowsOk({w})
    BY FS_Singleton DEF WindowsOk
  <1>3. PiecesOk(v.ask.kind, {w}, <<p>>)
    BY <1>1, OneIsOk
  <1>4. Head(<<p>>).from = "cycles" /\ \A t : Awaits(<<p>>, t) <=> p.lo <= t /\ t < p.hi
    BY <1>1, OnePiece
  <1>5. WholeOk(v.had, {w}, <<>>)
    BY DEF WholeOk
  <1>6. v.had \subseteq cycles
    BY DEF Ready, Found
  <1>7. \A x \in {w} : \A t \in Int : x[1] <= t /\ t < x[2] => Awaits(<<p>>, t)
    BY <1>1, <1>4
  <1>8. Counting(cycles, v.ask.kind, v.had, v.cov, <<p>>, [x \in {w} |-> 0], <<>>,
                 v.stale \cup v.twice)
    BY <1>2, <1>3, <1>4, <1>5, <1>6, <1>7, CyclesTimed, CyclesFirst
  <1> QED
    BY <1>8 DEF p

\* The progression goes over the hours of the coverage, in buckets and in cycles.
LEMMA HoursStart ==
  ASSUME CoreInv, NEW v, Ready(cycles, rows, v), v.ask.kind = "progression", v.cov # <<>>,
         NEW from \in {"rows", "cycles"}
  PROVE  LET todo == <<Piece(from, v.cov[1], v.cov[2])>>
         IN Counting(cycles, v.ask.kind, v.had, v.cov, todo,
                     [w \in Buckets(v.cov[1], v.cov[2], PerHour) |-> 0], <<>>,
                     v.stale \cup v.twice)
  <1> DEFINE p == Piece(from, v.cov[1], v.cov[2])
             W == Buckets(v.cov[1], v.cov[2], PerHour)
  <1>1. /\ v.cov[1] \in Int /\ v.cov[2] \in Int
        /\ Multiple(v.cov[1], PerHour) /\ Multiple(v.cov[2], PerHour)
    BY CovHours DEF Ready
  <1>2. p \in PieceRec /\ p.from = from /\ p.lo = v.cov[1] /\ p.hi = v.cov[2]
    BY <1>1, PieceIs
  <1>3. /\ IsFiniteSet(W)
        /\ \A w \in W : /\ IsWindow(w) /\ Floor(w[1]) = w[1] /\ Floor(w[2]) = w[2]
                        /\ v.cov[1] <= w[1] /\ w[1] < w[2] /\ w[2] <= v.cov[2]
        /\ \A w, x \in W : w = x \/ w[2] <= x[1] \/ x[2] <= w[1]
    BY <1>1, BucketsAre
  <1> HIDE DEF p, W
  <1>4. WindowsOk(W) /\ WholeOk(v.had, W, <<>>)
    BY <1>3 DEF WindowsOk, WholeOk
  <1>5. PiecesOk(v.ask.kind, W, <<p>>)
    BY <1>2, OneIsOk
  <1>6. /\ Head(<<p>>) = p /\ Tail(<<p>>) = <<>>
        /\ \A t : Awaits(<<p>>, t) <=> p.lo <= t /\ t < p.hi
    BY <1>2, OnePiece
  <1>7. v.had \subseteq cycles
    BY DEF Ready, Found
  <1>8. CASE from = "cycles"
    <2>1. \A w \in W : \A t \in Int : w[1] <= t /\ t < w[2] => Awaits(<<p>>, t)
      BY <1>1, <1>2, <1>3, <1>6 DEF IsWindow
    <2>2. Head(<<p>>).from = "cycles"
      BY <1>2, <1>6, <1>8
    <2>3. Counting(cycles, v.ask.kind, v.had, v.cov, <<p>>, [w \in W |-> 0], <<>>,
                   v.stale \cup v.twice)
      BY <1>4, <1>5, <1>7, <2>1, <2>2, CyclesTimed, CyclesFirst
    <2> QED
      BY <2>3 DEF p, W
  <1>9. CASE from = "rows"
    <2>1. ASSUME NEW w \in W
          PROVE  RowsOf(v.ask.kind, v.had, v.cov, <<p>>, w)
      <3> DEFINE s == Share(v.ask.kind, p, w)
      <3>1. w[1] \in Int /\ w[2] \in Int /\ v.cov[1] <= w[1] /\ w[2] <= v.cov[2]
        BY <1>3 DEF IsWindow
      <3>2. s = <<w[1], w[2]>>
        BY <1>1, <1>2, <3>1, MaxTwo, MinTwo DEF Share
      <3>3. s[1] = w[1] /\ s[2] = w[2]
        BY <3>2
      <3> HIDE DEF s
      <3>4. \A c \in Seen(v.had, <<>>, w) : /\ c.ts \in Int /\ s[1] <= c.ts /\ c.ts < s[2]
                                            /\ v.cov[1] <= c.ts /\ c.ts < v.cov[2]
        <4>1. \A c \in v.had : c.ts \in Int
          BY <1>7, CyclesTimed
        <4> QED
          BY <1>1, <3>1, <3>3, <4>1 DEF Seen
      <3>5. Floor(s[1]) = s[1] /\ Floor(s[2]) = s[2]
        BY <1>3, <3>3
      <3>6. \A t : ~Awaits(Tail(<<p>>), t)
        BY <1>6, NoneAwaits
      <3> QED
        BY <1>6, <3>4, <3>5, <3>6 DEF RowsOf, s
    <2>2. Head(<<p>>).from = "rows"
      BY <1>2, <1>6, <1>9
    <2>3. Counting(cycles, v.ask.kind, v.had, v.cov, <<p>>, [w \in W |-> 0], <<>>,
                   v.stale \cup v.twice)
      BY <1>4, <1>5, <2>1, <2>2, RowsFirst
    <2> QED
      BY <2>3 DEF p, W
  <1> QED
    BY <1>8, <1>9

\* The buckets and then the rest of the window, side by side, from cycles.
LEMMA RowsThen ==
  ASSUME NEW p \in PieceRec, NEW X \in Seq(PieceRec), NEW W, NEW kind,
         \A i \in DOMAIN X : X[i].from = "cycles",
         \A i, j \in DOMAIN X : i < j => X[i].hi <= X[j].lo, p.from = "rows",
         kind = "profile" => \A w \in W : w[1] <= p.lo /\ p.hi <= w[2],
         kind = "profile" => \A w \in W, i \in DOMAIN X : w[1] <= X[i].lo /\ X[i].hi <= w[2]
  PROVE  /\ PiecesOk(kind, W, <<p>> \o X) /\ Head(<<p>> \o X) = p /\ Tail(<<p>> \o X) = X
  <1> DEFINE todo == <<p>> \o X
  <1>1. todo \in Seq(PieceRec) /\ todo # <<>> /\ Head(todo) = p /\ Tail(todo) = X
    BY PrependIs
  <1> HIDE DEF todo
  <1>2. /\ Head(todo) = todo[1]
        /\ \A i \in DOMAIN todo : i = 1 \/ (i - 1 \in DOMAIN Tail(todo)
                                            /\ Tail(todo)[i - 1] = todo[i])
        /\ DOMAIN todo \subseteq Int
    BY <1>1, TodoIs
  <1>3. \A i \in DOMAIN todo : /\ i \in Int
                               /\ \/ i = 1 /\ todo[i] = p
                                  \/ i - 1 \in DOMAIN X /\ X[i - 1] = todo[i]
    BY <1>1, <1>2
  <1>4. \A i \in DOMAIN todo : i = 1 \/ todo[i].from = "cycles"
    BY <1>3
  <1>5. \A i, j \in DOMAIN todo :
          i < j /\ todo[i].from = "cycles" => todo[i].hi <= todo[j].lo \/ todo[j].hi <= todo[i].lo
    <2> SUFFICES ASSUME NEW i \in DOMAIN todo, NEW j \in DOMAIN todo, i < j,
                        todo[i].from = "cycles"
                 PROVE  todo[i].hi <= todo[j].lo
      OBVIOUS
    <2>1. i \in Int /\ i - 1 \in DOMAIN X /\ X[i - 1] = todo[i]
      BY <1>3
    <2>2. j \in Int /\ (j = 1 \/ (j - 1 \in DOMAIN X /\ X[j - 1] = todo[j]))
      BY <1>3
    <2>3. DOMAIN X = 1..Len(X) /\ Len(X) \in Nat
      BY LenProperties
    <2>4. j # 1
      BY <2>1, <2>2, <2>3
    <2>5. i - 1 < j - 1
      BY <2>1, <2>2
    <2> QED
      BY <2>1, <2>2, <2>4, <2>5
  <1>6. kind = "profile" =>
          \A w \in W, i \in DOMAIN todo : w[1] <= todo[i].lo /\ todo[i].hi <= w[2]
    BY <1>3
  <1>7. PiecesOk(kind, W, todo)
    BY <1>1, <1>4, <1>5, <1>6 DEF PiecesOk
  <1> QED
    BY <1>1, <1>7 DEF todo

\* The whole hours of a window from the buckets and its edges from cycles.
LEMMA ProfileStart ==
  ASSUME CoreInv, NEW v, Ready(cycles, rows, v), v.ask.kind = "profile",
         NEW lo \in Int, NEW hi \in Int, NEW next \in {"answer", "window"},
         NEW whole, WholeOk(v.had, {<<lo, hi>>}, whole)
  PROVE  ViewOk(cycles, rows, ProfileWindow(v, lo, hi, next, whole))
  <1> DEFINE mid == WholeHours(lo, hi, v.cov)
             X == EdgePieces(lo, hi, v.cov)
             p == Piece("rows", mid[1], mid[2])
             W == {<<lo, hi>>}
             todo == (IF mid[2] > mid[1] THEN <<p>> ELSE <<>>) \o X
  <1>1. ProfileWindow(v, lo, hi, next, whole) = Start(v, W, todo, next, whole)
    BY DEF ProfileWindow, EdgePieces
  <1>2. Found(cycles, rows, v) /\ v.had \subseteq cycles
    BY DEF Ready, Found
  <1>3. CovIs(v.cov)
    BY <1>2, CovHours DEF CovIs
  <1>4. /\ mid[1] \in Int /\ mid[2] \in Int
        /\ mid[2] > mid[1] =>
             /\ v.cov # <<>> /\ lo <= mid[1] /\ mid[2] <= hi
             /\ v.cov[1] <= mid[1] /\ mid[2] <= v.cov[2]
             /\ Floor(mid[1]) = mid[1] /\ Floor(mid[2]) = mid[2]
    BY <1>3, MidIs
  <1>5. /\ X \in Seq(PieceRec) /\ \A i \in DOMAIN X : X[i].from = "cycles"
        /\ mid[2] <= mid[1] => X = <<Piece("cycles", lo, hi)>>
        /\ mid[2] > mid[1] =>
             /\ \A i \in DOMAIN X : \/ X[i].lo = lo /\ X[i].hi = mid[1]
                                    \/ X[i].lo = mid[2] /\ X[i].hi = hi
             /\ \A i, j \in DOMAIN X : i < j => X[i].hi <= X[j].lo
             /\ \A t \in Int : lo <= t /\ t < hi /\ ~Awaits(X, t) => mid[1] <= t /\ t < mid[2]
    BY <1>3, EdgesAre
  <1>6. p \in PieceRec /\ p.from = "rows" /\ p.lo = mid[1] /\ p.hi = mid[2]
    BY <1>4, PieceIs
  <1>7. WindowsOk(W) /\ \A w \in W : w = <<lo, hi>> /\ w[1] = lo /\ w[2] = hi
    <2> DEFINE all == <<lo, hi>>
    <2>1. IsWindow(all) /\ all[1] = lo /\ all[2] = hi
      BY DEF IsWindow
    <2> HIDE DEF all
    <2>2. WindowsOk({all})
      BY <2>1, FS_Singleton DEF WindowsOk
    <2> QED
      BY <2>1, <2>2 DEF all
  <1> HIDE DEF mid, X, p, W, todo
  <1> SUFFICES Counting(cycles, v.ask.kind, v.had, v.cov, todo, [w \in W |-> 0], whole,
                        v.stale \cup v.twice)
    <2>1. next \in {"answer", "sigma", "window", "spread"} /\ (next # "sigma" \/ v.cov # <<>>)
      OBVIOUS
    <2>2. Counting(cycles, v.ask.kind, v.had, v.cov, todo, Zeros(W), whole, v.stale \cup v.twice)
      BY DEF Zeros
    <2>3. ViewOk(cycles, rows, Start(v, W, todo, next, whole))
      BY <2>1, <2>2, StartOk
    <2> QED
      BY <1>1, <2>3
  <1>8. CASE mid[2] > mid[1]
    <2>1. todo = <<p>> \o X
      BY <1>8 DEF todo
    <2>2. \A w \in W : w[1] <= p.lo /\ p.hi <= w[2]
      BY <1>4, <1>6, <1>7, <1>8
    <2>3. \A w \in W, i \in DOMAIN X : w[1] <= X[i].lo /\ X[i].hi <= w[2]
      BY <1>4, <1>5, <1>7, <1>8
    <2>4. PiecesOk("profile", W, todo) /\ Head(todo) = p /\ Tail(todo) = X
      BY <1>5, <1>6, <1>8, <2>1, <2>2, <2>3, RowsThen
    <2>5. ASSUME NEW w \in W
          PROVE  RowsOf("profile", v.had, v.cov, todo, w)
      <3> DEFINE s == Share("profile", p, w)
      <3>1. s = <<mid[1], mid[2]>>
        BY <1>6 DEF Share
      <3>2. s[1] = mid[1] /\ s[2] = mid[2]
        BY <3>1
      <3> HIDE DEF s
      <3>3. \A c \in Seen(v.had, X, w) : /\ s[1] <= c.ts /\ c.ts < s[2]
                                         /\ v.cov[1] <= c.ts /\ c.ts < v.cov[2]
        <4> SUFFICES ASSUME NEW c \in Seen(v.had, X, w)
                     PROVE  /\ s[1] <= c.ts /\ c.ts < s[2]
                            /\ v.cov[1] <= c.ts /\ c.ts < v.cov[2]
          OBVIOUS
        <4>1. c \in cycles /\ w[1] <= c.ts /\ c.ts < w[2] /\ ~Awaits(X, c.ts)
          BY <1>2 DEF Seen
        <4>2. c.ts \in Int
          BY <4>1, CyclesTimed
        <4>3. mid[1] <= c.ts /\ c.ts < mid[2]
          BY <1>5, <1>7, <1>8, <4>1, <4>2
        <4>4. v.cov[1] \in Int /\ v.cov[2] \in Int
          BY <1>2, <1>4, <1>8, CovHours
        <4> QED
          BY <1>4, <1>8, <3>2, <4>2, <4>3, <4>4
      <3>4. ASSUME NEW h \in Int, NEW t \in Int, Floor(h) = h, s[1] <= h, h < s[2],
                   h <= t, t < h + PerHour
            PROVE  ~Awaits(X, t)
        <4>1. h + PerHour <= mid[2]
          BY <1>4, <1>8, <3>2, <3>4, HourBefore
        <4>2. mid[1] <= t /\ t < mid[2]
          BY <1>4, <3>2, <3>4, <4>1, PerHourIs
        <4> QED
          BY <1>4, <1>5, <1>8, <4>2 DEF Awaits
      <3> QED
        BY <1>4, <1>8, <2>4, <3>2, <3>3, <3>4 DEF RowsOf, s
    <2>6. Head(todo).from = "rows" /\ v.cov # <<>> /\ PiecesOk(v.ask.kind, W, todo)
      BY <1>4, <1>6, <1>8, <2>4
    <2>7. WholeOk(v.had, W, whole)
      BY DEF W
    <2>8. \A w \in W : RowsOf(v.ask.kind, v.had, v.cov, todo, w)
      BY <2>5
    <2>9. Counting(cycles, v.ask.kind, v.had, v.cov, todo, [w \in W |-> 0], whole,
                   v.stale \cup v.twice)
      BY <1>7, <2>6, <2>7, <2>8, RowsFirst
    <2> QED
      BY <2>9
  <1>9. CASE ~(mid[2] > mid[1])
    <2> DEFINE q == Piece("cycles", lo, hi)
    <2>1. q \in PieceRec /\ q.from = "cycles" /\ q.lo = lo /\ q.hi = hi
      BY PieceIs
    <2>2. X = <<q>>
      BY <1>4, <1>5, <1>9
    <2>3. todo = <<q>>
      <3>1. todo = <<>> \o X
        BY <1>9 DEF todo
      <3>2. <<>> \o X = X
        BY <1>5, ConcatEmptySeq
      <3> QED
        BY <2>2, <3>1, <3>2
    <2> HIDE DEF q
    <2>4. PiecesOk(v.ask.kind, W, <<q>>)
      BY <1>7, <2>1, OneIsOk
    <2>5. Head(<<q>>).from = "cycles" /\ \A t : Awaits(<<q>>, t) <=> q.lo <= t /\ t < q.hi
      BY <2>1, OnePiece
    <2>6. WholeOk(v.had, W, whole)
      BY DEF W
    <2>7. \A w \in W : \A t \in Int : w[1] <= t /\ t < w[2] => Awaits(<<q>>, t)
      BY <1>7, <2>1, <2>5
    <2>8. Counting(cycles, v.ask.kind, v.had, v.cov, <<q>>, [w \in W |-> 0], whole,
                   v.stale \cup v.twice)
      BY <1>2, <1>7, <2>4, <2>5, <2>6, <2>7, CyclesTimed, CyclesFirst
    <2> QED
      BY <2>3, <2>8
  <1> QED
    BY <1>8, <1>9

\* The whole period, or what the coverage leaves of it.
LEMMA ProfilePlanOk ==
  ASSUME CoreInv, NEW v, Ready(cycles, rows, v), v.ask.kind = "profile"
  PROVE  ViewOk(cycles, rows, ProfilePlan(v))
  <1> DEFINE lo == ProfileFrom(v)
             hi == ProfileTo(v)
             end == Ceil(v.ask.to)
  <1>1. v.ask.from \in Int /\ v.ask.to \in Int
    BY DEF Ready, Asked
  <1>2. lo \in Int /\ end \in Int
    BY <1>1, CeilIs, FloorBounds DEF ProfileFrom
  <1>3. /\ v.last \in Int /\ v.had \subseteq cycles /\ Found(cycles, rows, v)
        /\ \A c \in v.had : c.ts <= v.last
    BY DEF Ready, Found
  <1>4. \A c \in v.had : c.ts \in Nat
    BY <1>3, CyclesTimed
  <1>5. hi \in Int /\ hi <= end /\ \A c \in v.had : c.ts < end => c.ts < hi
    <2>1. CASE v.last = -1
      <3>1. hi = end
        BY <2>1 DEF ProfileTo
      <3> QED
        BY <1>2, <3>1
    <2>2. CASE v.last # -1
      <3> DEFINE e == Ceil(v.last + 1)
      <3>1. e \in Int /\ v.last + 1 <= e
        BY <1>3, CeilIs
      <3>2. hi = Min({end, e})
        BY <2>2 DEF ProfileTo
      <3> HIDE DEF e, end
      <3>3. hi = IF end <= e THEN end ELSE e
        BY <1>2, <3>1, <3>2, MinTwo
      <3> HIDE DEF hi
      <3>4. \A c \in v.had : c.ts < e
        BY <1>3, <1>4, <3>1
      <3> QED
        BY <1>2, <1>4, <3>1, <3>3, <3>4
    <2> QED
      BY <2>1, <2>2
  <1>6. WholeOk(v.had, {<<lo, hi>>}, <<lo, end>>)
    <2> HIDE DEF lo, hi, end
    <2> DEFINE w == <<lo, hi>>
               all == <<lo, end>>
    <2>1. w[1] = lo /\ w[2] = hi /\ all[1] = lo /\ all[2] = end
      OBVIOUS
    <2> HIDE DEF w, all
    <2>2. WholeOk(v.had, {w}, all)
      BY <1>2, <1>5, <2>1 DEF WholeOk
    <2> QED
      BY <2>2 DEF w, all
  <1>7. ViewOk(cycles, rows, ProfileWindow(v, lo, hi, "window", <<lo, end>>))
    BY <1>2, <1>5, <1>6, ProfileStart
  <1>8. v.cov # <<>> => ViewOk(cycles, rows, ProfileWindow(v, lo, v.cov[2], "window", <<>>))
    <2>1. WholeOk(v.had, {<<lo, v.cov[2]>>}, <<>>)
      BY DEF WholeOk
    <2>2. v.cov # <<>> => v.cov[2] \in Int
      BY <1>3, CovHours
    <2> QED
      BY <1>2, <2>1, <2>2, ProfileStart
  <1>9. ViewOk(cycles, rows, Idle)
    BY DEF ViewOk
  <1> HIDE DEF lo, hi, end
  <1>10. \/ ProfilePlan(v) = Idle
         \/ ProfilePlan(v) = ProfileWindow(v, lo, hi, "window", <<lo, end>>)
         \/ v.cov # <<>> /\ ProfilePlan(v) = ProfileWindow(v, lo, v.cov[2], "window", <<>>)
    BY <1>2, <1>5 DEF ProfilePlan, lo, hi, end
  <1> QED
    BY <1>7, <1>8, <1>9, <1>10

\* The edges of a series by bucket.
LEMMA QualityEdges ==
  ASSUME CoreInv, NEW v, Ready(cycles, rows, v), v.ask.kind = "quality", v.cov # <<>>
  PROVE  LET g == Grain(v.ask)
             lo == FloorTo(v.ask.from, g)
             hi == CeilTo(v.ask.to, g)
         IN /\ g \in {PerHour, Day} /\ lo \in Int /\ hi \in Int /\ CoveredTo(v) \in Int
            /\ CoveredTo(v) <= v.cov[2]
            /\ DataEnd(v) \in Int /\ DataEnd(v) >= v.cov[2] /\ \A c \in v.had : c.ts < DataEnd(v)
            /\ QualityFrom(v) \in Int /\ Multiple(QualityFrom(v), g) /\ lo <= QualityFrom(v)
            /\ v.prior => v.cov[1] <= QualityFrom(v)
            /\ QualityTo(v) \in Int /\ Multiple(QualityTo(v), g) /\ QualityTo(v) <= hi
            /\ QualityTo(v) > CoveredTo(v) \/ ~(hi > CoveredTo(v) /\ DataEnd(v) - v.cov[2] > MaxTail)
                 => QualityTo(v) = hi \/ DataEnd(v) <= QualityTo(v)
  <1> DEFINE g == Grain(v.ask)
             lo == FloorTo(v.ask.from, g)
             hi == CeilTo(v.ask.to, g)
             k == CoveredTo(v)
             e == DataEnd(v)
             ce == CeilTo(e, g)
             cc == CeilTo(v.cov[1], g)
             f == QualityFrom(v)
             t == QualityTo(v)
  <1>1. v.ask.from \in Int /\ v.ask.to \in Int /\ v.ask.grain \in {PerHour, Day}
    BY DEF Ready, Asked
  <1>2. g \in {PerHour, Day}
    BY <1>1 DEF Grain
  <1>3. Found(cycles, rows, v) /\ v.had \subseteq cycles /\ v.last \in Int
        /\ \A c \in v.had : c.ts <= v.last
    BY DEF Ready, Found
  <1>4. v.cov[1] \in Int /\ v.cov[2] \in Int
    BY <1>3, CovHours
  <1>5. k = FloorTo(v.cov[2], g)
    BY DEF CoveredTo
  <1> HIDE DEF g
  <1>6. k \in Int /\ Multiple(k, g) /\ k <= v.cov[2]
    BY <1>2, <1>4, <1>5, FloorToIs
  <1>7. e = IF v.cov[2] <= v.last + 1 THEN v.last + 1 ELSE v.cov[2]
    BY <1>3, <1>4, MaxTwo DEF DataEnd
  <1>8. e \in Int /\ e >= v.cov[2] /\ e >= v.last + 1
    BY <1>3, <1>4, <1>7
  <1> HIDE DEF e, k
  <1>9. \A c \in v.had : c.ts < e
    <2>1. \A c \in v.had : c.ts \in Int
      BY <1>3, CyclesTimed
    <2> QED
      BY <1>3, <1>8, <2>1
  <1>10. lo \in Int /\ Multiple(lo, g) /\ hi \in Int /\ Multiple(hi, g)
    BY <1>1, <1>2, FloorToIs, CeilToIs
  <1>11. cc \in Int /\ Multiple(cc, g) /\ v.cov[1] <= cc
    BY <1>2, <1>4, CeilToIs
  <1>12. ce \in Int /\ Multiple(ce, g) /\ e <= ce
    BY <1>2, <1>8, CeilToIs
  <1>13. f = IF v.prior /\ lo < v.cov[1] THEN Max({lo, cc}) ELSE lo
    BY DEF QualityFrom, g
  <1>14. t = CASE hi <= k -> hi
               [] hi > k /\ e - v.cov[2] > MaxTail -> k
               [] OTHER -> Min({hi, ce})
    BY DEF QualityTo, g, k, e
  <1> HIDE DEF lo, hi, cc, ce, f, t
  <1>15. Max({lo, cc}) = IF lo <= cc THEN cc ELSE lo
    BY <1>10, <1>11, MaxTwo
  <1>16. Min({hi, ce}) = IF hi <= ce THEN hi ELSE ce
    BY <1>10, <1>12, MinTwo
  <1>17. f \in Int /\ Multiple(f, g) /\ lo <= f /\ (v.prior => v.cov[1] <= f)
    BY <1>4, <1>10, <1>11, <1>13, <1>15
  <1>18. MaxTail \in Int
    BY ReadingsAssumption
  <1>19. t \in Int /\ Multiple(t, g) /\ t <= hi
    <2>1. CASE hi <= k
      <3>1. t = hi
        BY <1>6, <1>10, <1>14, <2>1
      <3> QED
        BY <1>10, <3>1
    <2>2. CASE ~(hi <= k) /\ e - v.cov[2] > MaxTail
      <3>1. t = k
        BY <1>6, <1>10, <1>14, <2>2
      <3> QED
        BY <1>6, <1>10, <2>2, <3>1
    <2>3. CASE ~(hi <= k) /\ ~(e - v.cov[2] > MaxTail)
      <3>1. t = Min({hi, ce})
        BY <1>14, <2>3
      <3> QED
        BY <1>10, <1>12, <1>16, <3>1
    <2> QED
      BY <2>1, <2>2, <2>3
  <1>20. t > k \/ ~(hi > k /\ e - v.cov[2] > MaxTail) => t = hi \/ e <= t
    <2>1. CASE hi <= k
      <3>1. t = hi
        BY <1>6, <1>10, <1>14, <2>1
      <3> QED
        BY <1>10, <3>1
    <2>2. CASE ~(hi <= k) /\ e - v.cov[2] > MaxTail
      <3>1. t = k /\ hi > k
        BY <1>6, <1>10, <1>14, <2>2
      <3> QED
        BY <1>6, <2>2, <3>1
    <2>3. CASE ~(hi <= k) /\ ~(e - v.cov[2] > MaxTail)
      <3>1. t = Min({hi, ce})
        BY <1>14, <2>3
      <3> QED
        BY <1>8, <1>10, <1>12, <1>16, <3>1
    <2> QED
      BY <2>1, <2>2, <2>3
  <1> QED
    BY <1>2, <1>6, <1>8, <1>9, <1>10, <1>17, <1>19, <1>20 DEF g, lo, hi, k, e, f, t

LEMMA QualityStart ==
  ASSUME CoreInv, NEW v, Ready(cycles, rows, v), v.ask.kind = "quality", v.cov # <<>>,
         v.prior \/ \A c \in v.had : v.cov[1] <= c.ts
  PROVE  ViewOk(cycles, rows, QualityPlan(v))
  <1> DEFINE g == Grain(v.ask)
             lo == FloorTo(v.ask.from, g)
             hi == CeilTo(v.ask.to, g)
             k == CoveredTo(v)
             e == DataEnd(v)
             f == QualityFrom(v)
             t == QualityTo(v)
             X == QualityTail(v)
             p == Piece("rows", f, t)
             W == Buckets(f, t, g)
             todo == <<p>> \o X
             whole == QualityWhole(v)
             end == Min({hi, e})
             q == Piece("cycles", v.cov[2], end)
  <1>1. QualityPlan(v) = Idle \/ QualityPlan(v) = Start(v, W, todo, "answer", whole)
    BY DEF QualityPlan
  <1>2. X = IF t > k /\ end > v.cov[2] THEN <<q>> ELSE <<>>
    BY DEF QualityTail
  <1>3. whole = IF f > lo \/ (hi > k /\ e - v.cov[2] > MaxTail) THEN <<>> ELSE <<lo, hi>>
    BY DEF QualityWhole
  <1>4. /\ g \in {PerHour, Day} /\ lo \in Int /\ hi \in Int /\ k \in Int
        /\ k <= v.cov[2]
        /\ e \in Int /\ e >= v.cov[2] /\ \A c \in v.had : c.ts < e
        /\ f \in Int /\ Multiple(f, g) /\ lo <= f
        /\ v.prior => v.cov[1] <= f
        /\ t \in Int /\ Multiple(t, g) /\ t <= hi
        /\ t > k \/ ~(hi > k /\ e - v.cov[2] > MaxTail) => t = hi \/ e <= t
    BY QualityEdges
  <1>5. /\ Found(cycles, rows, v) /\ v.had \subseteq cycles /\ \A c \in v.had : c.ts \in Int
        /\ v.cov[1] \in Int /\ v.cov[2] \in Int /\ Floor(v.cov[2]) = v.cov[2]
    BY CyclesTimed, CovHours DEF Ready, Found
  <1> HIDE DEF g, lo, hi, k, e, f, t
  <1>6. end = IF hi <= e THEN hi ELSE e
    BY <1>4, MinTwo
  <1> HIDE DEF end
  <1>7. q \in PieceRec /\ q.from = "cycles" /\ q.lo = v.cov[2] /\ q.hi = end
    BY <1>4, <1>5, <1>6, PieceIs
  <1>8. p \in PieceRec /\ p.from = "rows" /\ p.lo = f /\ p.hi = t
    BY <1>4, PieceIs
  <1>9. /\ IsFiniteSet(W)
        /\ \A w \in W : /\ IsWindow(w) /\ Floor(w[1]) = w[1] /\ Floor(w[2]) = w[2]
                        /\ f <= w[1] /\ w[1] < w[2] /\ w[2] <= t
        /\ \A w, x \in W : w = x \/ w[2] <= x[1] \/ x[2] <= w[1]
        /\ \A u \in Int : f <= u /\ u < t => \E w \in W : w[1] <= u /\ u < w[2]
    BY <1>4, BucketsAre
  <1> HIDE DEF W, p, q, X, todo, whole
  <1>10. /\ X \in Seq(PieceRec) /\ \A i \in DOMAIN X : X[i].from = "cycles"
         /\ \A i, j \in DOMAIN X : i < j => X[i].hi <= X[j].lo
         /\ \A u : Awaits(X, u) <=> t > k /\ end > v.cov[2] /\ v.cov[2] <= u /\ u < end
    <2>1. CASE t > k /\ end > v.cov[2]
      <3>1. X = <<q>>
        BY <1>2, <2>1
      <3>2. /\ <<q>> \in Seq(PieceRec) /\ DOMAIN <<q>> = {1} /\ <<q>>[1] = q
            /\ \A u : Awaits(<<q>>, u) <=> q.lo <= u /\ u < q.hi
        BY <1>7, OnePiece
      <3> QED
        BY <1>7, <2>1, <3>1, <3>2
    <2>2. CASE ~(t > k /\ end > v.cov[2])
      <3>1. X = <<>>
        BY <1>2, <2>2
      <3>2. DOMAIN X = {} /\ X \in Seq(PieceRec)
        BY <3>1
      <3>3. \A u : ~Awaits(X, u)
        BY <3>2 DEF Awaits
      <3> QED
        BY <2>2, <3>2, <3>3
    <2> QED
      BY <2>1, <2>2
  <1>11. v.ask.kind # "profile"
    OBVIOUS
  <1>12. PiecesOk(v.ask.kind, W, todo) /\ Head(todo) = p /\ Tail(todo) = X
    BY <1>8, <1>10, <1>11, RowsThen DEF todo
  <1>13. ASSUME NEW w \in W
         PROVE  RowsOf(v.ask.kind, v.had, v.cov, todo, w)
    <2> DEFINE s == Share(v.ask.kind, p, w)
    <2>1. w[1] \in Int /\ w[2] \in Int /\ f <= w[1] /\ w[2] <= t
      BY <1>9 DEF IsWindow
    <2>2. s = <<w[1], w[2]>>
      BY <1>4, <1>8, <2>1, MaxTwo, MinTwo DEF Share
    <2>3. s[1] = w[1] /\ s[2] = w[2]
      BY <2>2
    <2> HIDE DEF s
    <2>4. ASSUME NEW c \in Seen(v.had, X, w)
          PROVE  /\ s[1] <= c.ts /\ c.ts < s[2] /\ v.cov[1] <= c.ts /\ c.ts < v.cov[2]
      <3>1. c \in v.had /\ c.ts \in Int /\ w[1] <= c.ts /\ c.ts < w[2] /\ ~Awaits(X, c.ts)
        BY <1>5 DEF Seen
      <3>2. v.cov[1] <= c.ts
        BY <1>4, <1>5, <2>1, <3>1
      <3>3. c.ts < v.cov[2]
        <4> SUFFICES ASSUME v.cov[2] <= c.ts
                     PROVE  FALSE
          BY <1>5, <3>1
        <4>1. c.ts < t /\ t > k /\ c.ts < e
          BY <1>4, <1>5, <2>1, <3>1
        <4>2. c.ts < hi
          BY <1>4, <3>1, <4>1
        <4>3. c.ts < end /\ end > v.cov[2]
          BY <1>4, <1>5, <1>6, <3>1, <4>1, <4>2
        <4> QED
          BY <1>10, <3>1, <4>1, <4>3
      <3> QED
        BY <2>3, <3>1, <3>2, <3>3
    <2>5. ASSUME NEW h \in Int, NEW u \in Int, Floor(h) = h, u < h + PerHour, Awaits(X, u)
          PROVE  v.cov[2] <= h
      <3> SUFFICES ASSUME h < v.cov[2]
                   PROVE  FALSE
        BY <1>5
      <3>1. h + PerHour <= v.cov[2]
        BY <1>5, <2>5, HourBefore
      <3>2. v.cov[2] <= u
        BY <1>10, <2>5
      <3> QED
        BY <1>5, <2>5, <3>1, <3>2, PerHourIs
    <2> QED
      BY <1>9, <1>12, <2>3, <2>4, <2>5 DEF RowsOf, s
  <1>14. WholeOk(v.had, W, whole)
    <2> SUFFICES ASSUME whole # <<>>
                 PROVE  /\ \A w \in W : whole[1] <= w[1] /\ w[2] <= whole[2]
                        /\ whole[1] \in Int /\ whole[2] \in Int
                        /\ \A c \in v.had : whole[1] <= c.ts /\ c.ts < whole[2] =>
                             \E w \in W : w[1] <= c.ts /\ c.ts < w[2]
      BY DEF WholeOk
    <2>1. whole = <<lo, hi>> /\ ~(f > lo) /\ ~(hi > k /\ e - v.cov[2] > MaxTail)
      BY <1>3
    <2>2. whole[1] = lo /\ whole[2] = hi /\ f = lo /\ (t = hi \/ e <= t)
      BY <1>4, <2>1
    <2>3. \A w \in W : lo <= w[1] /\ w[2] <= hi
      BY <1>4, <1>9, <2>2 DEF IsWindow
    <2>4. \A c \in v.had : lo <= c.ts /\ c.ts < hi => f <= c.ts /\ c.ts < t
      BY <1>4, <1>5, <2>2
    <2> QED
      BY <1>4, <1>5, <1>9, <2>2, <2>3, <2>4
  <1>15. WindowsOk(W) /\ Head(todo).from = "rows"
    BY <1>8, <1>9, <1>12 DEF WindowsOk
  <1>16. Counting(cycles, v.ask.kind, v.had, v.cov, todo, [w \in W |-> 0], whole,
                  v.stale \cup v.twice)
    BY <1>12, <1>13, <1>14, <1>15, RowsFirst
  <1>17. Counting(cycles, v.ask.kind, v.had, v.cov, todo, Zeros(W), whole, v.stale \cup v.twice)
    BY <1>16 DEF Zeros
  <1>18. ViewOk(cycles, rows, Start(v, W, todo, "answer", whole))
    BY <1>17, StartOk
  <1>19. ViewOk(cycles, rows, Idle)
    BY DEF ViewOk
  <1> QED
    BY <1>1, <1>18, <1>19

-----------------------------------------------------------------------------
(* Every step of a request keeps what it has found                            *)

LEMMA BracketsLess ==
  ASSUME NEW C, NEW X, NEW Y, IsFiniteSet(Y), NEW w, NEW n, Brackets(C, Y, w, n),
         Within(X, w[1], w[2]) \subseteq Within(Y, w[1], w[2])
  PROVE  Brackets(C, X, w, n)
  <1> DEFINE A == Within(X, w[1], w[2])
             B == Within(Y, w[1], w[2])
  <1>1. B \subseteq Y
    BY DEF Within
  <1> HIDE DEF A, B
  <1>2. IsFiniteSet(B)
    BY <1>1, Fewer
  <1>3. Cardinality(A) \in Nat /\ Cardinality(B) \in Nat /\ Cardinality(A) <= Cardinality(B)
    BY <1>2, Fewer DEF A, B
  <1>4. n \in Nat /\ Cardinality(B) <= n /\ n <= Cardinality(Within(C, w[1], w[2]))
    BY DEF Brackets, B
  <1>5. Cardinality(A) <= n
    BY <1>3, <1>4
  <1> QED
    BY <1>4, <1>5 DEF Brackets, A

\* A request elsewhere than at its statements.
LEMMA Elsewhere ==
  ASSUME NEW C, NEW R, NEW v, Ready(C, R, v), v.pc \notin {"pieces", "cache"},
         v.pc \in {"prior", "sigma"} \/ (v.pc = "last" /\ v.ask.kind = "quality") => v.cov # <<>>,
         v.pc # "last" \/ v.cov = <<>> \/ v.prior \/ \A c \in v.had : v.cov[1] <= c.ts
  PROVE  ViewOk(C, R, v)
  <1>1. /\ IsView(v) /\ Asked(v.ask) /\ Found(C, R, v) /\ CountsOk(C, v.had, v.done)
        /\ v.stale \cup v.twice \subseteq Int
        /\ v.ask.kind = "baseline" => v.stale = {} /\ v.twice = {} /\ \A x \in v.done : ~x.excused
    BY DEF Ready
  <1>2. PlaceOk(v)
    BY <1>1 DEF PlaceOk
  <1> QED
    BY <1>1, <1>2 DEF ViewOk

LEMMA AskStep ==
  ASSUME CoreInv, NEW kind, NEW pc \in {"cover", "memory", "window"}, Ask(kind, pc)
  PROVE  ViewInv' /\ UNCHANGED <<cycles, rows, recall, baseline>> /\ shown' = {}
  <1>1. PICK a \in scope.views : view' =
          [ask |-> a, pc |-> pc,
           had |-> cycles, last |-> IF cycles = {} THEN -1 ELSE Max(Instants),
           print |-> <<>>, cov |-> <<>>, prior |-> FALSE,
           todo |-> <<>>, got |-> <<>>, next |-> "answer", whole |-> <<>>, done |-> {},
           stale |-> {}, twice |-> {}]
    BY DEF Ask
  <1>2. UNCHANGED <<cycles, rows, recall, baseline>> /\ shown' = {}
    BY DEF Ask
  <1> DEFINE last == IF cycles = {} THEN -1 ELSE Max(Instants)
             q == view'
  <1>3. Asked(a)
    <2>1. scope \in Scopes
      BY DEF CoreInv, CyclesOk
    <2> QED
      BY <2>1, ReadingsAssumption DEF Asked
  <1>4. last \in Int /\ \A c \in cycles : c.ts <= last
    BY NewestAll
  <1> HIDE DEF last
  <1>5. /\ IsView(q) /\ q.ask = a /\ q.pc = pc /\ q.had = cycles /\ q.last = last
        /\ q.cov = <<>> /\ q.done = {} /\ q.stale = {} /\ q.twice = {}
    BY <1>1 DEF IsView, last
  <1> HIDE DEF q
  <1>6. Found(cycles, rows, q) /\ CountsOk(cycles, q.had, q.done)
    BY <1>4, <1>5 DEF Found, CountsOk
  <1>7. Ready(cycles, rows, q)
    BY <1>3, <1>5, <1>6 DEF Ready
  <1>8. ViewOk(cycles, rows, q)
    BY <1>5, <1>7, Elsewhere
  <1> QED
    BY <1>2, <1>8 DEF ViewInv, q

LEMMA ViewingLeaves ==
  ASSUME NEW pc, NEW kinds, Viewing(pc, kinds)
  PROVE  /\ view # Idle /\ view.pc = pc /\ view.ask.kind \in kinds
         /\ cycles' = cycles /\ rows' = rows
  BY DEF Viewing, vars, rollupVars

LEMMA CoverStep ==
  ASSUME CoreInv, ViewInv, FetchCover
  PROVE  ViewInv'
  <1>1. /\ view # Idle /\ view.pc = "cover" /\ cycles' = cycles /\ rows' = rows
    BY ViewingLeaves DEF FetchCover
  <1>2. Ready(cycles, rows, view)
    BY <1>1, ViewReady
  <1>3. CASE view' = Idle
    BY <1>3 DEF ViewInv, ViewOk
  <1>4. CASE rows = <<>> /\ view.ask.kind = "profile" /\ view' = [view EXCEPT !.pc = "last"]
    <2> DEFINE q == view'
    <2>1. IsView(view) /\ view.cov = <<>>
      <3>1. DOMAIN rows = {}
        BY <1>4
      <3> QED
        BY <1>2, <3>1 DEF Ready, Found
    <2>2. /\ IsView(q) /\ q.ask = view.ask /\ q.pc = "last" /\ q.had = view.had
          /\ q.last = view.last /\ q.cov = <<>> /\ q.done = view.done
          /\ q.stale = view.stale /\ q.twice = view.twice
      BY <1>4, <2>1 DEF IsView
    <2> HIDE DEF q
    <2>3. Ready(cycles, rows, q)
      BY <1>2, <2>1, <2>2 DEF Ready, Found
    <2>4. q.ask.kind # "quality"
      BY <1>4, <2>2
    <2>5. ViewOk(cycles, rows, q)
      BY <2>2, <2>3, <2>4, Elsewhere
    <2> QED
      BY <1>1, <2>5 DEF ViewInv, q
  <1>5. CASE rows # <<>> /\ view' = [view EXCEPT !.pc = "prior",
                                  !.cov = <<Min(DOMAIN rows), Max(DOMAIN rows) + PerHour>>]
    <2> DEFINE lo == Min(DOMAIN rows)
               hi == Max(DOMAIN rows)
               q == view'
    <2>1. lo \in DOMAIN rows /\ hi \in DOMAIN rows
      BY <1>5, RowsMax DEF CoreInv, RowsOk
    <2>2. hi \in Int
      BY <2>1 DEF CoreInv, RowsOk, Counts
    <2> HIDE DEF lo, hi
    <2>3. hi + PerHour \in Int /\ (hi + PerHour) - PerHour = hi
      BY <2>2, PerHourIs
    <2>4. /\ IsView(q) /\ q.ask = view.ask /\ q.pc = "prior" /\ q.had = view.had
          /\ q.last = view.last /\ q.cov = <<lo, hi + PerHour>> /\ q.done = view.done
          /\ q.stale = view.stale /\ q.twice = view.twice
      BY <1>2, <1>5 DEF IsView, lo, hi, Ready
    <2>5. q.cov[1] = lo /\ q.cov[2] = hi + PerHour /\ q.cov # <<>>
      BY <2>4
    <2> HIDE DEF q
    <2>6. Ready(cycles, rows, q)
      BY <1>2, <2>1, <2>3, <2>4, <2>5 DEF Ready, Found
    <2>7. ViewOk(cycles, rows, q)
      BY <2>4, <2>5, <2>6, Elsewhere
    <2> QED
      BY <1>1, <2>7 DEF ViewInv, q
  <1> QED
    BY <1>3, <1>4, <1>5 DEF FetchCover, Declined

LEMMA Goes ==
  ASSUME NEW v, Go(v)
  PROVE  view' = v /\ shown' = shown
  BY DEF Go, Declined

LEMMA PriorStep ==
  ASSUME CoreInv, ViewInv, FetchPrior
  PROVE  ViewInv' /\ shown' = shown
  <1> DEFINE v == [view EXCEPT !.prior = \E t \in Instants : t < view.cov[1]]
             W == Buckets(v.cov[1], v.cov[2], PerHour)
             todo == <<Piece("rows", v.cov[1], v.cov[2])>>
  <1>1. /\ view # Idle /\ view.pc = "prior" /\ cycles' = cycles /\ rows' = rows
        /\ view.ask.kind \in {"quality", "profile", "progression"}
    BY ViewingLeaves DEF FetchPrior
  <1>2. Ready(cycles, rows, view) /\ view.cov # <<>>
    BY <1>1, ViewReady DEF ViewInv, ViewOk, PlaceOk
  <1>3. \/ v.ask.kind = "progression" /\ Go(Start(v, W, todo, "sigma", <<>>))
        \/ v.ask.kind = "quality" /\ Go(QualityPlan(v))
        \/ Go([v EXCEPT !.pc = "last"])
    BY DEF FetchPrior
  <1>4. /\ IsView(v) /\ v.ask = view.ask /\ v.had = view.had /\ v.last = view.last
        /\ v.cov = view.cov /\ v.done = view.done /\ v.stale = view.stale
        /\ v.twice = view.twice /\ v.prior = \E t \in Instants : t < view.cov[1]
    BY <1>2 DEF Ready, IsView
  <1> HIDE DEF v, W, todo
  <1>5. Ready(cycles, rows, v) /\ v.cov # <<>>
    BY <1>2, <1>4 DEF Ready, Found
  <1>6. v.prior \/ \A c \in v.had : v.cov[1] <= c.ts
    <2>1. /\ v.cov[1] \in Int /\ \A c \in v.had : c \in cycles /\ c.ts \in Int
      BY <1>5, CovHours, CyclesTimed DEF Ready, Found
    <2>2. \A c \in cycles : c.ts \in Instants
      BY DEF Instants
    <2> QED
      BY <1>4, <2>1, <2>2
  <1>7. CASE v.ask.kind = "progression" /\ Go(Start(v, W, todo, "sigma", <<>>))
    <2>1. Counting(cycles, v.ask.kind, v.had, v.cov, todo, Zeros(W), <<>>, v.stale \cup v.twice)
      BY <1>5, <1>7, HoursStart DEF Zeros, W, todo
    <2>2. ViewOk(cycles, rows, Start(v, W, todo, "sigma", <<>>))
      BY <1>5, <2>1, StartOk
    <2> QED
      BY <1>1, <1>7, <2>2, Goes DEF ViewInv
  <1>8. CASE v.ask.kind = "quality" /\ Go(QualityPlan(v))
    <2>1. ViewOk(cycles, rows, QualityPlan(v))
      BY <1>5, <1>6, <1>8, QualityStart
    <2> QED
      BY <1>1, <1>8, <2>1, Goes DEF ViewInv
  <1>9. CASE Go([v EXCEPT !.pc = "last"])
    <2> DEFINE q == [v EXCEPT !.pc = "last"]
    <2>1. /\ IsView(q) /\ q.ask = v.ask /\ q.pc = "last" /\ q.had = v.had /\ q.last = v.last
          /\ q.cov = v.cov /\ q.prior = v.prior /\ q.done = v.done /\ q.stale = v.stale
          /\ q.twice = v.twice
      BY <1>4 DEF IsView
    <2>2. view' = q /\ shown' = shown
      BY <1>9, Goes
    <2> HIDE DEF q
    <2>3. Ready(cycles, rows, q) /\ q.cov # <<>>
      BY <1>5, <2>1 DEF Ready, Found
    <2>4. q.prior \/ \A c \in q.had : q.cov[1] <= c.ts
      BY <1>6, <2>1
    <2>5. ViewOk(cycles, rows, q)
      BY <2>1, <2>3, <2>4, Elsewhere
    <2> QED
      BY <1>1, <2>2, <2>5 DEF ViewInv
  <1> QED
    BY <1>3, <1>7, <1>8, <1>9

LEMMA LastStep ==
  ASSUME CoreInv, ViewInv, FetchLast
  PROVE  ViewInv' /\ shown' = shown
  <1> DEFINE last == IF cycles = {} THEN -1 ELSE Max(Instants)
             v == [view EXCEPT !.last = last]
  <1>1. /\ view # Idle /\ view.pc = "last" /\ cycles' = cycles /\ rows' = rows
        /\ view.ask.kind \in {"quality", "profile"}
    BY ViewingLeaves DEF FetchLast
  <1>2. /\ Ready(cycles, rows, view) /\ (view.ask.kind = "quality" => view.cov # <<>>)
        /\ view.cov # <<>> /\ ~view.prior => \A c \in view.had : view.cov[1] <= c.ts
    BY <1>1, ViewReady DEF ViewInv, ViewOk, PlaceOk
  <1>3. Go(IF v.ask.kind = "quality" THEN QualityPlan(v) ELSE ProfilePlan(v))
    BY DEF FetchLast
  <1>4. last \in Int /\ \A c \in cycles : c.ts <= last
    BY NewestAll
  <1> HIDE DEF last
  <1>5. /\ IsView(v) /\ v.ask = view.ask /\ v.had = view.had /\ v.last = last
        /\ v.cov = view.cov /\ v.done = view.done /\ v.stale = view.stale
        /\ v.twice = view.twice /\ v.prior = view.prior
    BY <1>2 DEF Ready, IsView
  <1> HIDE DEF v
  <1>6. Ready(cycles, rows, v)
    BY <1>2, <1>4, <1>5 DEF Ready, Found
  <1>7. CASE v.ask.kind = "quality"
    <2>1. v.cov # <<>> /\ (v.prior \/ \A c \in v.had : v.cov[1] <= c.ts)
      BY <1>2, <1>5, <1>7
    <2>2. ViewOk(cycles, rows, QualityPlan(v))
      BY <1>6, <1>7, <2>1, QualityStart
    <2> QED
      BY <1>1, <1>3, <1>7, <2>2, Goes DEF ViewInv
  <1>8. CASE v.ask.kind # "quality"
    <2>1. v.ask.kind = "profile"
      BY <1>1, <1>5, <1>8
    <2>2. ViewOk(cycles, rows, ProfilePlan(v))
      BY <1>6, <2>1, ProfilePlanOk
    <2> QED
      BY <1>1, <1>3, <1>8, <2>2, Goes DEF ViewInv
  <1> QED
    BY <1>7, <1>8

LEMMA SigmaStep ==
  ASSUME CoreInv, ViewInv, StartDeviations
  PROVE  ViewInv'
  <1> DEFINE W == Buckets(view.cov[1], view.cov[2], PerHour)
             todo == <<Piece("cycles", view.cov[1], view.cov[2])>>
  <1>1. /\ view # Idle /\ view.pc = "sigma" /\ cycles' = cycles /\ rows' = rows
        /\ view.ask.kind = "progression" /\ view' = Start(view, W, todo, "answer", <<>>)
    BY ViewingLeaves DEF StartDeviations
  <1>2. Ready(cycles, rows, view) /\ view.cov # <<>>
    BY <1>1, ViewReady DEF ViewInv, ViewOk, PlaceOk
  <1>3. Counting(cycles, view.ask.kind, view.had, view.cov, todo, Zeros(W), <<>>,
                 view.stale \cup view.twice)
    BY <1>1, <1>2, HoursStart DEF Zeros
  <1> HIDE DEF W, todo
  <1>4. ViewOk(cycles, rows, Start(view, W, todo, "answer", <<>>))
    BY <1>2, <1>3, StartOk
  <1> QED
    BY <1>1, <1>4 DEF ViewInv

LEMMA MemoryStep ==
  ASSUME CoreInv, ViewInv, RecallInv, FetchMemory
  PROVE  ViewInv'
  <1>1. /\ view # Idle /\ view.pc = "memory" /\ cycles' = cycles /\ rows' = rows
        /\ view.ask.kind = "progression"
    <2>1. Viewing("memory", {"progression"})
      BY DEF FetchMemory
    <2> QED
      BY <2>1, ViewingLeaves
  <1>2. Ready(cycles, rows, view)
    BY <1>1, ViewReady
  <1>3. /\ IsView(view) /\ view.had \subseteq cycles /\ view.last \in Int
        /\ \A c \in view.had : c.ts <= view.last
    BY <1>2 DEF Ready, Found
  <1>4. CASE view' = [view EXCEPT !.pc = "cover", !.print = Imprint]
    <2> DEFINE q == view'
    <2>1. /\ IsView(q) /\ q.ask = view.ask /\ q.pc = "cover" /\ q.had = view.had
          /\ q.last = view.last /\ q.cov = view.cov /\ q.done = view.done
          /\ q.stale = view.stale /\ q.twice = view.twice
      BY <1>3, <1>4 DEF IsView
    <2> HIDE DEF q
    <2>2. Ready(cycles, rows, q)
      BY <1>2, <2>1 DEF Ready, Found
    <2>3. ViewOk(cycles, rows, q)
      BY <2>1, <2>2, Elsewhere
    <2> QED
      BY <1>1, <2>3 DEF ViewInv, q
  <1>5. ASSUME NEW e \in Find,
               view' = [view EXCEPT !.pc = "answer",
                          !.done = {[r EXCEPT !.excused = @ \/ \E c \in cycles \ e.had : c.ts <= e.last] :
                                      r \in e.done}]
        PROVE  ViewInv'
    <2> DEFINE more == \E c \in cycles \ e.had : c.ts <= e.last
               done == {[r EXCEPT !.excused = @ \/ more] : r \in e.done}
               q == view'
    <2>1. /\ e \in recall /\ e.last = view.last /\ e.had \subseteq cycles
          /\ CountsOk(cycles, e.had, e.done) /\ IsFiniteSet(e.had)
      BY CyclesTimed, FS_Subset DEF Find, RecallInv
    <2>2. more \in BOOLEAN
      OBVIOUS
    <2>3. ~more => view.had \subseteq e.had
      BY <1>3, <2>1
    <2> HIDE DEF more
    <2>4. ASSUME NEW x \in done
          PROVE  /\ DOMAIN x = {"w", "n", "excused"} /\ x.excused \in BOOLEAN
                 /\ x.excused \/ Brackets(cycles, view.had, x.w, x.n)
      <3>1. PICK r \in e.done : x = [r EXCEPT !.excused = @ \/ more]
        OBVIOUS
      <3>2. /\ DOMAIN r = {"w", "n", "excused"} /\ r.excused \in BOOLEAN
            /\ r.excused \/ Brackets(cycles, e.had, r.w, r.n)
        BY <2>1 DEF CountsOk
      <3>3. /\ DOMAIN x = {"w", "n", "excused"} /\ x.w = r.w /\ x.n = r.n
            /\ x.excused = (r.excused \/ more)
        BY <3>1, <3>2
      <3>4. ASSUME ~x.excused
            PROVE  Brackets(cycles, view.had, x.w, x.n)
        <4>1. ~more /\ Brackets(cycles, e.had, r.w, r.n)
          BY <3>2, <3>3, <3>4
        <4>2. Within(view.had, r.w[1], r.w[2]) \subseteq Within(e.had, r.w[1], r.w[2])
          BY <2>3, <4>1 DEF Within
        <4>3. Brackets(cycles, view.had, r.w, r.n)
          BY <2>1, <4>1, <4>2, BracketsLess
        <4> QED
          BY <3>3, <4>3
      <3>5. x.excused \in BOOLEAN
        BY <2>2, <3>2, <3>3
      <3> QED
        BY <3>3, <3>4, <3>5
    <2>5. view' = [view EXCEPT !.pc = "answer", !.done = done]
      BY <1>5 DEF more
    <2> HIDE DEF done
    <2>6. /\ IsView(q) /\ q.ask = view.ask /\ q.pc = "answer" /\ q.had = view.had
          /\ q.last = view.last /\ q.cov = view.cov /\ q.done = done
          /\ q.stale = view.stale /\ q.twice = view.twice
      BY <1>3, <2>5 DEF IsView
    <2> HIDE DEF q
    <2>7. CountsOk(cycles, q.had, q.done)
      BY <2>4, <2>6 DEF CountsOk
    <2>8. Ready(cycles, rows, q)
      BY <1>1, <1>2, <2>6, <2>7 DEF Ready, Found
    <2>9. ViewOk(cycles, rows, q)
      BY <2>6, <2>8, Elsewhere
    <2> QED
      BY <1>1, <2>9 DEF ViewInv, q
  <1> QED
    BY <1>4, <1>5 DEF FetchMemory

LEMMA HealthyIs ==
  ASSUME VerdictInv
  PROVE  IsWindow(Healthy[price])
  <1>1. Healthy[price] \in Int \X Int
    BY PricesAre, VerdictAssumption
  <1> QED
    BY <1>1 DEF IsWindow

LEMMA ProfileBaseStep ==
  ASSUME CoreInv, VerdictInv, ViewInv, FetchProfileBase
  PROVE  ViewInv'
  <1> DEFINE w == Healthy[price]
  <1>1. /\ view # Idle /\ view.pc = "window" /\ cycles' = cycles /\ rows' = rows
        /\ view.ask.kind = "profile"
        /\ view' = IF Affordable(view, w[1], w[2])
                   THEN ProfileWindow(view, w[1], w[2], "answer", <<>>)
                   ELSE [view EXCEPT !.pc = "answer"]
    BY ViewingLeaves DEF FetchProfileBase
  <1>2. Ready(cycles, rows, view)
    BY <1>1, ViewReady
  <1>3. w[1] \in Int /\ w[2] \in Int
    BY HealthyIs DEF IsWindow
  <1> HIDE DEF w
  <1>4. CASE view' = ProfileWindow(view, w[1], w[2], "answer", <<>>)
    <2>1. WholeOk(view.had, {<<w[1], w[2]>>}, <<>>)
      BY DEF WholeOk
    <2>2. ViewOk(cycles, rows, ProfileWindow(view, w[1], w[2], "answer", <<>>))
      BY <1>1, <1>2, <1>3, <2>1, ProfileStart
    <2> QED
      BY <1>1, <1>4, <2>2 DEF ViewInv
  <1>5. CASE view' = [view EXCEPT !.pc = "answer"]
    <2> DEFINE q == view'
    <2>1. /\ IsView(q) /\ q.ask = view.ask /\ q.pc = "answer" /\ q.had = view.had
          /\ q.last = view.last /\ q.cov = view.cov /\ q.done = view.done
          /\ q.stale = view.stale /\ q.twice = view.twice
      BY <1>2, <1>5 DEF IsView, Ready
    <2> HIDE DEF q
    <2>2. Ready(cycles, rows, q)
      BY <1>2, <2>1 DEF Ready, Found
    <2>3. ViewOk(cycles, rows, q)
      BY <2>1, <2>2, Elsewhere
    <2> QED
      BY <1>1, <2>3 DEF ViewInv, q
  <1> QED
    BY <1>1, <1>4, <1>5

LEMMA BaseWindowStep ==
  ASSUME CoreInv, VerdictInv, ViewInv, FetchBaselineWindow
  PROVE  ViewInv'
  <1> DEFINE w == Window(view.ask)
             todo == <<Piece("cycles", w[1], w[2])>>
             v == Start(view, {w}, todo, "spread", <<>>)
  <1>1. /\ view # Idle /\ view.pc = "window" /\ cycles' = cycles /\ rows' = rows
        /\ view.ask.kind = "baseline"
        /\ view' = IF view.ask.refresh THEN v ELSE [v EXCEPT !.pc = "cache"]
    BY ViewingLeaves DEF FetchBaselineWindow
  <1>2. Ready(cycles, rows, view)
    BY <1>1, ViewReady
  <1>3. IsWindow(w)
    <2>1. view.ask.window \in {<<>>} \cup (Int \X Int)
      BY <1>1, <1>2 DEF Ready, Asked
    <2>2. CASE view.ask.window = <<>>
      BY <2>2, HealthyIs DEF Window
    <2>3. CASE view.ask.window # <<>>
      <3>1. view.ask.window \in Int \X Int /\ w = view.ask.window
        BY <2>1, <2>3 DEF Window
      <3> QED
        BY <3>1 DEF IsWindow
    <2> QED
      BY <2>2, <2>3
  <1> HIDE DEF w
  <1>4. Counting(cycles, view.ask.kind, view.had, view.cov, todo, Zeros({w}), <<>>,
                 view.stale \cup view.twice)
    BY <1>1, <1>2, <1>3, BaseStart DEF Zeros
  <1> HIDE DEF todo
  <1>5. /\ ViewOk(cycles, rows, Start(view, {w}, todo, "spread", <<>>))
        /\ ViewOk(cycles, rows, [Start(view, {w}, todo, "spread", <<>>) EXCEPT !.pc = "cache"])
    BY <1>2, <1>4, StartOk, StartCache
  <1> QED
    BY <1>1, <1>5 DEF ViewInv

LEMMA BaseCacheStep ==
  ASSUME CoreInv, ViewInv, BaselineInv, FetchBaselineCache
  PROVE  ViewInv'
  <1>1. /\ view # Idle /\ view.pc = "cache" /\ cycles' = cycles /\ rows' = rows
        /\ view.ask.kind = "baseline"
    BY ViewingLeaves DEF FetchBaselineCache
  <1>2. Ready(cycles, rows, view)
    BY <1>1, ViewReady
  <1>3. IsView(view) /\ view.had \subseteq cycles
    BY <1>2 DEF Ready, Found
  <1>4. PICK w \in DOMAIN view.got :
          view' = IF Kept(w)
                  THEN [view EXCEPT !.pc = "answer",
                          !.done = {[w |-> w, n |-> baseline.n,
                                     excused |-> CameSince(baseline.had, w)]}]
                  ELSE [view EXCEPT !.pc = "pieces"]
    BY DEF FetchBaselineCache
  <1>5. CASE Kept(w)
    <2> DEFINE x == [w |-> w, n |-> baseline.n, excused |-> CameSince(baseline.had, w)]
               q == view'
    <2>1. /\ baseline.had \subseteq cycles /\ Brackets(cycles, baseline.had, w, baseline.n)
          /\ IsFiniteSet(baseline.had)
      BY <1>5, CyclesTimed, FS_Subset DEF Kept, BaselineInv
    <2>2. CameSince(baseline.had, w) \in BOOLEAN
      BY DEF CameSince
    <2>3. ~CameSince(baseline.had, w) => Brackets(cycles, view.had, w, baseline.n)
      <3> SUFFICES ASSUME ~CameSince(baseline.had, w)
                   PROVE  Brackets(cycles, view.had, w, baseline.n)
        OBVIOUS
      <3>1. Within(view.had, w[1], w[2]) \subseteq Within(baseline.had, w[1], w[2])
        BY <1>3 DEF Within, CameSince
      <3> QED
        BY <2>1, <3>1, BracketsLess
    <2>4. /\ DOMAIN x = {"w", "n", "excused"} /\ x.w = w /\ x.n = baseline.n
          /\ x.excused = CameSince(baseline.had, w)
      OBVIOUS
    <2>5. view' = [view EXCEPT !.pc = "answer", !.done = {x}]
      BY <1>4, <1>5
    <2> HIDE DEF x
    <2>6. /\ IsView(q) /\ q.ask = view.ask /\ q.pc = "answer" /\ q.had = view.had
          /\ q.last = view.last /\ q.cov = view.cov /\ q.done = {x}
          /\ q.stale = view.stale /\ q.twice = view.twice
      BY <1>3, <2>5 DEF IsView
    <2> HIDE DEF q
    <2>7. CountsOk(cycles, q.had, q.done)
      BY <2>2, <2>3, <2>4, <2>6 DEF CountsOk
    <2>8. Found(cycles, rows, q) /\ PlaceOk(q) /\ Asked(q.ask)
      BY <1>1, <1>2, <2>6 DEF Ready, Found, PlaceOk
    <2>9. ViewOk(cycles, rows, q)
      BY <2>6, <2>7, <2>8 DEF ViewOk
    <2> QED
      BY <1>1, <2>9 DEF ViewInv, q
  <1>6. CASE ~Kept(w)
    <2> DEFINE q == view'
    <2>1. view' = [view EXCEPT !.pc = "pieces"]
      BY <1>4, <1>6
    <2>2. /\ IsView(q) /\ q.ask = view.ask /\ q.pc = "pieces" /\ q.had = view.had
          /\ q.last = view.last /\ q.cov = view.cov /\ q.prior = view.prior
          /\ q.todo = view.todo /\ q.got = view.got /\ q.next = view.next
          /\ q.whole = view.whole /\ q.done = view.done
          /\ q.stale = view.stale /\ q.twice = view.twice
      BY <1>3, <2>1 DEF IsView
    <2> HIDE DEF q
    <2>3. /\ PlaceOk(view) /\ Asked(view.ask) /\ Found(cycles, rows, view)
          /\ CountsOk(cycles, view.had, view.done)
          /\ Counting(cycles, view.ask.kind, view.had, view.cov, view.todo, view.got,
                      view.whole, view.stale \cup view.twice)
      BY <1>1 DEF ViewInv, ViewOk
    <2>4. PlaceOk(q)
      BY <1>1, <2>2, <2>3 DEF PlaceOk
    <2>5. Found(cycles, rows, q) /\ CountsOk(cycles, q.had, q.done)
      BY <2>2, <2>3 DEF Found
    <2>6. Counting(cycles, q.ask.kind, q.had, q.cov, q.todo, q.got, q.whole, q.stale \cup q.twice)
      BY <2>2, <2>3
    <2>7. ViewOk(cycles, rows, q)
      BY <2>2, <2>3, <2>4, <2>5, <2>6 DEF ViewOk
    <2> QED
      BY <1>1, <2>7 DEF ViewInv, q
  <1> QED
    BY <1>5, <1>6

LEMMA SpreadStep ==
  ASSUME ViewInv, BaselineInv, FetchBaselineSpread
  PROVE  ViewInv' /\ BaselineInv'
  <1>1. /\ view # Idle /\ view.pc = "spread" /\ cycles' = cycles /\ rows' = rows
        /\ view.ask.kind = "baseline"
    BY ViewingLeaves DEF FetchBaselineSpread
  <1>2. Ready(cycles, rows, view)
    BY <1>1, ViewReady
  <1>3. PICK r \in view.done :
          /\ view' = IF r.n = 0 THEN Idle ELSE [view EXCEPT !.pc = "answer"]
          /\ baseline' = Save(r) \/ baseline' = baseline
    BY DEF FetchBaselineSpread
  <1>4. view.had \subseteq cycles /\ Brackets(cycles, view.had, r.w, r.n)
    <2>1. ~r.excused /\ CountsOk(cycles, view.had, view.done) /\ view.had \subseteq cycles
      BY <1>1, <1>2 DEF Ready, Found
    <2> QED
      BY <2>1 DEF CountsOk
  <1>5. BaselineInv'
    <2>1. CASE baseline' = Save(r)
      <3>1. baseline'.had = view.had /\ baseline'.w = r.w /\ baseline'.n = r.n
        BY <2>1 DEF Save
      <3> QED
        BY <1>1, <1>4, <3>1 DEF BaselineInv
    <2>2. CASE baseline' = baseline
      BY <1>1, <2>2 DEF BaselineInv
    <2> QED
      BY <1>3, <2>1, <2>2
  <1>6. CASE view' = Idle
    BY <1>5, <1>6 DEF ViewInv, ViewOk
  <1>7. CASE view' = [view EXCEPT !.pc = "answer"]
    <2> DEFINE q == view'
    <2>1. /\ IsView(q) /\ q.ask = view.ask /\ q.pc = "answer" /\ q.had = view.had
          /\ q.last = view.last /\ q.cov = view.cov /\ q.done = view.done
          /\ q.stale = view.stale /\ q.twice = view.twice
      BY <1>2, <1>7 DEF IsView, Ready
    <2> HIDE DEF q
    <2>2. Ready(cycles, rows, q)
      BY <1>2, <2>1 DEF Ready, Found
    <2>3. ViewOk(cycles, rows, q)
      BY <2>1, <2>2, Elsewhere
    <2> QED
      BY <1>1, <1>5, <2>3 DEF ViewInv, q
  <1> QED
    BY <1>3, <1>6, <1>7

LEMMA AnswerStep ==
  ASSUME CoreInv, ViewInv, RecallInv, Answer
  PROVE  ViewInv' /\ RecallInv' /\ (\A a \in shown' : Answered(a)) /\ cycles' = cycles
  <1>1. view # Idle /\ view.pc = "answer" /\ cycles' = cycles /\ rows' = rows /\ view' = Idle
    BY ViewingLeaves DEF Answer
  <1>2. CountsOk(cycles, view.had, view.done) /\ view.had \subseteq cycles
    BY <1>1 DEF ViewInv, ViewOk, Found
  <1>3. IsFiniteSet(cycles) /\ IsFiniteSet(view.had)
    BY <1>2, CyclesTimed, FS_Subset
  <1>4. ASSUME NEW a \in shown'
        PROVE  Answered(a)
    <2>1. PICK r \in view.done :
             a = [w |-> r.w, n |-> r.n, least |-> Tally(view.had, r.w[1], r.w[2]),
                  most |-> Direct(r.w[1], r.w[2]), excused |-> r.excused]
      BY <1>4 DEF Answer
    <2>2. /\ a.n = r.n /\ a.least = Cardinality(Within(view.had, r.w[1], r.w[2]))
          /\ a.most = Cardinality(Within(cycles, r.w[1], r.w[2])) /\ a.excused = r.excused
      BY <2>1, CountsAre
    <2>3. r.excused \/ Brackets(cycles, view.had, r.w, r.n)
      BY <1>2 DEF CountsOk
    <2> QED
      BY <2>2, <2>3 DEF Brackets, Answered
  <1>5. RecallInv'
    <2> DEFINE f == [last |-> view.last, print |-> view.print, had |-> view.had,
                     done |-> view.done]
    <2>1. \A e \in recall' : e \in recall \/ e = f
      BY DEF Answer
    <2>2. f.had = view.had /\ f.done = view.done
      OBVIOUS
    <2> HIDE DEF f
    <2> QED
      BY <1>1, <1>2, <2>1, <2>2 DEF RecallInv
  <1> QED
    BY <1>1, <1>4, <1>5 DEF ViewInv, ViewOk

-----------------------------------------------------------------------------
(* What it says of every behaviour                                            *)

LEMMA ViewsInit == ReadingsInit => ViewsInv
  <1> SUFFICES ASSUME ReadingsInit
               PROVE  ViewsInv
    OBVIOUS
  <1>1. view = Idle /\ recall = {} /\ baseline = <<>> /\ shown = {}
    BY DEF ReadingsInit
  <1> QED
    BY <1>1 DEF ViewsInv, ViewInv, ViewOk, RecallInv, BaselineInv

\* The others only add cycles and buckets.
LEMMA OthersGrow ==
  ASSUME CoreInv, BehindInv, VerdictNext
  PROVE  cycles \subseteq cycles' /\ DOMAIN rows \subseteq DOMAIN rows'
  <1>1. CASE RollupStep
    <2>1. RollupNext /\ DOMAIN rows \subseteq DOMAIN rows'
      BY <1>1, RollupCore DEF RollupStep, GrowsTo
    <2>2. ASSUME NEW c \in scope.cycles \ cycles, Arrive(c)
          PROVE  cycles \subseteq cycles'
      BY <2>2 DEF Arrive
    <2>3. ASSUME \/ \E since_last \in BOOLEAN : FillBegin(since_last)
                 \/ FillPiece \/ FillCommit \/ FillAbort
          PROVE  cycles \subseteq cycles'
      BY <2>3, FillBehind
    <2>4. ASSUME NEW at \in scope.ats, AskOee(at) \/ AskSeries(at)
          PROVE  cycles \subseteq cycles'
      BY <2>4, ReqAsked
    <2>5. CASE LookUp \/ AnswerOee
      BY <2>5 DEF LookUp, AnswerOee
    <2>6. CASE \/ PlanSeries \/ ReadCoverage \/ ReadExtent \/ ReadBuckets
               \/ ReadEdges \/ ReadHours \/ ReadAgain
               \/ \E w \in (IF req = Idle THEN {} ELSE req.wins) : CountWindow(w)
      BY <2>6, StatementsLeave
    <2> QED
      BY <2>1, <2>2, <2>3, <2>4, <2>5, <2>6 DEF RollupNext
  <1>2. CASE ~RollupStep
    BY <1>2, VerdictOthers
  <1> QED
    BY <1>1, <1>2

\* Steps of a request that change neither the memories nor an answer.
LEMMA ViewAlone ==
  ASSUME ViewsInv, ViewInv', UNCHANGED <<cycles, recall, baseline>>,
         shown' = shown \/ shown' = {}
  PROVE  ViewsInv'
  BY DEF ViewsInv, RecallInv, BaselineInv

LEMMA ReadingViews ==
  ASSUME CoreInv, VerdictInv, BehindInv, ViewsInv, ReadingNext
  PROVE  ViewsInv'
  <1>1. ViewInv /\ RecallInv /\ BaselineInv /\ \A a \in shown : Answered(a)
    BY DEF ViewsInv
  <1>2. cycles' = cycles
    BY ReadingOthers DEF coreVars
  <1>3. CASE AskQuality \/ AskProfile \/ AskProgression \/ AskBaseline
    <2>1. ASSUME NEW kind, NEW pc \in {"cover", "memory", "window"}, Ask(kind, pc)
          PROVE  ViewsInv'
      BY <1>1, <2>1, AskStep, ViewAlone
    <2>2. \/ Ask("quality", "cover") \/ Ask("profile", "cover") \/ Ask("baseline", "window")
          \/ Ask("progression", "cover") \/ Ask("progression", "memory")
      BY <1>3 DEF AskQuality, AskProfile, AskProgression, AskBaseline
    <2> QED
      BY <2>1, <2>2
  <1>4. CASE FetchCover
    <2>1. UNCHANGED <<recall, baseline>> /\ shown' = shown
      BY <1>4 DEF FetchCover, Declined
    <2> QED
      BY <1>1, <1>2, <1>4, <2>1, CoverStep, ViewAlone
  <1>5. CASE FetchPrior
    <2>1. UNCHANGED <<recall, baseline>>
      BY <1>5 DEF FetchPrior
    <2> QED
      BY <1>1, <1>2, <1>5, <2>1, PriorStep, ViewAlone
  <1>6. CASE FetchLast
    <2>1. UNCHANGED <<recall, baseline>>
      BY <1>6 DEF FetchLast
    <2> QED
      BY <1>1, <1>2, <1>6, <2>1, LastStep, ViewAlone
  <1>7. CASE \/ FetchQualityBuckets \/ FetchQualityTail \/ FetchProfileHours
             \/ FetchProfileEdge \/ FetchMeans \/ FetchDeviations \/ FetchBaseline
    <2>1. ASSUME NEW from \in {"rows", "cycles"}, NEW kind, FetchPiece(from, kind),
                 from = "rows" => kind # "baseline"
          PROVE  ViewsInv'
      <3>1. ViewInv'
        BY <1>1, <2>1, PieceStep
      <3>2. UNCHANGED <<recall, baseline, shown>>
        BY <2>1 DEF FetchPiece
      <3> QED
        BY <1>2, <3>1, <3>2, ViewAlone
    <2>2. \/ FetchPiece("rows", "quality") \/ FetchPiece("cycles", "quality")
          \/ FetchPiece("rows", "profile") \/ FetchPiece("cycles", "profile")
          \/ FetchPiece("rows", "progression") \/ FetchPiece("cycles", "progression")
          \/ FetchPiece("cycles", "baseline")
      BY <1>7 DEF FetchQualityBuckets, FetchQualityTail, FetchProfileHours, FetchProfileEdge,
                  FetchMeans, FetchDeviations, FetchBaseline
    <2> QED
      BY <2>1, <2>2
  <1>8. CASE StartDeviations
    <2>1. UNCHANGED <<recall, baseline, shown>>
      BY <1>8 DEF StartDeviations
    <2> QED
      BY <1>1, <1>2, <1>8, <2>1, SigmaStep, ViewAlone
  <1>9. CASE FetchMemory
    <2>1. UNCHANGED <<recall, baseline, shown>>
      BY <1>9 DEF FetchMemory
    <2> QED
      BY <1>1, <1>2, <1>9, <2>1, MemoryStep, ViewAlone
  <1>10. CASE FetchProfileBase
    <2>1. UNCHANGED <<recall, baseline, shown>>
      BY <1>10 DEF FetchProfileBase
    <2> QED
      BY <1>1, <1>2, <1>10, <2>1, ProfileBaseStep, ViewAlone
  <1>11. CASE FetchBaselineWindow
    <2>1. UNCHANGED <<recall, baseline, shown>>
      BY <1>11 DEF FetchBaselineWindow
    <2> QED
      BY <1>1, <1>2, <1>11, <2>1, BaseWindowStep, ViewAlone
  <1>12. CASE FetchBaselineCache
    <2>1. UNCHANGED <<recall, baseline, shown>>
      BY <1>12 DEF FetchBaselineCache
    <2> QED
      BY <1>1, <1>2, <1>12, <2>1, BaseCacheStep, ViewAlone
  <1>13. CASE FetchBaselineSpread
    <2>1. UNCHANGED <<recall, shown>>
      BY <1>13 DEF FetchBaselineSpread
    <2>2. ViewInv' /\ BaselineInv'
      BY <1>1, <1>13, SpreadStep
    <2> QED
      BY <1>1, <1>2, <2>1, <2>2 DEF ViewsInv, RecallInv
  <1>14. CASE Answer
    <2>1. baseline' = baseline
      BY <1>14 DEF Answer
    <2>2. ViewInv' /\ RecallInv' /\ \A a \in shown' : Answered(a)
      BY <1>1, <1>14, AnswerStep
    <2> QED
      BY <1>1, <1>2, <2>1, <2>2 DEF ViewsInv, BaselineInv
  <1> QED
    BY <1>3, <1>4, <1>5, <1>6, <1>7, <1>8, <1>9, <1>10, <1>11, <1>12, <1>13, <1>14
       DEF ReadingNext

LEMMA ViewsNext ==
  ASSUME ServedInv, BehindInv, ViewsInv, [Next]_allVars
  PROVE  ViewsInv'
  <1>1. CoreInv /\ VerdictInv
    BY DEF ServedInv
  <1>2. CoreInv' /\ IsFiniteSet(cycles')
    BY NextServed DEF ServedInv, CoreInv, CyclesOk
  <1>3. CASE VerdictNext /\ UNCHANGED readingsVars
    BY <1>1, <1>2, <1>3, OthersGrow, ViewsGrow
  <1>4. CASE ReadingNext
    BY <1>1, <1>4, ReadingViews
  <1>5. CASE RestartApi
    <2>1. /\ cycles' = cycles /\ view' = Idle /\ recall' = {} /\ baseline' = baseline
          /\ shown' = shown
      BY <1>5 DEF RestartApi
    <2> QED
      BY <2>1 DEF ViewsInv, ViewInv, ViewOk, RecallInv, BaselineInv
  <1>6. CASE UNCHANGED allVars
    <2>1. UNCHANGED readingsVars /\ cycles' = cycles /\ rows' = rows
      BY <1>6 DEF allVars, vars, rollupVars
    <2> QED
      BY <1>2, <2>1, ViewsGrow
  <1> QED
    BY <1>3, <1>4, <1>5, <1>6 DEF Next

CountedInv == ServedInv /\ OeeInv /\ ViewsInv

\* For any cycles in any order, fills, requests and restarts, every count in an answer of
\* the API lies between one scan of cycles when the request came and one when it was
\* answered, but for the exceptions the answer is marked with.
THEOREM BracketedCorrect == Spec => []AnswerBracketed
  <1>1. ReadingsInit => CountedInv
    BY InitServed, OeeInit, ViewsInit DEF CountedInv
  <1>2. CountedInv /\ [Next]_allVars => CountedInv'
    <2> SUFFICES ASSUME CountedInv, [Next]_allVars
                 PROVE  CountedInv'
      OBVIOUS
    <2>1. CoreInv /\ BehindInv
      BY DEF CountedInv, ServedInv, OeeInv
    <2>2. ServedInv'
      BY NextServed DEF CountedInv
    <2>3. OeeInv'
      BY <2>1, OeeNext DEF CountedInv
    <2>4. ViewsInv'
      BY <2>1, ViewsNext DEF CountedInv
    <2> QED
      BY <2>2, <2>3, <2>4 DEF CountedInv
  <1>3. CountedInv => AnswerBracketed
    BY DEF CountedInv, OeeInv, ViewsInv, Answered, AnswerBracketed
  <1> QED
    BY <1>1, <1>2, <1>3, PTL DEF Spec
=============================================================================
