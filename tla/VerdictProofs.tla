--------------------------- MODULE VerdictProofs ---------------------------
(* The walk of the verdicts, the hourly rows, the table of the verdicts and    *)
(* what is served from it, for any cycles, hours, policies and requests.      *)
EXTENDS Readings, WellFoundedInduction, FiniteSetTheorems, TLAPS

-----------------------------------------------------------------------------
(* Least and greatest numbers                                                 *)

LEMMA LeastNat ==
  ASSUME NEW S \in SUBSET Nat, S # {}
  PROVE  \E n \in S : \A m \in S : n <= m
  <1>1. \E n \in S : \A m \in S : ~(<<m, n>> \in OpToRel(<, Nat))
    BY NatLessThanWellFounded, WFMin
  <1>2. PICK n \in S : \A m \in S : ~(<<m, n>> \in OpToRel(<, Nat))
    BY <1>1
  <1>3. ASSUME NEW m \in S
        PROVE  n <= m
    <2>1. ~(m < n)
      BY <1>2 DEF OpToRel
    <2> QED
      BY <2>1
  <1> QED
    BY <1>3

LEMMA MinOf ==
  ASSUME NEW S \in SUBSET Int, NEW m \in S, \A x \in S : m <= x
  PROVE  Min(S) = m
  <1>1. Min(S) \in S /\ \A x \in S : Min(S) <= x
    BY DEF Min
  <1>2. Min(S) \in Int /\ m \in Int /\ Min(S) <= m /\ m <= Min(S)
    BY <1>1
  <1> QED
    BY <1>2

LEMMA MaxOf ==
  ASSUME NEW S \in SUBSET Int, NEW m \in S, \A x \in S : x <= m
  PROVE  Max(S) = m
  <1>1. Max(S) \in S /\ \A x \in S : Max(S) >= x
    BY DEF Max
  <1>2. Max(S) \in Int /\ m \in Int /\ Max(S) >= m /\ Max(S) <= m
    BY <1>1
  <1> QED
    BY <1>2

LEMMA MinIn ==
  ASSUME NEW S \in SUBSET Int, S # {}, NEW b \in Int, \A x \in S : b <= x
  PROVE  Min(S) \in S /\ Min(S) \in Int /\ \A x \in S : Min(S) <= x
  <1> DEFINE T == {n \in Nat : b + n \in S}
  <1>1. \A x \in S : x - b \in Nat /\ b + (x - b) = x
    OBVIOUS
  <1>2. T \in SUBSET Nat /\ T # {}
    BY <1>1
  <1>3. PICK n \in T : \A m \in T : n <= m
    BY <1>2, LeastNat
  <1>4. b + n \in S /\ \A x \in S : b + n <= x
    <2>1. ASSUME NEW x \in S
          PROVE  b + n <= x
      <3>1. x - b \in T
        BY <1>1
      <3>2. n <= x - b
        BY <1>3, <3>1
      <3> QED
        BY <1>3, <3>2
    <2> QED
      BY <1>3, <2>1
  <1>5. Min(S) = b + n
    BY <1>4, MinOf
  <1> QED
    BY <1>4, <1>5

LEMMA MaxIn ==
  ASSUME NEW S \in SUBSET Int, S # {}, NEW b \in Int, \A x \in S : x <= b
  PROVE  Max(S) \in S /\ Max(S) \in Int /\ \A x \in S : x <= Max(S)
  <1> DEFINE T == {n \in Nat : b - n \in S}
  <1>1. \A x \in S : b - x \in Nat /\ b - (b - x) = x
    OBVIOUS
  <1>2. T \in SUBSET Nat /\ T # {}
    BY <1>1
  <1>3. PICK n \in T : \A m \in T : n <= m
    BY <1>2, LeastNat
  <1>4. b - n \in S /\ \A x \in S : x <= b - n
    <2>1. ASSUME NEW x \in S
          PROVE  x <= b - n
      <3>1. b - x \in T
        BY <1>1
      <3>2. n <= b - x
        BY <1>3, <3>1
      <3> QED
        BY <1>3, <3>2
    <2> QED
      BY <1>3, <2>1
  <1>5. Max(S) = b - n
    BY <1>4, MaxOf
  <1> QED
    BY <1>4, <1>5

LEMMA RangeMin ==
  ASSUME NEW a \in Int, NEW b \in Int, a <= b
  PROVE  Min(a..b) = a /\ Max(a..b) = b
  <1>1. /\ a..b \in SUBSET Int /\ a \in a..b /\ b \in a..b
        /\ \A x \in a..b : a <= x /\ x <= b
    OBVIOUS
  <1> QED
    BY <1>1, MinOf, MaxOf

-----------------------------------------------------------------------------
(* What an hour is judged by                                                  *)

LEMMA CutHours ==
  ASSUME NEW s, DOMAIN s \subseteq Int, NEW h \in Int
  PROVE  /\ DOMAIN Cut(s, h) = {g \in DOMAIN s : g <= h}
         /\ \A g \in DOMAIN Cut(s, h) : Cut(s, h)[g] = s[g]
         /\ UsefulHours(Cut(s, h)) = {g \in UsefulHours(s) : g <= h}
         /\ \A g \in Int : g <= h => Cut(Cut(s, h), g) = Cut(s, g)
  <1>1. /\ DOMAIN Cut(s, h) = {g \in DOMAIN s : g <= h}
        /\ \A g \in DOMAIN Cut(s, h) : Cut(s, h)[g] = s[g]
    BY DEF Cut
  <1>2. UsefulHours(Cut(s, h)) = {g \in UsefulHours(s) : g <= h}
    BY <1>1 DEF UsefulHours, Useful
  <1>3. ASSUME NEW g \in Int, g <= h
        PROVE  Cut(Cut(s, h), g) = Cut(s, g)
    <2>1. {i \in DOMAIN Cut(s, h) : i <= g} = {i \in DOMAIN s : i <= g}
      BY <1>1, <1>3
    <2>2. \A i \in {j \in DOMAIN s : j <= g} : Cut(s, h)[i] = s[i]
      BY <1>1, <1>3
    <2> QED
      BY <2>1, <2>2 DEF Cut
  <1> QED
    BY <1>1, <1>2, <1>3

\* What was known at an hour, a longer series still says.
LEMMA SignalCut ==
  ASSUME NEW s, DOMAIN s \subseteq Int, NEW h \in Int, NEW g \in Int, g <= h
  PROVE  Signal(Cut(s, h), g) = Signal(s, g)
  <1>1. Cut(Cut(s, h), g) = Cut(s, g)
    BY CutHours
  <1> QED
    BY <1>1 DEF Signal

\* An hour without cycles changes no signal.
LEMMA SignalHolds ==
  ASSUME NEW s, DOMAIN s \subseteq Int, NEW g \in Int, Signal(s, g) # Never
  PROVE  \E k \in UsefulHours(s) : k <= g /\ Signal(s, k) = Signal(s, g)
  <1> DEFINE U(n) == UsefulHours(Cut(s, n))
  <1>1. ASSUME NEW n \in Int
        PROVE  /\ U(n) = {k \in UsefulHours(s) : k <= n}
               /\ \A k \in U(n) : Beyond(Cut(s, n), k) <=> Beyond(s, k)
    <2>1. U(n) = {k \in UsefulHours(s) : k <= n}
      BY CutHours
    <2>2. \A k \in U(n) : Cut(s, n)[k] = s[k]
      BY CutHours DEF UsefulHours
    <2> QED
      BY <2>1, <2>2 DEF Beyond
  <1>2. UsefulHours(s) \subseteq DOMAIN s
    BY DEF UsefulHours
  <1> HIDE DEF U
  <1>3. U(g) # {}
    <2> SUFFICES ASSUME U(g) = {}
                 PROVE  FALSE
      OBVIOUS
    <2>1. {k \in U(g) : \A i \in U(g) : i >= k => Beyond(Cut(s, g), i)} = {}
      OBVIOUS
    <2> QED
      BY <2>1 DEF Signal, Regime, Lasting, U
  <1>4. U(g) \in SUBSET Int /\ \A k \in U(g) : k <= g
    BY <1>1, <1>2
  <1> DEFINE m == Max(U(g))
  <1>5. m \in U(g) /\ m \in Int /\ \A k \in U(g) : k <= m
    BY <1>3, <1>4, MaxIn
  <1> HIDE DEF m
  <1>6. U(m) = U(g)
    <2>1. m <= g
      BY <1>4, <1>5
    <2>2. \A k \in UsefulHours(s) : k <= m <=> k <= g
      BY <1>1, <1>2, <1>5, <2>1
    <2> QED
      BY <1>1, <1>5, <2>2
  <1>7. {k \in U(m) : \A i \in U(m) : i >= k => Beyond(Cut(s, m), i)}
          = {k \in U(g) : \A i \in U(g) : i >= k => Beyond(Cut(s, g), i)}
    <2>1. \A k \in U(g) : Beyond(Cut(s, m), k) <=> Beyond(Cut(s, g), k)
      BY <1>1, <1>5, <1>6
    <2> QED
      BY <1>6, <2>1
  <1>8. Signal(s, m) = Signal(s, g)
    BY <1>7 DEF Signal, Regime, U
  <1>9. m \in UsefulHours(s) /\ m <= g
    BY <1>1, <1>4, <1>5
  <1> QED
    BY <1>8, <1>9

\* Nothing after h is needed to judge an hour up to h.
LEMMA JudgeCut ==
  ASSUME NEW lo \in Int, NEW s, DOMAIN s \subseteq Int, \A k \in DOMAIN s : lo <= k,
         NEW h \in Int, NEW g \in Int, g <= h, NEW tariff
  PROVE  Judge(Cut(s, h), tariff, g) = Judge(s, tariff, g)
  <1> DEFINE c == Cut(s, h)
             known(x) == {k \in UsefulHours(x) : Signal(x, k) # Never}
  <1>1. /\ DOMAIN c = {k \in DOMAIN s : k <= h} /\ \A k \in DOMAIN c : c[k] = s[k]
        /\ UsefulHours(c) = {k \in UsefulHours(s) : k <= h}
    BY CutHours
  <1>2. UsefulHours(s) \subseteq DOMAIN s
    BY DEF UsefulHours
  <1>3. \A k \in Int : k <= h => Signal(c, k) = Signal(s, k)
    BY SignalCut
  <1>4. known(c) = {k \in known(s) : k <= h}
    BY <1>1, <1>2, <1>3
  <1> HIDE DEF c
  <1>5. Trailing(c, g) = Trailing(s, g)
    BY <1>1, <1>2 DEF Trailing
  <1>6. {k \in Trailing(c, g) : OutOfBand(c, k)} = {k \in Trailing(s, g) : OutOfBand(s, k)}
    <2>1. \A k \in Trailing(c, g) : c[k] = s[k]
      BY <1>1 DEF Trailing, UsefulHours
    <2> QED
      BY <1>5, <2>1 DEF OutOfBand
  <1>7. Estimated(c, g) = Estimated(s, g)
    <2> DEFINE n(x) == {k \in UsefulHours(x) : Signal(s, g) <= k /\ k <= g}
    <2>1. n(c) = n(s)
      BY <1>1, <1>2
    <2>2. Signal(c, g) = Signal(s, g)
      BY <1>3
    <2>3. CASE Signal(s, g) = Never
      BY <2>2, <2>3 DEF Estimated, EstimatedSince
    <2>4. CASE Signal(s, g) # Never
      <3>1. PICK k \in UsefulHours(s) : k <= g /\ Signal(s, k) = Signal(s, g)
        BY <2>4, SignalHolds
      <3>2. k \in known(c) /\ known(c) \subseteq known(s) /\ k \in known(s)
        BY <1>2, <1>4, <2>4, <3>1
      <3>3. known(s) \in SUBSET Int /\ \A x \in known(s) : lo <= x
        BY <1>2
      <3>4. Min(known(s)) \in known(s) /\ \A x \in known(s) : Min(known(s)) <= x
        BY <3>2, <3>3, MinIn
      <3>5. Min(known(s)) \in known(c)
        <4>1. Min(known(s)) <= k /\ Min(known(s)) \in Int /\ k \in Int
          BY <1>2, <3>2, <3>3, <3>4
        <4> QED
          BY <1>4, <3>1, <3>4, <4>1
      <3>6. Min(known(c)) = Min(known(s))
        <4>1. known(c) \in SUBSET Int
          BY <3>2, <3>3
        <4>2. \A x \in known(c) : Min(known(s)) <= x
          BY <3>2, <3>4
        <4> HIDE DEF known
        <4> QED
          BY <3>5, <4>1, <4>2, MinOf
      <3>7. /\ FirstSignal(c) = Signal(c, Min(known(c)))
            /\ FirstSignal(s) = Signal(s, Min(known(s)))
        BY <3>2 DEF FirstSignal
      <3>8. Min(known(s)) \in Int /\ Min(known(s)) <= h
        BY <1>4, <3>3, <3>4, <3>5
      <3> HIDE DEF known
      <3>9. FirstSignal(c) = FirstSignal(s)
        BY <1>3, <3>6, <3>7, <3>8
      <3> QED
        BY <2>1, <2>2, <3>9 DEF Estimated, EstimatedSince
    <2> QED
      BY <2>3, <2>4
  <1> QED
    BY <1>5, <1>6, <1>7 DEF Judge, c
-----------------------------------------------------------------------------
(* The walk                                                                   *)

\* w is the walk over a..b.
Walks(w, s, tariff, a, b) ==
  /\ DOMAIN w = a..b
  /\ \A h \in a..b :
       w[h] = Step(IF h - 1 \in a..b THEN w[h - 1] ELSE NewValve, h,
                   Judge(s, tariff, h), Useful(s, h))

HourAfter(w, s, tariff, a, h) ==
  Step(IF h - 1 \in a..h THEN w[h - 1] ELSE NewValve, h, Judge(s, tariff, h), Useful(s, h))

\* One more hour.
LEMMA WalksMore ==
  ASSUME NEW s, NEW tariff, NEW a \in Int, NEW b \in Int, a <= b + 1,
         NEW w, Walks(w, s, tariff, a, b)
  PROVE  \E x : Walks(x, s, tariff, a, b + 1)
  <1> DEFINE last == HourAfter(w, s, tariff, a, b + 1)
             x == [h \in a..(b + 1) |-> IF h = b + 1 THEN last ELSE w[h]]
  <1>1. DOMAIN x = a..(b + 1) /\ x[b + 1] = last /\ \A h \in a..b : x[h] = w[h]
    OBVIOUS
  <1> HIDE DEF x
  <1>2. ASSUME NEW h \in a..(b + 1)
        PROVE  x[h] = Step(IF h - 1 \in a..(b + 1) THEN x[h - 1] ELSE NewValve, h,
                           Judge(s, tariff, h), Useful(s, h))
    <2>1. CASE h = b + 1
      <3>1. h - 1 \in a..(b + 1) => h - 1 \in a..b
        BY <2>1
      <3>2. (IF h - 1 \in a..(b + 1) THEN x[h - 1] ELSE NewValve)
              = IF h - 1 \in a..h THEN w[h - 1] ELSE NewValve
        BY <1>1, <2>1, <3>1
      <3> QED
        BY <1>1, <2>1, <3>2 DEF HourAfter
    <2>2. CASE h # b + 1
      <3>1. h \in a..b /\ (h - 1 \in a..(b + 1) <=> h - 1 \in a..b)
        BY <2>2
      <3>2. (IF h - 1 \in a..(b + 1) THEN x[h - 1] ELSE NewValve)
              = IF h - 1 \in a..b THEN w[h - 1] ELSE NewValve
        BY <1>1, <3>1
      <3> QED
        BY <1>1, <3>1, <3>2 DEF Walks
    <2> QED
      BY <2>1, <2>2
  <1>3. Walks(x, s, tariff, a, b + 1)
    BY <1>1, <1>2 DEF Walks
  <1> QED
    BY <1>3

LEMMA WalksExist ==
  ASSUME NEW s, NEW tariff, NEW a \in Int, NEW n \in Nat
  PROVE  \E w : Walks(w, s, tariff, a, a + n - 1)
  <1> DEFINE T == {k \in Nat : ~ \E w : Walks(w, s, tariff, a, a + k - 1)}
  <1> SUFFICES ASSUME T # {}
               PROVE  FALSE
    OBVIOUS
  <1>1. PICK k \in T : \A m \in T : k <= m
    BY LeastNat
  <1>2. k # 0
    <2> DEFINE e == [h \in {} |-> NewValve]
    <2>1. a..(a + 0 - 1) = {}
      OBVIOUS
    <2>2. Walks(e, s, tariff, a, a + 0 - 1)
      BY <2>1 DEF Walks
    <2> QED
      BY <2>2
  <1>3. k - 1 \in Nat /\ k - 1 \notin T
    BY <1>1, <1>2
  <1>4. PICK w : Walks(w, s, tariff, a, a + (k - 1) - 1)
    BY <1>3
  <1>5. \E x : Walks(x, s, tariff, a, (a + (k - 1) - 1) + 1)
    BY <1>1, <1>2, <1>4, WalksMore
  <1>6. (a + (k - 1) - 1) + 1 = a + k - 1
    BY <1>1
  <1> QED
    BY <1>1, <1>5, <1>6

LEMMA WalkIs ==
  ASSUME NEW s, NEW tariff, NEW a \in Int, NEW b \in Int
  PROVE  Walks(WalkOver(s, tariff, a..b), s, tariff, a, b)
  <1>1. PICK n \in Nat : a..b = a..(a + n - 1)
    <2>1. CASE a <= b
      <3>1. b - a + 1 \in Nat /\ a + (b - a + 1) - 1 = b
        BY <2>1
      <3> QED
        BY <3>1
    <2>2. CASE b < a
      <3>1. a..b = a..(a + 0 - 1)
        BY <2>2
      <3> QED
        BY <3>1
    <2> QED
      BY <2>1, <2>2
  <1> DEFINE B(w) == [h \in a..b |->
                       Step(IF h - 1 \in a..b THEN w[h - 1] ELSE NewValve, h,
                            Judge(s, tariff, h), Useful(s, h))]
  <1>2. PICK x : Walks(x, s, tariff, a, b)
    <2>1. PICK w : Walks(w, s, tariff, a, a + n - 1)
      BY WalksExist
    <2> QED
      BY <1>1, <2>1 DEF Walks
  <1> DEFINE y == [h \in a..b |-> x[h]]
             z == CHOOSE w : w = B(w)
  <1>3. y = B(y)
    <2>1. \A h \in a..b : y[h] = B(y)[h]
      <3> SUFFICES ASSUME NEW h \in a..b
                   PROVE  y[h] = B(y)[h]
        OBVIOUS
      <3>1. (IF h - 1 \in a..b THEN y[h - 1] ELSE NewValve)
              = IF h - 1 \in a..b THEN x[h - 1] ELSE NewValve
        OBVIOUS
      <3>2. B(y)[h] = Step(IF h - 1 \in a..b THEN y[h - 1] ELSE NewValve, h,
                            Judge(s, tariff, h), Useful(s, h))
        OBVIOUS
      <3> QED
        BY <1>2, <3>1, <3>2 DEF Walks
    <2> QED
      BY <2>1
  <1>4. z = B(z)
    BY <1>3
  <1>5. WalkOver(s, tariff, a..b) = [h \in a..b |-> z[h]]
    BY DEF WalkOver
  <1> HIDE DEF z, y
  <1>6. Walks(z, s, tariff, a, b)
    <2>1. DOMAIN z = a..b /\ \A h \in a..b : z[h] = B(z)[h]
      BY <1>4
    <2> QED
      BY <2>1 DEF Walks
  <1>7. DOMAIN [h \in a..b |-> z[h]] = a..b /\ \A h \in a..b : [i \in a..b |-> z[i]][h] = z[h]
    OBVIOUS
  <1> DEFINE v == [h \in a..b |-> z[h]]
  <1>8. Walks(v, s, tariff, a, b)
    BY <1>6, <1>7 DEF Walks
  <1> QED
    BY <1>5, <1>8

\* s and t tell the walk the same of hour h.
Alike(s, t, tariff, h) ==
  Judge(s, tariff, h) = Judge(t, tariff, h) /\ Useful(s, h) = Useful(t, h)

\* Two walks that are told the same up to c have the same rows up to c.
LEMMA WalksAgree ==
  ASSUME NEW s, NEW t, NEW tariff, NEW a \in Int, NEW b \in Int, NEW c \in Int, c <= b,
         NEW w, Walks(w, s, tariff, a, b), NEW x, Walks(x, t, tariff, a, c),
         \A h \in a..c : Alike(s, t, tariff, h)
  PROVE  \A h \in a..c : w[h] = x[h]
  <1> DEFINE T == {k \in Nat : a + k <= c /\ w[a + k] # x[a + k]}
  <1>1. T = {}
    <2> SUFFICES ASSUME T # {}
                 PROVE  FALSE
      OBVIOUS
    <2>1. PICK k \in T : \A m \in T : k <= m
      BY LeastNat
    <2> DEFINE h == a + k
    <2>2. h \in a..c /\ h \in a..b /\ k \in Nat /\ w[h] # x[h]
      BY <2>1
    <2>3. (IF h - 1 \in a..b THEN w[h - 1] ELSE NewValve)
            = IF h - 1 \in a..c THEN x[h - 1] ELSE NewValve
      <3>1. CASE k = 0
        BY <3>1
      <3>2. CASE k # 0
        <4>1. k - 1 \in Nat /\ k - 1 \notin T /\ a + (k - 1) = h - 1
          BY <2>1, <3>2
        <4>2. h - 1 \in a..b /\ h - 1 \in a..c
          BY <2>2, <3>2
        <4>3. w[h - 1] = x[h - 1]
          BY <4>1, <4>2
        <4> QED
          BY <4>2, <4>3
      <3> QED
        BY <3>1, <3>2
    <2> HIDE DEF h, T
    <2>4. w[h] = x[h]
      BY <2>2, <2>3 DEF Walks, Alike
    <2> QED
      BY <2>2, <2>4
  <1>2. \A h \in a..c : h - a \in Nat /\ a + (h - a) = h /\ h <= c
    OBVIOUS
  <1> QED
    BY <1>1, <1>2

-----------------------------------------------------------------------------
(* The walk over a series                                                     *)

Least(x, y) == IF x <= y THEN x ELSE y

LEMMA GridIs ==
  ASSUME NEW lo \in Int, NEW hi \in Int, NEW s, DOMAIN s = lo..hi, lo <= hi, NEW now \in Int
  PROVE  Grid(s, now) = (lo + Before)..Least(hi, now)
  <1>1. Min(lo..hi) = lo /\ Before \in Nat
    BY RangeMin, DecisionAssumption
  <1>2. s # <<>>
    <2>1. lo \in DOMAIN s
      OBVIOUS
    <2>2. DOMAIN <<>> = {}
      OBVIOUS
    <2> QED
      BY <2>1, <2>2
  <1>3. Grid(s, now) = {h \in lo..hi : h >= lo + Before /\ h <= now}
    BY <1>1, <1>2 DEF Grid
  <1> QED
    BY <1>1, <1>3 DEF Least

LEMMA WalkOfSeries ==
  ASSUME NEW lo \in Int, NEW hi \in Int, NEW s, DOMAIN s = lo..hi, lo <= hi,
         NEW now \in Int, NEW tariff
  PROVE  Walks(Walk(s, tariff, now), s, tariff, lo + Before, Least(hi, now))
  <1>1. Before \in Nat
    BY DecisionAssumption
  <1>2. lo + Before \in Int /\ Least(hi, now) \in Int
    BY <1>1 DEF Least
  <1>3. Walk(s, tariff, now) = WalkOver(s, tariff, (lo + Before)..Least(hi, now))
    BY GridIs DEF Walk
  <1> QED
    BY <1>2, <1>3, WalkIs

LEMMA WalkSeen ==
  ASSUME NEW lo \in Int, NEW hi \in Int, NEW s, DOMAIN s = lo..hi, lo <= hi,
         NEW now \in Int, NEW h \in Int, lo <= h, h <= now, h <= hi, NEW tariff
  PROVE  \A g \in (lo + Before)..h : Walk(s, tariff, now)[g] = Walk(s, tariff, h)[g]
  <1>1. Before \in Nat
    BY DecisionAssumption
  <1>2. Least(hi, h) = h /\ h <= Least(hi, now) /\ Least(hi, now) \in Int
    BY DEF Least
  <1>3. /\ Walks(Walk(s, tariff, now), s, tariff, lo + Before, Least(hi, now))
        /\ Walks(Walk(s, tariff, h), s, tariff, lo + Before, h)
    BY <1>2, WalkOfSeries
  <1> DEFINE a == lo + Before
             b == Least(hi, now)
             w == Walk(s, tariff, now)
             x == Walk(s, tariff, h)
  <1>4. /\ a \in Int /\ b \in Int /\ h <= b
        /\ Walks(w, s, tariff, a, b) /\ Walks(x, s, tariff, a, h)
        /\ \A g \in a..h : Alike(s, s, tariff, g)
    BY <1>1, <1>2, <1>3 DEF Alike
  <1> HIDE DEF a, b, w, x
  <1>5. \A g \in a..h : w[g] = x[g]
    BY <1>4, WalksAgree
  <1> QED
    BY <1>5 DEF a, w, x

\* What comes after an hour changes no row up to it.
LEMMA WalkCut ==
  ASSUME NEW lo \in Int, NEW hi \in Int, NEW s, DOMAIN s = lo..hi, lo <= hi,
         NEW now \in Int, NEW h \in Int, lo <= h, h <= now, h <= hi, NEW tariff
  PROVE  \A g \in (lo + Before)..h : Walk(s, tariff, now)[g] = Walk(Cut(s, h), tariff, h)[g]
  <1> DEFINE c == Cut(s, h)
  <1>1. Before \in Nat
    BY DecisionAssumption
  <1>2. DOMAIN c = lo..h /\ \A g \in lo..h : c[g] = s[g]
    <2>1. {g \in DOMAIN s : g <= h} = lo..h
      OBVIOUS
    <2> QED
      BY <2>1 DEF Cut
  <1>3. Least(h, h) = h /\ h <= Least(hi, now) /\ Least(hi, now) \in Int
    BY DEF Least
  <1>4. \A g \in (lo + Before)..h : Judge(s, tariff, g) = Judge(c, tariff, g)
    <2>1. \A g \in Int : g <= h => Judge(Cut(s, h), tariff, g) = Judge(s, tariff, g)
      BY JudgeCut
    <2> QED
      BY <1>1, <2>1
  <1>5. \A g \in (lo + Before)..h : Useful(s, g) = Useful(c, g)
    <2>1. \A g \in (lo + Before)..h : c[g] = s[g]
      BY <1>1, <1>2
    <2> HIDE DEF c
    <2> QED
      BY <2>1 DEF Useful
  <1> HIDE DEF c
  <1>6. /\ Walks(Walk(s, tariff, now), s, tariff, lo + Before, Least(hi, now))
        /\ Walks(Walk(c, tariff, h), c, tariff, lo + Before, h)
    BY <1>2, <1>3, WalkOfSeries
  <1>7. \A g \in (lo + Before)..h : Walk(s, tariff, now)[g] = Walk(c, tariff, h)[g]
    <2> DEFINE a == lo + Before
               b == Least(hi, now)
               w == Walk(s, tariff, now)
               x == Walk(c, tariff, h)
    <2>1. /\ a \in Int /\ b \in Int /\ h <= b
          /\ Walks(w, s, tariff, a, b) /\ Walks(x, c, tariff, a, h)
          /\ \A g \in a..h : Alike(s, c, tariff, g)
      BY <1>1, <1>3, <1>4, <1>5, <1>6 DEF Alike
    <2> HIDE DEF a, b, w, x
    <2>2. \A g \in a..h : w[g] = x[g]
      BY <2>1, WalksAgree
    <2> QED
      BY <2>2 DEF a, w, x
  <1> QED
    BY <1>7 DEF c

-----------------------------------------------------------------------------
(* Hours                                                                      *)

LEMMA PerHourIs == PerHour \in Nat /\ PerHour > 0
  BY RollupAssumption

LEMMA DivBounds ==
  ASSUME NEW a \in Int, NEW n \in Nat, n > 0
  PROVE  /\ a \div n \in Int
         /\ (a \div n) * n <= a /\ a < (a \div n) * n + n
  OBVIOUS

LEMMA Multiples ==
  ASSUME NEW i \in Int, NEW j \in Int, NEW n \in Nat, i < j
  PROVE  i * n + n <= j * n
  <1>1. PICK d \in Nat : j = i + 1 + d
    <2>1. j - i - 1 \in Nat /\ j = i + 1 + (j - i - 1)
      OBVIOUS
    <2> QED
      BY <2>1
  <1>2. j * n = i * n + n + d * n
    BY <1>1
  <1>3. d * n \in Nat /\ i * n \in Int
    OBVIOUS
  <1> QED
    BY <1>2, <1>3

\* The multiple of PerHour at or below t is Floor(t).
LEMMA FloorIs ==
  ASSUME NEW t \in Int, NEW i \in Int, i * PerHour <= t, t < i * PerHour + PerHour
  PROVE  t \div PerHour = i /\ Floor(t) = i * PerHour
  <1> DEFINE j == t \div PerHour
  <1>1. j \in Int /\ j * PerHour <= t /\ t < j * PerHour + PerHour
    BY PerHourIs, DivBounds
  <1> HIDE DEF j
  <1>2. ~(i < j)
    <2> SUFFICES ASSUME i < j PROVE FALSE
      OBVIOUS
    <2>1. i * PerHour + PerHour <= j * PerHour
      BY <1>1, PerHourIs, Multiples
    <2>2. i * PerHour \in Int /\ j * PerHour \in Int /\ PerHour \in Int
      BY <1>1, PerHourIs
    <2> QED
      BY <1>1, <2>1, <2>2
  <1>3. ~(j < i)
    <2> SUFFICES ASSUME j < i PROVE FALSE
      OBVIOUS
    <2>1. j * PerHour + PerHour <= i * PerHour
      BY <1>1, PerHourIs, Multiples
    <2>2. i * PerHour \in Int /\ j * PerHour \in Int /\ PerHour \in Int
      BY <1>1, PerHourIs
    <2> QED
      BY <1>1, <2>1, <2>2
  <1>4. j = i
    BY <1>1, <1>2, <1>3
  <1> QED
    BY <1>4 DEF Floor, j

LEMMA HourIndex ==
  ASSUME NEW i \in Int
  PROVE  /\ i * PerHour \in Int /\ Floor(i * PerHour) = i * PerHour
         /\ (i * PerHour) \div PerHour = i
  <1>1. i * PerHour \in Int /\ PerHour \in Nat /\ PerHour > 0
    BY PerHourIs
  <1>2. i * PerHour < i * PerHour + PerHour
    BY <1>1
  <1> QED
    BY <1>1, <1>2, FloorIs

LEMMA IndexOrder ==
  ASSUME NEW i \in Int, NEW j \in Int
  PROVE  i <= j <=> i * PerHour <= j * PerHour
  <1>1. PerHour \in Nat /\ PerHour > 0 /\ i * PerHour \in Int /\ j * PerHour \in Int
    BY PerHourIs
  <1>2. CASE i < j
    BY <1>1, <1>2, Multiples
  <1>3. CASE j < i
    BY <1>1, <1>3, Multiples
  <1>4. CASE i = j
    BY <1>1, <1>4
  <1> QED
    BY <1>2, <1>3, <1>4

LEMMA FloorBounds ==
  ASSUME NEW t \in Int
  PROVE  /\ t \div PerHour \in Int /\ Floor(t) = (t \div PerHour) * PerHour
         /\ Floor(t) \in Int /\ Floor(t) <= t /\ t < Floor(t) + PerHour
         /\ Floor(Floor(t)) = Floor(t)
  <1>1. /\ t \div PerHour \in Int
        /\ (t \div PerHour) * PerHour <= t /\ t < (t \div PerHour) * PerHour + PerHour
    BY PerHourIs, DivBounds
  <1>2. Floor(t) = (t \div PerHour) * PerHour
    BY DEF Floor
  <1>3. /\ (t \div PerHour) * PerHour \in Int
        /\ Floor((t \div PerHour) * PerHour) = (t \div PerHour) * PerHour
    BY <1>1, HourIndex
  <1> QED
    BY <1>1, <1>2, <1>3

\* An hour ends before the next begins.
LEMMA HourBefore ==
  ASSUME NEW g \in Int, NEW h \in Int, Floor(g) = g, Floor(h) = h, g < h
  PROVE  g + PerHour <= h
  <1> DEFINE i == g \div PerHour
             j == h \div PerHour
  <1>1. i \in Int /\ j \in Int /\ g = i * PerHour /\ h = j * PerHour
    BY FloorBounds
  <1> HIDE DEF i, j
  <1>2. i < j
    BY <1>1, IndexOrder
  <1> QED
    BY <1>1, <1>2, PerHourIs, Multiples

LEMMA HourOf ==
  ASSUME NEW h \in Int, NEW t \in Int, Floor(h) = h, h <= t, t < h + PerHour
  PROVE  Floor(t) = h
  <1>1. h \div PerHour \in Int /\ h = (h \div PerHour) * PerHour
    BY FloorBounds
  <1> QED
    BY <1>1, FloorIs

LEMMA FloorOrder ==
  ASSUME NEW t \in Int, NEW u \in Int, t <= u
  PROVE  Floor(t) <= Floor(u)
  <1>1. /\ Floor(t) \in Int /\ Floor(t) <= t /\ Floor(Floor(t)) = Floor(t)
        /\ Floor(u) \in Int /\ u < Floor(u) + PerHour /\ Floor(Floor(u)) = Floor(u)
    BY FloorBounds
  <1>2. ~(Floor(u) < Floor(t))
    <2> SUFFICES ASSUME Floor(u) < Floor(t) PROVE FALSE
      OBVIOUS
    <2>1. Floor(u) + PerHour <= Floor(t)
      BY <1>1, HourBefore
    <2> QED
      BY <1>1, <2>1, PerHourIs
  <1> QED
    BY <1>1, <1>2

LEMMA HourNext ==
  ASSUME NEW h \in Int, Floor(h) = h
  PROVE  h + PerHour \in Int /\ Floor(h + PerHour) = h + PerHour
  <1> DEFINE i == h \div PerHour
  <1>1. i \in Int /\ h = i * PerHour
    BY FloorBounds
  <1> HIDE DEF i
  <1>2. h + PerHour = (i + 1) * PerHour
    BY <1>1, PerHourIs
  <1> QED
    BY <1>1, <1>2, HourIndex

-----------------------------------------------------------------------------
(* Cycles and their hours                                                     *)

HourOfCycles(C, h) == {c \in C : h <= c.ts /\ c.ts < h + PerHour}
BucketOf(C, h) ==
  [total |-> Cardinality(HourOfCycles(C, h)),
   slow |-> Cardinality({c \in HourOfCycles(C, h) : c.kind = "slow"}),
   bad |-> Cardinality({c \in HourOfCycles(C, h) : c.kind = "bad"})]
Zero == [total |-> 0, slow |-> 0, bad |-> 0]

LEMMA BucketIs ==
  /\ \A h : Bucket(h) = BucketOf(cycles, h)
  /\ \A h : Direct(h, h + PerHour) = Cardinality(HourOfCycles(cycles, h))
  BY DEF Bucket, BucketOf, Direct, In, HourOfCycles

\* Some of the cycles of s have come.
CyclesOk(s, C) == s \in Scopes /\ C \subseteq s.cycles /\ IsFiniteSet(C)
\* There is a newest one, t.
NewestIs(C, t) == t \in {c.ts : c \in C} /\ \A c \in C : c.ts <= t
HasNewest(C) == C # {} => \E t : NewestIs(C, t)
LimitOf(C) == Floor(Max({c.ts : c \in C}))

LEMMA CycleTimes ==
  ASSUME NEW s, NEW C, CyclesOk(s, C)
  PROVE  \A c \in s.cycles : c.ts \in Nat
  BY RollupAssumption DEF CyclesOk

LEMMA LimitIs ==
  ASSUME NEW s, NEW C, CyclesOk(s, C), NEW t, NewestIs(C, t)
  PROVE  Max({c.ts : c \in C}) = t /\ LimitOf(C) = Floor(t) /\ t \in Nat /\ LimitOf(C) \in Int
  <1>1. {c.ts : c \in C} \in SUBSET Int /\ t \in {c.ts : c \in C} /\ t \in Nat
    BY CycleTimes DEF CyclesOk, NewestIs
  <1>2. \A x \in {c.ts : c \in C} : x <= t
    BY DEF NewestIs
  <1>3. Max({c.ts : c \in C}) = t
    BY <1>1, <1>2, MaxOf
  <1> QED
    BY <1>1, <1>3, FloorBounds DEF LimitOf

LEMMA LimitFloor ==
  ASSUME NEW s, NEW C, CyclesOk(s, C), NEW t, NewestIs(C, t)
  PROVE  LimitOf(C) = Floor(t) /\ t \in Nat
  BY LimitIs

\* A cycle more: the newest, the limit and the counts do not go down.
LEMMA CycleComes ==
  ASSUME NEW s, NEW C, CyclesOk(s, C), HasNewest(C), NEW c \in s.cycles
  PROVE  LET D == C \cup {c}
         IN /\ CyclesOk(s, D) /\ HasNewest(D) /\ D # {}
            /\ C # {} => LimitOf(C) <= LimitOf(D)
            /\ \A h : /\ Cardinality(HourOfCycles(C, h)) \in Nat
                      /\ Cardinality(HourOfCycles(D, h)) \in Nat
                      /\ Cardinality(HourOfCycles(C, h)) <= Cardinality(HourOfCycles(D, h))
  <1> DEFINE D == C \cup {c}
  <1>1. CyclesOk(s, D) /\ D # {}
    BY FS_AddElement DEF CyclesOk
  <1>2. \A d \in D : d.ts \in Nat
    BY <1>1, CycleTimes DEF CyclesOk
  <1>3. \E u : NewestIs(D, u) /\ \A t : NewestIs(C, t) => t <= u
    <2>1. CASE C = {}
      <3>1. NewestIs(D, c.ts)
        BY <1>2, <2>1 DEF NewestIs
      <3>2. \A t : ~NewestIs(C, t)
        BY <2>1 DEF NewestIs
      <3> QED
        BY <3>1, <3>2
    <2>2. CASE C # {}
      <3>1. PICK t : NewestIs(C, t)
        BY <2>2 DEF HasNewest
      <3>2. t \in Nat /\ c.ts \in Nat
        BY <1>2, <3>1 DEF NewestIs
      <3>3. \A x : NewestIs(C, x) => x <= t
        BY <3>1 DEF NewestIs
      <3>4. CASE t <= c.ts
        <4>1. NewestIs(D, c.ts)
          BY <1>2, <3>1, <3>2, <3>4 DEF NewestIs
        <4>2. \A x : NewestIs(C, x) => x <= c.ts
          BY <1>2, <3>2, <3>3, <3>4 DEF NewestIs
        <4> QED
          BY <4>1, <4>2
      <3>5. CASE c.ts < t
        <4>1. NewestIs(D, t)
          BY <1>2, <3>1, <3>2, <3>5 DEF NewestIs
        <4> QED
          BY <3>3, <4>1
      <3> QED
        BY <3>2, <3>4, <3>5
    <2> QED
      BY <2>1, <2>2
  <1>4. HasNewest(D)
    BY <1>3 DEF HasNewest
  <1>5. C # {} => LimitOf(C) <= LimitOf(D)
    <2> SUFFICES ASSUME C # {} PROVE LimitOf(C) <= LimitOf(D)
      OBVIOUS
    <2>1. PICK u : NewestIs(D, u) /\ \A t : NewestIs(C, t) => t <= u
      BY <1>3
    <2>2. PICK t : NewestIs(C, t)
      BY DEF HasNewest
    <2>3. LimitOf(C) = Floor(t) /\ LimitOf(D) = Floor(u) /\ t \in Nat /\ u \in Nat /\ t <= u
      BY <1>1, <2>1, <2>2, LimitIs
    <2> QED
      BY <2>3, FloorOrder
  <1>6. ASSUME NEW h
        PROVE  /\ Cardinality(HourOfCycles(C, h)) \in Nat
               /\ Cardinality(HourOfCycles(D, h)) \in Nat
               /\ Cardinality(HourOfCycles(C, h)) <= Cardinality(HourOfCycles(D, h))
    <2>1. HourOfCycles(C, h) \subseteq HourOfCycles(D, h) /\ HourOfCycles(D, h) \subseteq D
      BY DEF HourOfCycles
    <2>2. IsFiniteSet(D)
      BY <1>1 DEF CyclesOk
    <2> HIDE DEF D
    <2>3. IsFiniteSet(HourOfCycles(D, h))
      BY <2>1, <2>2, FS_Subset
    <2>4. IsFiniteSet(HourOfCycles(C, h))
      BY <2>1, <2>3, FS_Subset
    <2> QED
      BY <2>1, <2>3, <2>4, FS_Subset, FS_CardinalityType
  <1> QED
    BY <1>1, <1>4, <1>5, <1>6

\* A cycle that is not late leaves the hours before the limit alone.
LEMMA CycleOnTime ==
  ASSUME NEW s, NEW C, CyclesOk(s, C), NEW c \in s.cycles,
         NEW h \in Int, Floor(h) = h, LimitOf(C) \in Int, h < LimitOf(C), ~(Floor(c.ts) < LimitOf(C))
  PROVE  HourOfCycles(C \cup {c}, h) = HourOfCycles(C, h)
         /\ BucketOf(C \cup {c}, h) = BucketOf(C, h)
  <1>1. c.ts \in Nat
    BY CycleTimes
  <1>2. ~(h <= c.ts /\ c.ts < h + PerHour)
    <2> SUFFICES ASSUME h <= c.ts, c.ts < h + PerHour PROVE FALSE
      OBVIOUS
    <2>1. Floor(c.ts) = h
      BY <1>1, HourOf
    <2> QED
      BY <2>1
  <1>3. HourOfCycles(C \cup {c}, h) = HourOfCycles(C, h)
    BY <1>2 DEF HourOfCycles
  <1> QED
    BY <1>3 DEF BucketOf

-----------------------------------------------------------------------------
(* Rows and the fill                                                          *)

\* The buckets of T are of hours, with cycles of C, and no more of them than C has.
Counts(C, T) ==
  \A h \in DOMAIN T : /\ h \in Nat /\ Floor(h) = h
                      /\ T[h].total \in 1..Cardinality(HourOfCycles(C, h))
RowsOk(C, R) ==
  /\ Counts(C, R) /\ \A h \in DOMAIN R : h < LimitOf(C)
  /\ R = <<>> \/ DOMAIN R # {}

IsFill(f) == DOMAIN f = {"lo", "hi", "next", "got", "missed"}
\* The fill is within its hours, which begin at a row or before it.
FillRanges(C, R, lo, hi, next, got) ==
  /\ C # {} /\ {lo, hi, next} \subseteq Nat
  /\ Floor(lo) = lo /\ Floor(hi) = hi /\ Floor(next) = next
  /\ lo <= next /\ next <= hi /\ lo < hi /\ hi <= LimitOf(C)
  /\ Counts(C, got) /\ \A h \in DOMAIN got : lo <= h /\ h < next
  /\ DOMAIN R # {} => \E g \in DOMAIN R : lo <= g
  /\ \A g \in DOMAIN R : g < hi
FillOk(C, R, f) ==
  f # Idle => IsFill(f) /\ FillRanges(C, R, f.lo, f.hi, f.next, f.got)

LEMMA CountsCycle ==
  ASSUME NEW s, NEW C, CyclesOk(s, C), NEW T, Counts(C, T), NEW h \in DOMAIN T
  PROVE  \E c \in C : c.ts \in Nat /\ h <= c.ts /\ c.ts < h + PerHour /\ Floor(c.ts) = h
  <1>1. T[h].total \in 1..Cardinality(HourOfCycles(C, h)) /\ h \in Nat /\ Floor(h) = h
    BY DEF Counts
  <1>2. HourOfCycles(C, h) # {}
    <2> SUFFICES ASSUME HourOfCycles(C, h) = {} PROVE FALSE
      OBVIOUS
    <2>1. Cardinality(HourOfCycles(C, h)) = 0
      BY FS_EmptySet
    <2> QED
      BY <1>1, <2>1
  <1>3. PICK c \in C : h <= c.ts /\ c.ts < h + PerHour
    BY <1>2 DEF HourOfCycles
  <1>4. c.ts \in Nat
    BY CycleTimes DEF CyclesOk
  <1>5. Floor(c.ts) = h
    BY <1>1, <1>3, <1>4, HourOf
  <1> QED
    BY <1>3, <1>4, <1>5

LEMMA CountsMore ==
  ASSUME NEW C, NEW D, NEW T, Counts(C, T),
         \A h : /\ Cardinality(HourOfCycles(C, h)) \in Nat
                /\ Cardinality(HourOfCycles(D, h)) \in Nat
                /\ Cardinality(HourOfCycles(C, h)) <= Cardinality(HourOfCycles(D, h))
  PROVE  Counts(D, T)
  <1> SUFFICES ASSUME NEW h \in DOMAIN T
               PROVE  T[h].total \in 1..Cardinality(HourOfCycles(D, h))
    BY DEF Counts
  <1>1. T[h].total \in 1..Cardinality(HourOfCycles(C, h))
    BY DEF Counts
  <1>2. /\ Cardinality(HourOfCycles(C, h)) \in Nat
        /\ Cardinality(HourOfCycles(D, h)) \in Nat
        /\ Cardinality(HourOfCycles(C, h)) <= Cardinality(HourOfCycles(D, h))
    OBVIOUS
  <1> QED
    BY <1>1, <1>2

LEMMA UpsertIs ==
  ASSUME NEW old, NEW new
  PROVE  /\ DOMAIN Upsert(old, new) = DOMAIN old \cup DOMAIN new
         /\ \A h \in DOMAIN new : Upsert(old, new)[h] = new[h]
         /\ \A h \in DOMAIN old \ DOMAIN new : Upsert(old, new)[h] = old[h]
         /\ Upsert(old, new) = <<>> \/ DOMAIN Upsert(old, new) # {}
  <1>1. /\ DOMAIN Upsert(old, new) = DOMAIN old \cup DOMAIN new
        /\ \A h \in DOMAIN new : Upsert(old, new)[h] = new[h]
        /\ \A h \in DOMAIN old \ DOMAIN new : Upsert(old, new)[h] = old[h]
    BY DEF Upsert
  <1>2. ASSUME DOMAIN old \cup DOMAIN new = {}
        PROVE  Upsert(old, new) = <<>>
    <2>1. Upsert(old, new) = [h \in {} |-> IF h \in DOMAIN new THEN new[h] ELSE old[h]]
      BY <1>2 DEF Upsert
    <2> QED
      BY <2>1
  <1> QED
    BY <1>1, <1>2

LEMMA HasCycles ==
  ASSUME NEW s, NEW C, CyclesOk(s, C), NEW R, RowsOk(C, R), DOMAIN R # {}
  PROVE  C # {}
  BY CountsCycle DEF RowsOk

LEMMA LimitInt ==
  ASSUME NEW s, NEW C, CyclesOk(s, C), HasNewest(C), C # {}
  PROVE  LimitOf(C) \in Int /\ Floor(LimitOf(C)) = LimitOf(C)
  <1>1. PICK t : NewestIs(C, t)
    BY DEF HasNewest
  <1>2. LimitOf(C) = Floor(t) /\ t \in Nat
    BY <1>1, LimitFloor
  <1> QED
    BY <1>2, FloorBounds

-----------------------------------------------------------------------------
(* Every step keeps them                                                      *)

LEMMA RowsArrive ==
  ASSUME NEW s, NEW C, CyclesOk(s, C), HasNewest(C), NEW c \in s.cycles,
         NEW R, RowsOk(C, R)
  PROVE  RowsOk(C \cup {c}, R)
  <1> DEFINE D == C \cup {c}
  <1>1. /\ CyclesOk(s, D) /\ HasNewest(D) /\ D # {} /\ (C # {} => LimitOf(C) <= LimitOf(D))
        /\ \A h : /\ Cardinality(HourOfCycles(C, h)) \in Nat
                  /\ Cardinality(HourOfCycles(D, h)) \in Nat
                  /\ Cardinality(HourOfCycles(C, h)) <= Cardinality(HourOfCycles(D, h))
    BY CycleComes
  <1> HIDE DEF D
  <1>2. Counts(D, R)
    BY <1>1, CountsMore DEF RowsOk
  <1>3. \A h \in DOMAIN R : h < LimitOf(D)
    <2> SUFFICES ASSUME NEW h \in DOMAIN R PROVE h < LimitOf(D)
      OBVIOUS
    <2>1. C # {} /\ h < LimitOf(C) /\ h \in Int
      BY HasCycles DEF RowsOk, Counts
    <2>2. LimitOf(C) \in Int /\ LimitOf(D) \in Int
      BY <1>1, <2>1, LimitInt
    <2> QED
      BY <1>1, <2>1, <2>2
  <1> QED
    BY <1>2, <1>3 DEF RowsOk, D

LEMMA FillArrive ==
  ASSUME NEW s, NEW C, CyclesOk(s, C), HasNewest(C), NEW c \in s.cycles,
         NEW R, NEW lo, NEW hi, NEW next, NEW got, FillRanges(C, R, lo, hi, next, got)
  PROVE  FillRanges(C \cup {c}, R, lo, hi, next, got)
  <1> DEFINE D == C \cup {c}
  <1>1. /\ CyclesOk(s, D) /\ HasNewest(D) /\ D # {} /\ (C # {} => LimitOf(C) <= LimitOf(D))
        /\ \A h : /\ Cardinality(HourOfCycles(C, h)) \in Nat
                  /\ Cardinality(HourOfCycles(D, h)) \in Nat
                  /\ Cardinality(HourOfCycles(C, h)) <= Cardinality(HourOfCycles(D, h))
    BY CycleComes
  <1> HIDE DEF D
  <1>2. Counts(D, got)
    BY <1>1, CountsMore DEF FillRanges
  <1>3. C # {} /\ hi <= LimitOf(C) /\ hi \in Nat
    BY DEF FillRanges
  <1>4. LimitOf(C) \in Int /\ LimitOf(D) \in Int
    BY <1>1, <1>3, LimitInt
  <1>5. hi <= LimitOf(D)
    BY <1>1, <1>3, <1>4
  <1>6. FillRanges(D, R, lo, hi, next, got)
    BY <1>1, <1>2, <1>5 DEF FillRanges
  <1> QED
    BY <1>6 DEF D

\* The oldest cycle.
LEMMA OldestIs ==
  ASSUME NEW s, NEW C, CyclesOk(s, C), C # {}
  PROVE  LET m == Min({c.ts : c \in C})
         IN m \in Nat /\ (\E c \in C : c.ts = m) /\ (\A c \in C : m <= c.ts)
  <1>1. {c.ts : c \in C} \in SUBSET Nat /\ {c.ts : c \in C} # {}
    BY CycleTimes DEF CyclesOk
  <1>2. \A x \in {c.ts : c \in C} : 0 <= x
    BY <1>1
  <1> DEFINE T == {c.ts : c \in C}
  <1>3. T \in SUBSET Int /\ T # {} /\ 0 \in Int /\ \A x \in T : 0 <= x
    BY <1>1, <1>2
  <1> HIDE DEF T
  <1>4. Min(T) \in T /\ \A x \in T : Min(T) <= x
    BY <1>3, MinIn
  <1>5. Min(T) \in Nat
    BY <1>1, <1>4 DEF T
  <1> QED
    BY <1>4, <1>5 DEF T

FillStart(C, R, since_last) ==
  IF since_last /\ R # <<>> THEN Max(DOMAIN R) ELSE Floor(Min({c.ts : c \in C}))

LEMMA RowsMax ==
  ASSUME NEW s, NEW C, CyclesOk(s, C), HasNewest(C), NEW R, RowsOk(C, R), DOMAIN R # {}
  PROVE  /\ Max(DOMAIN R) \in DOMAIN R /\ (\A h \in DOMAIN R : h <= Max(DOMAIN R))
         /\ Min(DOMAIN R) \in DOMAIN R /\ (\A h \in DOMAIN R : Min(DOMAIN R) <= h)
  <1>1. LimitOf(C) \in Int
    BY HasCycles, LimitInt
  <1>2. DOMAIN R \in SUBSET Int /\ (\A h \in DOMAIN R : 0 <= h) /\ \A h \in DOMAIN R : h <= LimitOf(C)
    BY <1>1 DEF RowsOk, Counts
  <1>3. Max(DOMAIN R) \in DOMAIN R /\ (\A h \in DOMAIN R : h <= Max(DOMAIN R))
    BY <1>1, <1>2, MaxIn
  <1>4. Min(DOMAIN R) \in DOMAIN R /\ (\A h \in DOMAIN R : Min(DOMAIN R) <= h)
    BY <1>2, MinIn
  <1> QED
    BY <1>3, <1>4

LEMMA StartIs ==
  ASSUME NEW s, NEW C, CyclesOk(s, C), HasNewest(C), C # {}, NEW R, RowsOk(C, R),
         NEW since_last
  PROVE  LET lo == FillStart(C, R, since_last)
         IN /\ lo \in Nat /\ Floor(lo) = lo
            /\ DOMAIN R # {} => \E g \in DOMAIN R : lo <= g
            /\ lo \in DOMAIN R \/ (/\ \A c \in C : lo <= c.ts
                                   /\ \E c \in C : Floor(c.ts) = lo)
  <1> DEFINE lo == FillStart(C, R, since_last)
             m == Min({c.ts : c \in C})
  <1>1. CASE since_last /\ R # <<>>
    <2>1. lo = Max(DOMAIN R) /\ DOMAIN R # {}
      BY <1>1 DEF FillStart, RowsOk
    <2>2. lo \in DOMAIN R
      BY <2>1, RowsMax
    <2>3. lo \in Nat /\ Floor(lo) = lo
      BY <2>2 DEF RowsOk, Counts
    <2> HIDE DEF lo
    <2>4. \E g \in DOMAIN R : lo <= g
      BY <2>2, <2>3
    <2> QED
      BY <2>2, <2>3, <2>4 DEF lo
  <1>2. CASE ~(since_last /\ R # <<>>)
    <2>1. lo = Floor(m)
      BY <1>2 DEF FillStart
    <2>2. m \in Nat /\ (\E c \in C : c.ts = m) /\ (\A c \in C : m <= c.ts)
      BY OldestIs
    <2> HIDE DEF m
    <2>3. lo \in Int /\ lo <= m /\ Floor(lo) = lo
      BY <2>1, <2>2, FloorBounds
    <2>4. 0 <= lo
      <3>1. 0 * PerHour = 0 /\ Floor(0 * PerHour) = 0 * PerHour
        BY HourIndex, PerHourIs
      <3>2. Floor(0) <= Floor(m)
        BY <2>2, FloorOrder
      <3> QED
        BY <2>1, <3>1, <3>2
    <2>5. \A c \in C : c.ts \in Nat
      BY CycleTimes DEF CyclesOk
    <2>6. \A c \in C : lo <= c.ts
      BY <2>2, <2>3, <2>5
    <2>7. \E c \in C : Floor(c.ts) = lo
      BY <2>1, <2>2
    <2>8. ASSUME NEW g \in DOMAIN R
          PROVE  lo <= g
      <3>1. PICK c \in C : c.ts \in Nat /\ Floor(c.ts) = g
        BY CountsCycle DEF RowsOk
      <3>2. Floor(m) <= Floor(c.ts)
        BY <2>2, <3>1, FloorOrder
      <3> QED
        BY <2>1, <3>1, <3>2
    <2> HIDE DEF lo
    <2>9. lo \in Nat
      BY <2>3, <2>4
    <2> QED
      BY <2>3, <2>6, <2>7, <2>8, <2>9 DEF lo
  <1> QED
    BY <1>1, <1>2

LEMMA BeginRanges ==
  ASSUME NEW s, NEW C, CyclesOk(s, C), HasNewest(C), C # {}, NEW R, RowsOk(C, R),
         NEW since_last, FillStart(C, R, since_last) < LimitOf(C)
  PROVE  FillRanges(C, R, FillStart(C, R, since_last), LimitOf(C),
                    FillStart(C, R, since_last), <<>>)
  <1> DEFINE lo == FillStart(C, R, since_last)
  <1>1. lo \in Nat /\ Floor(lo) = lo /\ (DOMAIN R # {} => \E g \in DOMAIN R : lo <= g)
    BY StartIs
  <1>2. LimitOf(C) \in Int /\ Floor(LimitOf(C)) = LimitOf(C)
    BY LimitInt
  <1>3. DOMAIN <<>> = {} /\ Counts(C, <<>>)
    BY DEF Counts
  <1> HIDE DEF lo
  <1>4. lo < LimitOf(C)
    BY DEF lo
  <1>5. LimitOf(C) \in Nat /\ lo <= lo
    BY <1>1, <1>2, <1>4
  <1>6. FillRanges(C, R, lo, LimitOf(C), lo, <<>>)
    BY <1>1, <1>2, <1>3, <1>4, <1>5 DEF FillRanges, RowsOk
  <1> QED
    BY <1>6 DEF lo

\* FillPiece.
GotMore(C, next, got) ==
  IF BucketOf(C, next).total = 0 THEN got
  ELSE [h \in DOMAIN got \cup {next} |-> IF h = next THEN BucketOf(C, h) ELSE got[h]]

LEMMA PieceRanges ==
  ASSUME NEW s, NEW C, CyclesOk(s, C), NEW R, NEW lo, NEW hi, NEW next, NEW got,
         FillRanges(C, R, lo, hi, next, got), next < hi
  PROVE  FillRanges(C, R, lo, hi, next + PerHour, GotMore(C, next, got))
  <1> DEFINE g == GotMore(C, next, got)
             n == Cardinality(HourOfCycles(C, next))
  <1>1. /\ lo \in Nat /\ hi \in Nat /\ next \in Nat /\ lo <= next
        /\ Floor(next) = next /\ Floor(hi) = hi
        /\ Counts(C, got) /\ \A h \in DOMAIN got : lo <= h /\ h < next
    BY DEF FillRanges
  <1>2. next + PerHour \in Nat /\ Floor(next + PerHour) = next + PerHour
        /\ next + PerHour <= hi /\ lo <= next + PerHour /\ next < next + PerHour
    BY <1>1, PerHourIs, HourNext, HourBefore
  <1>3. n \in Nat
    <2>1. HourOfCycles(C, next) \subseteq C /\ IsFiniteSet(C)
      BY DEF HourOfCycles, CyclesOk
    <2>2. IsFiniteSet(HourOfCycles(C, next))
      BY <2>1, FS_Subset
    <2> QED
      BY <2>2, FS_CardinalityType
  <1>4. BucketOf(C, next).total = n
    BY DEF BucketOf
  <1>5. /\ n = 0 => g = got
        /\ n # 0 => /\ DOMAIN g = DOMAIN got \cup {next} /\ g[next] = BucketOf(C, next)
                    /\ \A h \in DOMAIN got : h # next => g[h] = got[h]
    <2> DEFINE B == BucketOf(C, next)
    <2>1. /\ B.total = 0 => g = got
          /\ B.total # 0 => /\ DOMAIN g = DOMAIN got \cup {next} /\ g[next] = B
                            /\ \A h \in DOMAIN got : h # next => g[h] = got[h]
      BY DEF GotMore
    <2> HIDE DEF B, g
    <2> QED
      BY <1>4, <2>1 DEF B
  <1> HIDE DEF g
  <1>6. \A h \in DOMAIN got : h # next
    BY <1>1 DEF Counts
  <1>7. ASSUME NEW h \in DOMAIN g
        PROVE  /\ h \in Nat /\ Floor(h) = h /\ lo <= h /\ h < next + PerHour
               /\ g[h].total \in 1..Cardinality(HourOfCycles(C, h))
    <2>1. CASE h \in DOMAIN got
      <3>1. g[h] = got[h]
        BY <1>5, <1>6, <2>1
      <3>2. /\ h \in Nat /\ Floor(h) = h /\ got[h].total \in 1..Cardinality(HourOfCycles(C, h))
            /\ lo <= h /\ h < next
        BY <1>1, <2>1 DEF Counts
      <3> QED
        BY <1>1, <1>2, <3>1, <3>2
    <2>2. CASE h \notin DOMAIN got
      <3>1. h = next /\ n # 0 /\ g[h] = BucketOf(C, next)
        BY <1>5, <2>2
      <3>2. g[h].total = n
        BY <1>4, <3>1
      <3>3. n \in 1..n
        BY <1>3, <3>1
      <3> QED
        BY <1>1, <1>2, <3>1, <3>2, <3>3
    <2> QED
      BY <2>1, <2>2
  <1>8. Counts(C, g) /\ \A h \in DOMAIN g : lo <= h /\ h < next + PerHour
    BY <1>7 DEF Counts
  <1>9. FillRanges(C, R, lo, hi, next + PerHour, g)
    BY <1>1, <1>2, <1>8 DEF FillRanges
  <1> QED
    BY <1>9 DEF g

LEMMA CommitRows ==
  ASSUME NEW s, NEW C, CyclesOk(s, C), HasNewest(C), NEW R, RowsOk(C, R),
         NEW lo, NEW hi, NEW got, FillRanges(C, R, lo, hi, hi, got)
  PROVE  RowsOk(C, Upsert(R, got)) /\ DOMAIN R \subseteq DOMAIN Upsert(R, got)
  <1> DEFINE N2 == Upsert(R, got)
  <1>1. /\ DOMAIN N2 = DOMAIN R \cup DOMAIN got
        /\ \A h \in DOMAIN got : N2[h] = got[h]
        /\ \A h \in DOMAIN R \ DOMAIN got : N2[h] = R[h]
        /\ N2 = <<>> \/ DOMAIN N2 # {}
    BY UpsertIs
  <1> HIDE DEF N2
  <1>2. /\ C # {} /\ hi \in Nat /\ hi <= LimitOf(C) /\ Counts(C, got)
        /\ \A h \in DOMAIN got : lo <= h /\ h < hi
    BY DEF FillRanges
  <1>3. LimitOf(C) \in Int
    BY <1>2, LimitInt
  <1>4. ASSUME NEW h \in DOMAIN N2
        PROVE  /\ h \in Nat /\ Floor(h) = h /\ h < LimitOf(C)
               /\ N2[h].total \in 1..Cardinality(HourOfCycles(C, h))
    <2>1. CASE h \in DOMAIN got
      <3>1. N2[h] = got[h] /\ h < hi
        BY <1>1, <1>2, <2>1
      <3>2. h \in Nat /\ Floor(h) = h /\ got[h].total \in 1..Cardinality(HourOfCycles(C, h))
        BY <1>2, <2>1 DEF Counts
      <3> QED
        BY <1>2, <1>3, <3>1, <3>2
    <2>2. CASE h \notin DOMAIN got
      <3>1. h \in DOMAIN R /\ N2[h] = R[h]
        BY <1>1, <2>2
      <3> QED
        BY <3>1 DEF RowsOk, Counts
    <2> QED
      BY <2>1, <2>2
  <1>5. RowsOk(C, N2)
    BY <1>1, <1>4 DEF RowsOk, Counts
  <1> QED
    BY <1>1, <1>5 DEF N2

-----------------------------------------------------------------------------
(* While no cycle is late, rows are the buckets of cycles                     *)

BucketAt(T, h) == IF h \in DOMAIN T THEN T[h] ELSE Zero
Between(R, h) == (\E g \in DOMAIN R : g <= h) /\ (\E g \in DOMAIN R : h <= g)
CalmRows(C, R) ==
  \A h \in Nat : Floor(h) = h /\ Between(R, h) => BucketAt(R, h) = BucketOf(C, h)
\* No cycle is older than the row g.
FirstIs(C, R, g) == g \in DOMAIN R /\ \A c \in C : g <= c.ts
CalmFirst(C, R) == DOMAIN R # {} => \E g : FirstIs(C, R, g)
\* What the fill has read is what cycles has, and the first fill begins at the oldest.
CalmFill(C, R, lo, next, got) ==
  /\ \A h \in Nat : Floor(h) = h /\ lo <= h /\ h < next => BucketAt(got, h) = BucketOf(C, h)
  /\ DOMAIN R = {} => (\A c \in C : lo <= c.ts) /\ (\E c \in C : Floor(c.ts) = lo)

\* c is of the hour of the newest cycle or a later one.
OnTime(C, c) == LimitOf(C) \in Int /\ ~(Floor(c.ts) < LimitOf(C))

LEMMA OnTimeBucket ==
  ASSUME NEW s, NEW C, CyclesOk(s, C), NEW c \in s.cycles, OnTime(C, c)
  PROVE  \A h \in Nat : Floor(h) = h /\ h < LimitOf(C) => BucketOf(C \cup {c}, h) = BucketOf(C, h)
  BY CycleOnTime DEF OnTime

LEMMA OnTimeAfter ==
  ASSUME NEW s, NEW C, CyclesOk(s, C), NEW c \in s.cycles, OnTime(C, c),
         NEW h \in Int, h < LimitOf(C)
  PROVE  h <= c.ts
  <1>1. c.ts \in Nat
    BY CycleTimes
  <1>2. Floor(c.ts) <= c.ts /\ Floor(c.ts) \in Int
    BY <1>1, FloorBounds
  <1> QED
    BY <1>1, <1>2 DEF OnTime

LEMMA RowsArriveCalm ==
  ASSUME NEW s, NEW C, CyclesOk(s, C), NEW c \in s.cycles, OnTime(C, c),
         NEW R, RowsOk(C, R), CalmRows(C, R)
  PROVE  CalmRows(C \cup {c}, R) /\ \A g : FirstIs(C, R, g) => FirstIs(C \cup {c}, R, g)
  <1>1. ASSUME NEW h \in Nat, Floor(h) = h, Between(R, h)
        PROVE  BucketAt(R, h) = BucketOf(C \cup {c}, h)
    <2>1. PICK g \in DOMAIN R : h <= g
      BY <1>1 DEF Between
    <2>2. g \in Nat /\ g < LimitOf(C) /\ LimitOf(C) \in Int
      BY DEF RowsOk, Counts, OnTime
    <2>3. h < LimitOf(C)
      BY <2>1, <2>2
    <2>4. BucketOf(C \cup {c}, h) = BucketOf(C, h)
      BY <1>1, <2>3, OnTimeBucket
    <2> QED
      BY <1>1, <2>4 DEF CalmRows
  <1>2. ASSUME NEW g, FirstIs(C, R, g)
        PROVE  FirstIs(C \cup {c}, R, g)
    <2>1. g \in Nat /\ g < LimitOf(C)
      BY <1>2 DEF FirstIs, RowsOk, Counts
    <2>2. g <= c.ts
      BY <2>1, OnTimeAfter
    <2> QED
      BY <1>2, <2>2 DEF FirstIs
  <1>3. CalmRows(C \cup {c}, R)
    BY <1>1 DEF CalmRows
  <1> QED
    BY <1>2, <1>3

LEMMA FillArriveCalm ==
  ASSUME NEW s, NEW C, CyclesOk(s, C), NEW c \in s.cycles, OnTime(C, c),
         NEW R, NEW lo, NEW hi, NEW next, NEW got,
         FillRanges(C, R, lo, hi, next, got), CalmFill(C, R, lo, next, got)
  PROVE  CalmFill(C \cup {c}, R, lo, next, got)
  <1>1. /\ lo \in Nat /\ next \in Nat /\ hi \in Nat /\ lo < hi /\ next <= hi
        /\ hi <= LimitOf(C) /\ LimitOf(C) \in Int
    BY DEF FillRanges, OnTime
  <1>2. ASSUME NEW h \in Nat, Floor(h) = h, lo <= h, h < next
        PROVE  BucketAt(got, h) = BucketOf(C \cup {c}, h)
    <2>1. h < LimitOf(C)
      BY <1>1, <1>2
    <2>2. BucketOf(C \cup {c}, h) = BucketOf(C, h)
      BY <1>2, <2>1, OnTimeBucket
    <2> QED
      BY <1>2, <2>2 DEF CalmFill
  <1>3. lo <= c.ts
    <2>1. lo < LimitOf(C) /\ lo \in Int
      BY <1>1
    <2> QED
      BY <2>1, OnTimeAfter
  <1>4. DOMAIN R = {} => /\ \A d \in C \cup {c} : lo <= d.ts
                         /\ \E d \in C \cup {c} : Floor(d.ts) = lo
    BY <1>3 DEF CalmFill
  <1> QED
    BY <1>2, <1>4 DEF CalmFill

LEMMA BeginCalm ==
  ASSUME NEW s, NEW C, CyclesOk(s, C), HasNewest(C), C # {}, NEW R, RowsOk(C, R),
         NEW since_last
  PROVE  CalmFill(C, R, FillStart(C, R, since_last), FillStart(C, R, since_last), <<>>)
  <1> DEFINE lo == FillStart(C, R, since_last)
  <1>1. /\ lo \in Nat
        /\ lo \in DOMAIN R \/ (/\ \A c \in C : lo <= c.ts
                               /\ \E c \in C : Floor(c.ts) = lo)
    BY StartIs
  <1> HIDE DEF lo
  <1>2. \A h \in Nat : ~(lo <= h /\ h < lo)
    BY <1>1
  <1>3. CalmFill(C, R, lo, lo, <<>>)
    BY <1>1, <1>2 DEF CalmFill
  <1> QED
    BY <1>3 DEF lo

LEMMA PieceCalm ==
  ASSUME NEW s, NEW C, CyclesOk(s, C), NEW R, NEW lo, NEW hi, NEW next, NEW got,
         FillRanges(C, R, lo, hi, next, got), next < hi, CalmFill(C, R, lo, next, got)
  PROVE  CalmFill(C, R, lo, next + PerHour, GotMore(C, next, got))
  <1> DEFINE g == GotMore(C, next, got)
             B == BucketOf(C, next)
  <1>1. /\ lo \in Nat /\ next \in Nat /\ Floor(next) = next /\ Counts(C, got)
        /\ \A h \in DOMAIN got : h < next
    BY DEF FillRanges
  <1>2. /\ B.total = 0 => g = got
        /\ B.total # 0 => /\ DOMAIN g = DOMAIN got \cup {next} /\ g[next] = B
                          /\ \A h \in DOMAIN got : h # next => g[h] = got[h]
    BY DEF GotMore
  <1>3. B.total = 0 => B = Zero
    <2> DEFINE X == HourOfCycles(C, next)
    <2>1. X \subseteq C /\ IsFiniteSet(C)
      BY DEF HourOfCycles, CyclesOk
    <2>2. IsFiniteSet(X)
      BY <2>1, FS_Subset
    <2>3. B.total = Cardinality(X)
      BY DEF BucketOf
    <2>4. ASSUME Cardinality(X) = 0
          PROVE  B = Zero
      <3>1. X = {}
        BY <2>2, <2>4, FS_EmptySet
      <3>2. Cardinality({c \in X : c.kind = "slow"}) = 0 /\ Cardinality({c \in X : c.kind = "bad"}) = 0
        <4>1. {c \in X : c.kind = "slow"} = {} /\ {c \in X : c.kind = "bad"} = {}
          BY <3>1
        <4> QED
          BY <4>1, FS_EmptySet
      <3> QED
        BY <2>4, <3>2 DEF BucketOf, Zero
    <2> QED
      BY <2>3, <2>4
  <1>4. next \notin DOMAIN got
    BY <1>1
  <1> HIDE DEF g, B
  <1>5. ASSUME NEW h \in Nat, Floor(h) = h, lo <= h, h < next + PerHour
        PROVE  BucketAt(g, h) = BucketOf(C, h)
    <2>1. CASE h < next
      <3>1. BucketAt(got, h) = BucketOf(C, h)
        BY <1>5, <2>1 DEF CalmFill
      <3>2. BucketAt(g, h) = BucketAt(got, h)
        BY <1>1, <1>2, <2>1 DEF BucketAt
      <3> QED
        BY <3>1, <3>2
    <2>2. CASE ~(h < next)
      <3>1. h = next
        <4>1. ~(next < h)
          <5> SUFFICES ASSUME next < h PROVE FALSE
            OBVIOUS
          <5>1. next + PerHour <= h
            BY <1>1, <1>5, HourBefore
          <5> QED
            BY <1>1, <1>5, <5>1, PerHourIs
        <4> QED
          BY <1>1, <2>2, <4>1
      <3>2. BucketAt(g, next) = B
        BY <1>2, <1>3, <1>4 DEF BucketAt
      <3> QED
        BY <3>1, <3>2 DEF B
    <2> QED
      BY <2>1, <2>2
  <1>6. CalmFill(C, R, lo, next + PerHour, g)
    BY <1>5 DEF CalmFill
  <1> QED
    BY <1>6 DEF g

LEMMA CommitCalm ==
  ASSUME NEW s, NEW C, CyclesOk(s, C), HasNewest(C), NEW R, RowsOk(C, R),
         CalmRows(C, R), CalmFirst(C, R),
         NEW lo, NEW hi, NEW got, FillRanges(C, R, lo, hi, hi, got), CalmFill(C, R, lo, hi, got)
  PROVE  /\ CalmRows(C, Upsert(R, got)) /\ CalmFirst(C, Upsert(R, got))
         /\ \A g : FirstIs(C, R, g) => FirstIs(C, Upsert(R, got), g)
  <1> DEFINE N2 == Upsert(R, got)
  <1>1. /\ DOMAIN N2 = DOMAIN R \cup DOMAIN got
        /\ \A h \in DOMAIN got : N2[h] = got[h]
        /\ \A h \in DOMAIN R \ DOMAIN got : N2[h] = R[h]
    BY UpsertIs
  <1> HIDE DEF N2
  <1>2. /\ lo \in Nat /\ hi \in Nat /\ lo < hi /\ Floor(lo) = lo
        /\ \A h \in DOMAIN got : h \in Nat /\ lo <= h /\ h < hi
        /\ \A h \in DOMAIN R : h \in Nat /\ h < hi
    BY DEF FillRanges, Counts, RowsOk
  <1>3. ASSUME NEW h \in Nat, Floor(h) = h, Between(N2, h)
        PROVE  BucketAt(N2, h) = BucketOf(C, h)
    <2>1. h < hi
      <3>1. PICK g \in DOMAIN N2 : h <= g
        BY <1>3 DEF Between
      <3> QED
        BY <1>1, <1>2, <3>1
    <2>2. CASE h \in DOMAIN got
      <3>1. BucketAt(N2, h) = got[h] /\ BucketAt(got, h) = got[h]
        BY <1>1, <2>2 DEF BucketAt
      <3>2. BucketAt(got, h) = BucketOf(C, h)
        BY <1>2, <1>3, <2>2 DEF CalmFill
      <3> QED
        BY <3>1, <3>2
    <2>3. CASE h \notin DOMAIN got
      <3>1. BucketAt(N2, h) = BucketAt(R, h)
        BY <1>1, <2>3 DEF BucketAt
      <3>2. CASE h \in DOMAIN R
        <4>1. Between(R, h)
          BY <3>2 DEF Between
        <4> QED
          BY <1>3, <3>1, <4>1 DEF CalmRows
      <3>3. CASE h \notin DOMAIN R /\ lo <= h
        <4>1. BucketAt(R, h) = Zero /\ BucketAt(got, h) = Zero
          BY <2>3, <3>3 DEF BucketAt
        <4>2. BucketAt(got, h) = BucketOf(C, h)
          BY <1>3, <2>1, <3>3 DEF CalmFill
        <4> QED
          BY <3>1, <4>1, <4>2
      <3>4. CASE ~(lo <= h)
        <4>1. PICK g \in DOMAIN N2 : g <= h
          BY <1>3 DEF Between
        <4>2. g \in DOMAIN R
          BY <1>1, <1>2, <3>4, <4>1
        <4>3. PICK k \in DOMAIN R : lo <= k
          BY <4>2 DEF FillRanges
        <4>4. h <= k
          BY <1>2, <3>4, <4>3
        <4>5. Between(R, h)
          BY <4>1, <4>2, <4>4 DEF Between
        <4> QED
          BY <1>3, <3>1, <4>5 DEF CalmRows
      <3> QED
        BY <3>2, <3>3, <3>4
    <2> QED
      BY <2>2, <2>3
  <1>4. \A g : FirstIs(C, R, g) => FirstIs(C, N2, g)
    BY <1>1 DEF FirstIs
  <1>5. CalmFirst(C, N2)
    <2>1. CASE DOMAIN R # {}
      BY <1>4, <2>1 DEF CalmFirst
    <2>2. CASE DOMAIN R = {}
      <3>1. (\A c \in C : lo <= c.ts) /\ (\E c \in C : Floor(c.ts) = lo)
        BY <2>2 DEF CalmFill
      <3>2. BucketAt(got, lo) = BucketOf(C, lo)
        BY <1>2 DEF CalmFill
      <3>3. BucketOf(C, lo).total # 0
        <4> DEFINE X == HourOfCycles(C, lo)
        <4>1. X \subseteq C /\ IsFiniteSet(C)
          BY DEF HourOfCycles, CyclesOk
        <4>2. IsFiniteSet(X)
          BY <4>1, FS_Subset
        <4>3. PICK c \in C : Floor(c.ts) = lo
          BY <3>1
        <4>4. c.ts \in Nat
          BY CycleTimes DEF CyclesOk
        <4>5. lo <= c.ts /\ c.ts < lo + PerHour
          BY <4>3, <4>4, FloorBounds
        <4>6. X # {}
          BY <4>5 DEF HourOfCycles
        <4>7. Cardinality(X) # 0
          BY <4>2, <4>6, FS_EmptySet
        <4> QED
          BY <4>7 DEF BucketOf
      <3>4. lo \in DOMAIN got
        BY <3>2, <3>3 DEF BucketAt, Zero
      <3>5. FirstIs(C, N2, lo)
        BY <1>1, <3>1, <3>4 DEF FirstIs
      <3> QED
        BY <3>5 DEF CalmFirst
    <2> QED
      BY <2>1, <2>2
  <1>6. CalmRows(C, N2)
    BY <1>3 DEF CalmRows
  <1> QED
    BY <1>4, <1>5, <1>6 DEF N2

\* The row that no cycle precedes is the first.
LEMMA FirstIsMin ==
  ASSUME NEW s, NEW C, CyclesOk(s, C), NEW R, RowsOk(C, R), NEW g, FirstIs(C, R, g)
  PROVE  Min(DOMAIN R) = g
  <1>1. g \in DOMAIN R /\ g \in Nat /\ Floor(g) = g /\ DOMAIN R \in SUBSET Int
    BY DEF FirstIs, RowsOk, Counts
  <1>2. ASSUME NEW h \in DOMAIN R
        PROVE  g <= h
    <2>1. PICK c \in C : c.ts \in Nat /\ Floor(c.ts) = h
      BY CountsCycle DEF RowsOk
    <2>2. g <= c.ts
      BY DEF FirstIs
    <2>3. Floor(g) <= Floor(c.ts)
      BY <1>1, <2>1, <2>2, FloorOrder
    <2> QED
      BY <1>1, <2>1, <2>3
  <1> QED
    BY <1>1, <1>2, MinOf

-----------------------------------------------------------------------------
(* Series                                                                     *)

SeriesOf(R, lo, hi) == [i \in lo..hi |-> BucketAt(R, i * PerHour)]
\* The hours lo..hi lie between two rows.
Known(R, lo, hi) ==
  /\ lo \in Int /\ hi \in Int /\ lo <= hi
  /\ \E g \in DOMAIN R : g <= lo * PerHour
  /\ \E g \in DOMAIN R : hi * PerHour <= g

LEMMA SeriesIs == \A lo, hi : Series(lo, hi) = SeriesOf(rows, lo, hi)
  <1>1. ASSUME NEW lo, NEW hi
        PROVE  Series(lo, hi) = SeriesOf(rows, lo, hi)
    BY DEF Series, SeriesOf, BucketAt, Zero
  <1> QED
    BY <1>1

\* What has been filled in stays between two rows;
GrowsTo(R, R2) == DOMAIN R \subseteq DOMAIN R2
\* and, without late cycles, it stays as it was.
CalmTo(C, R, D, R2) ==
  /\ GrowsTo(R, R2)
  /\ \A lo, hi : Known(R, lo, hi) => SeriesOf(R2, lo, hi) = SeriesOf(R, lo, hi)
  /\ \A g : FirstIs(C, R, g) => FirstIs(D, R2, g)

LEMMA KnownGrows ==
  ASSUME NEW R, NEW R2, GrowsTo(R, R2), NEW lo, NEW hi, Known(R, lo, hi)
  PROVE  Known(R2, lo, hi)
  BY DEF GrowsTo, Known

LEMMA KnownBetween ==
  ASSUME NEW C, NEW R, RowsOk(C, R), NEW lo, NEW hi, Known(R, lo, hi), NEW i \in lo..hi
  PROVE  i * PerHour \in Nat /\ Floor(i * PerHour) = i * PerHour /\ Between(R, i * PerHour)
  <1>1. i \in Int /\ lo \in Int /\ hi \in Int /\ lo <= i /\ i <= hi
    BY DEF Known
  <1>2. /\ lo * PerHour <= i * PerHour /\ i * PerHour <= hi * PerHour
        /\ i * PerHour \in Int /\ Floor(i * PerHour) = i * PerHour
        /\ lo * PerHour \in Int /\ hi * PerHour \in Int
    BY <1>1, IndexOrder, HourIndex
  <1>3. PICK g \in DOMAIN R : g <= lo * PerHour
    BY DEF Known
  <1>4. PICK k \in DOMAIN R : hi * PerHour <= k
    BY DEF Known
  <1>5. g \in Nat /\ k \in Nat
    BY DEF RowsOk, Counts
  <1>6. g <= i * PerHour /\ i * PerHour <= k
    BY <1>2, <1>3, <1>4, <1>5
  <1> QED
    BY <1>2, <1>5, <1>6 DEF Between

\* Rows that tell the same buckets tell the same series.
LEMMA SeriesKept ==
  ASSUME NEW C, NEW D, NEW R, NEW R2, RowsOk(C, R), GrowsTo(R, R2), RowsOk(D, R2),
         CalmRows(C, R), CalmRows(D, R2), NEW lo, NEW hi, Known(R, lo, hi),
         \A h \in Nat : Floor(h) = h /\ Between(R, h) => BucketOf(D, h) = BucketOf(C, h)
  PROVE  SeriesOf(R2, lo, hi) = SeriesOf(R, lo, hi)
  <1>1. ASSUME NEW i \in lo..hi
        PROVE  BucketAt(R2, i * PerHour) = BucketAt(R, i * PerHour)
    <2> DEFINE h == i * PerHour
    <2>1. h \in Nat /\ Floor(h) = h /\ Between(R, h)
      BY KnownBetween
    <2> HIDE DEF h
    <2>2. Between(R2, h)
      BY <2>1 DEF Between, GrowsTo
    <2>3. BucketAt(R, h) = BucketOf(C, h) /\ BucketAt(R2, h) = BucketOf(D, h)
      BY <2>1, <2>2 DEF CalmRows
    <2>4. BucketAt(R2, h) = BucketAt(R, h)
      BY <2>1, <2>3
    <2> QED
      BY <2>4 DEF h
  <1> QED
    BY <1>1 DEF SeriesOf

LEMMA CalmStays == \A C, R : CalmTo(C, R, C, R)
  BY DEF CalmTo, GrowsTo

LEMMA ArriveCalmTo ==
  ASSUME NEW s, NEW C, CyclesOk(s, C), HasNewest(C), NEW c \in s.cycles, OnTime(C, c),
         NEW R, RowsOk(C, R), CalmRows(C, R)
  PROVE  CalmTo(C, R, C \cup {c}, R)
  <1>1. \A g : FirstIs(C, R, g) => FirstIs(C \cup {c}, R, g)
    BY RowsArriveCalm
  <1> QED
    BY <1>1 DEF CalmTo, GrowsTo

LEMMA CommitCalmTo ==
  ASSUME NEW s, NEW C, CyclesOk(s, C), HasNewest(C), NEW R, RowsOk(C, R),
         CalmRows(C, R), CalmFirst(C, R),
         NEW lo, NEW hi, NEW got, FillRanges(C, R, lo, hi, hi, got), CalmFill(C, R, lo, hi, got)
  PROVE  CalmTo(C, R, C, Upsert(R, got))
  <1> DEFINE R2 == Upsert(R, got)
  <1>1. RowsOk(C, R2) /\ GrowsTo(R, R2)
    BY CommitRows DEF GrowsTo
  <1>2. CalmRows(C, R2) /\ \A g : FirstIs(C, R, g) => FirstIs(C, R2, g)
    BY CommitCalm
  <1> HIDE DEF R2
  <1>3. \A h \in Nat : Floor(h) = h /\ Between(R, h) => BucketOf(C, h) = BucketOf(C, h)
    OBVIOUS
  <1>4. \A i, j : Known(R, i, j) => SeriesOf(R2, i, j) = SeriesOf(R, i, j)
    BY <1>1, <1>2, <1>3, SeriesKept
  <1>5. CalmTo(C, R, C, R2)
    BY <1>1, <1>2, <1>4 DEF CalmTo
  <1> QED
    BY <1>5 DEF R2

-----------------------------------------------------------------------------
(* Cycles, rows and fill in every state                                       *)

CoreInv ==
  /\ CyclesOk(scope, cycles) /\ HasNewest(cycles) /\ late \in BOOLEAN
  /\ RowsOk(cycles, rows) /\ FillOk(cycles, rows, fill)
\* Without late cycles.
CalmInv ==
  /\ CalmRows(cycles, rows) /\ CalmFirst(cycles, rows)
  /\ fill # Idle => CalmFill(cycles, rows, fill.lo, fill.next, fill.got)
LateStep ==
  late' = (late \/ \E c \in cycles' \ cycles : Late(c) /\ (rows # <<>> \/ fill # Idle))

LEMMA FillMissed ==
  ASSUME NEW f, IsFill(f), NEW X
  PROVE  LET g == [f EXCEPT !.missed = X]
         IN IsFill(g) /\ g.lo = f.lo /\ g.hi = f.hi /\ g.next = f.next /\ g.got = f.got
  BY DEF IsFill

LEMMA FillTakes ==
  ASSUME NEW f, IsFill(f), NEW n, NEW G
  PROVE  LET g == [f EXCEPT !.next = n, !.got = G]
         IN IsFill(g) /\ g.lo = f.lo /\ g.hi = f.hi /\ g.next = n /\ g.got = G
  BY DEF IsFill

LEMMA LimitBy == Limit = LimitOf(cycles) /\ Floor(Max(Instants)) = LimitOf(cycles)
  BY DEF Limit, LimitOf, Instants

LEMMA ArriveCore ==
  ASSUME CoreInv, NEW c \in scope.cycles \ cycles, Arrive(c), LateStep
  PROVE  CoreInv' /\ GrowsTo(rows, rows')
         /\ (CalmInv /\ ~late' => CalmInv' /\ CalmTo(cycles, rows, cycles', rows'))
         /\ (~late' => ~late)
  <1>1. /\ cycles' = cycles \cup {c} /\ scope' = scope /\ rows' = rows
        /\ c \in scope.cycles /\ c \notin cycles
    BY DEF Arrive
  <1>2. CyclesOk(scope, cycles) /\ HasNewest(cycles) /\ RowsOk(cycles, rows)
        /\ FillOk(cycles, rows, fill)
    BY DEF CoreInv
  <1>3. fill # Idle => /\ IsFill(fill') /\ fill'.lo = fill.lo /\ fill'.hi = fill.hi
                       /\ fill'.next = fill.next /\ fill'.got = fill.got
                       /\ IsFill(fill) /\ FillRanges(cycles, rows, fill.lo, fill.hi, fill.next, fill.got)
    <2> SUFFICES ASSUME fill # Idle
                 PROVE  /\ IsFill(fill') /\ fill'.lo = fill.lo /\ fill'.hi = fill.hi
                        /\ fill'.next = fill.next /\ fill'.got = fill.got
                        /\ IsFill(fill)
                        /\ FillRanges(cycles, rows, fill.lo, fill.hi, fill.next, fill.got)
      OBVIOUS
    <2>1. IsFill(fill) /\ FillRanges(cycles, rows, fill.lo, fill.hi, fill.next, fill.got)
      BY <1>2 DEF FillOk
    <2>2. fill' = fill \/ \E X : fill' = [fill EXCEPT !.missed = X]
      BY DEF Arrive
    <2>3. CASE fill' = fill
      BY <2>1, <2>3
    <2>4. CASE \E X : fill' = [fill EXCEPT !.missed = X]
      <3>1. PICK X : fill' = [fill EXCEPT !.missed = X]
        BY <2>4
      <3> QED
        BY <2>1, <3>1, FillMissed
    <2> QED
      BY <2>2, <2>3, <2>4
  <1>4. fill = Idle => fill' = Idle
    BY DEF Arrive
  <1>5. CyclesOk(scope, cycles') /\ HasNewest(cycles') /\ RowsOk(cycles', rows)
    BY <1>1, <1>2, CycleComes, RowsArrive
  <1>6. FillOk(cycles', rows, fill')
    <2>1. CASE fill = Idle
      BY <1>4, <2>1 DEF FillOk
    <2>2. CASE fill # Idle
      <3>1. FillRanges(cycles', rows, fill.lo, fill.hi, fill.next, fill.got)
        BY <1>1, <1>2, <1>3, <2>2, FillArrive
      <3> QED
        BY <1>3, <2>2, <3>1 DEF FillOk
    <2> QED
      BY <2>1, <2>2
  <1>7. late' \in BOOLEAN
    BY DEF LateStep
  <1>8. CoreInv'
    BY <1>1, <1>5, <1>6, <1>7 DEF CoreInv
  <1>9. ASSUME ~late'
        PROVE  ~late /\ ((rows = <<>> /\ fill = Idle) \/ ~Late(c))
    BY <1>1, <1>9 DEF LateStep
  <1>10. ASSUME CalmInv, ~late'
         PROVE  CalmInv' /\ CalmTo(cycles, rows, cycles', rows')
    <2>1. CASE DOMAIN rows = {} /\ fill = Idle
      <3>1. CalmRows(cycles', rows) /\ CalmFirst(cycles', rows)
        BY <2>1 DEF CalmRows, CalmFirst, Between
      <3>2. CalmInv'
        BY <1>1, <1>4, <2>1, <3>1 DEF CalmInv
      <3>3. CalmTo(cycles, rows, cycles', rows)
        BY <2>1 DEF CalmTo, GrowsTo, FirstIs
      <3> QED
        BY <1>1, <3>2, <3>3
    <2>2. CASE ~(DOMAIN rows = {} /\ fill = Idle)
      <3>1. cycles # {}
        <4>1. CASE DOMAIN rows # {}
          BY <1>2, <4>1, HasCycles
        <4>2. CASE fill # Idle
          BY <1>3, <4>2 DEF FillRanges
        <4> QED
          BY <2>2, <4>1, <4>2
      <3>2. OnTime(cycles, c)
        <4>1. rows # <<>> \/ fill # Idle
          <5>1. DOMAIN rows # {} => rows # <<>>
            <6>1. DOMAIN <<>> = {}
              OBVIOUS
            <6> QED
              BY <6>1
          <5> QED
            BY <2>2, <5>1
        <4>2. ~(Floor(c.ts) < LimitOf(cycles))
          BY <1>9, <1>10, <3>1, <4>1, LimitBy DEF Late
        <4> QED
          BY <1>2, <3>1, <4>2, LimitInt DEF OnTime
      <3>3. CalmRows(cycles', rows) /\ \A g : FirstIs(cycles, rows, g) => FirstIs(cycles', rows, g)
        BY <1>1, <1>2, <1>10, <3>2, RowsArriveCalm DEF CalmInv
      <3>4. CalmFirst(cycles', rows)
        BY <1>10, <3>3 DEF CalmInv, CalmFirst
      <3>5. fill # Idle => CalmFill(cycles', rows, fill.lo, fill.next, fill.got)
        BY <1>1, <1>2, <1>3, <1>10, <3>2, FillArriveCalm DEF CalmInv
      <3>6. CalmInv'
        BY <1>1, <1>3, <1>4, <3>3, <3>4, <3>5 DEF CalmInv
      <3>7. CalmTo(cycles, rows, cycles', rows)
        BY <1>1, <1>2, <1>10, <3>2, ArriveCalmTo DEF CalmInv
      <3> QED
        BY <1>1, <3>6, <3>7
    <2> QED
      BY <2>1, <2>2
  <1> QED
    BY <1>1, <1>8, <1>9, <1>10 DEF GrowsTo

LEMMA FillCore ==
  ASSUME CoreInv, LateStep,
         \/ \E since_last \in BOOLEAN : FillBegin(since_last)
         \/ FillPiece \/ FillCommit \/ FillAbort
  PROVE  CoreInv' /\ GrowsTo(rows, rows')
         /\ (CalmInv /\ ~late' => CalmInv' /\ CalmTo(cycles, rows, cycles', rows'))
         /\ (~late' => ~late)
  <1>1. CyclesOk(scope, cycles) /\ HasNewest(cycles) /\ RowsOk(cycles, rows)
        /\ FillOk(cycles, rows, fill) /\ late \in BOOLEAN
    BY DEF CoreInv
  <1>2. cycles' = cycles /\ scope' = scope
    BY DEF FillBegin, FillPiece, FillCommit, FillAbort
  <1>3. late' = late
    <2>1. cycles' \ cycles = {}
      BY <1>2
    <2>2. late' = (late \/ FALSE)
      BY <2>1 DEF LateStep
    <2> QED
      BY <1>1, <2>2
  <1> SUFFICES /\ RowsOk(cycles, rows') /\ FillOk(cycles, rows', fill')
               /\ GrowsTo(rows, rows')
               /\ CalmInv => CalmInv' /\ CalmTo(cycles, rows, cycles, rows')
    BY <1>1, <1>2, <1>3 DEF CoreInv
  <1>4. GrowsTo(rows, rows) /\ CalmTo(cycles, rows, cycles, rows)
    BY CalmStays DEF GrowsTo
  <1>5. ASSUME NEW since_last \in BOOLEAN, FillBegin(since_last)
        PROVE  /\ RowsOk(cycles, rows') /\ FillOk(cycles, rows', fill')
               /\ GrowsTo(rows, rows')
               /\ CalmInv => CalmInv' /\ CalmTo(cycles, rows, cycles, rows')
    <2> DEFINE lo == FillStart(cycles, rows, since_last)
    <2>1. rows' = rows /\ fill = Idle /\ cycles # {}
      BY <1>5 DEF FillBegin
    <2>2. fill' = fill \/ /\ lo < LimitOf(cycles)
                          /\ fill' = [lo |-> lo, hi |-> LimitOf(cycles), next |-> lo,
                                      got |-> <<>>, missed |-> {}]
      BY <1>5, LimitBy DEF FillBegin, FillStart, Instants
    <2>3. CASE fill' = fill
      BY <1>1, <1>2, <1>4, <2>1, <2>3 DEF CalmInv, FillOk
    <2>4. CASE /\ lo < LimitOf(cycles)
               /\ fill' = [lo |-> lo, hi |-> LimitOf(cycles), next |-> lo,
                           got |-> <<>>, missed |-> {}]
      <3>1. FillRanges(cycles, rows, lo, LimitOf(cycles), lo, <<>>)
        BY <1>1, <2>1, <2>4, BeginRanges
      <3>2. CalmFill(cycles, rows, lo, lo, <<>>)
        BY <1>1, <2>1, BeginCalm
      <3> HIDE DEF lo
      <3>3. /\ IsFill(fill') /\ fill'.lo = lo /\ fill'.hi = LimitOf(cycles)
            /\ fill'.next = lo /\ fill'.got = <<>>
        BY <2>4 DEF IsFill
      <3>4. FillOk(cycles, rows, fill')
        BY <3>1, <3>3 DEF FillOk
      <3>5. CalmInv => CalmInv'
        BY <1>2, <2>1, <3>2, <3>3 DEF CalmInv
      <3> QED
        BY <1>1, <1>4, <2>1, <3>4, <3>5
    <2> QED
      BY <2>2, <2>3, <2>4
  <1>6. ASSUME FillPiece
        PROVE  /\ RowsOk(cycles, rows') /\ FillOk(cycles, rows', fill')
               /\ GrowsTo(rows, rows')
               /\ CalmInv => CalmInv' /\ CalmTo(cycles, rows, cycles, rows')
    <2>1. rows' = rows /\ fill # Idle /\ fill.next < fill.hi
      BY <1>6 DEF FillPiece
    <2>2. IsFill(fill) /\ FillRanges(cycles, rows, fill.lo, fill.hi, fill.next, fill.got)
      BY <1>1, <2>1 DEF FillOk
    <2> DEFINE G == GotMore(cycles, fill.next, fill.got)
               n == fill.next + PerHour
    <2>3. fill' = [fill EXCEPT !.next = n, !.got = G]
      <3>1. \A h : Bucket(h) = BucketOf(cycles, h)
        BY BucketIs
      <3> QED
        BY <1>6, <2>2, <3>1 DEF FillPiece, GotMore, IsFill
    <2>5. FillRanges(cycles, rows, fill.lo, fill.hi, n, G)
      BY <1>1, <2>1, <2>2, PieceRanges
    <2>6. CalmInv => CalmFill(cycles, rows, fill.lo, n, G)
      BY <1>1, <2>1, <2>2, PieceCalm DEF CalmInv
    <2> HIDE DEF G, n
    <2>4. /\ IsFill(fill') /\ fill'.lo = fill.lo /\ fill'.hi = fill.hi
          /\ fill'.next = n /\ fill'.got = G
      BY <2>2, <2>3, FillTakes DEF IsFill
    <2>7. FillOk(cycles, rows, fill')
      BY <2>4, <2>5 DEF FillOk
    <2>8. CalmInv => CalmInv'
      BY <1>2, <2>1, <2>4, <2>6 DEF CalmInv
    <2> QED
      BY <1>1, <1>4, <2>1, <2>7, <2>8
  <1>7. ASSUME FillCommit
        PROVE  /\ RowsOk(cycles, rows') /\ FillOk(cycles, rows', fill')
               /\ GrowsTo(rows, rows')
               /\ CalmInv => CalmInv' /\ CalmTo(cycles, rows, cycles, rows')
    <2>1. rows' = Upsert(rows, fill.got) /\ fill # Idle /\ fill.next = fill.hi /\ fill' = Idle
      BY <1>7 DEF FillCommit
    <2>2. FillRanges(cycles, rows, fill.lo, fill.hi, fill.hi, fill.got)
      BY <1>1, <2>1 DEF FillOk
    <2>3. RowsOk(cycles, rows') /\ GrowsTo(rows, rows')
      BY <1>1, <2>1, <2>2, CommitRows DEF GrowsTo
    <2>4. ASSUME CalmInv
          PROVE  /\ CalmRows(cycles, rows') /\ CalmFirst(cycles, rows')
                 /\ CalmTo(cycles, rows, cycles, rows')
      <3>1. CalmFill(cycles, rows, fill.lo, fill.hi, fill.got)
            /\ CalmRows(cycles, rows) /\ CalmFirst(cycles, rows)
        BY <2>1, <2>4 DEF CalmInv
      <3>2. CalmRows(cycles, rows') /\ CalmFirst(cycles, rows')
        BY <1>1, <2>1, <2>2, <3>1, CommitCalm
      <3>3. CalmTo(cycles, rows, cycles, rows')
        BY <1>1, <2>1, <2>2, <3>1, CommitCalmTo
      <3> QED
        BY <3>2, <3>3
    <2> QED
      BY <1>2, <2>1, <2>3, <2>4 DEF CalmInv, FillOk
  <1>8. ASSUME FillAbort
        PROVE  /\ RowsOk(cycles, rows') /\ FillOk(cycles, rows', fill')
               /\ GrowsTo(rows, rows')
               /\ CalmInv => CalmInv' /\ CalmTo(cycles, rows, cycles, rows')
    <2>1. rows' = rows /\ fill' = Idle
      BY <1>8 DEF FillAbort
    <2> QED
      BY <1>1, <1>2, <1>4, <2>1 DEF CalmInv, FillOk
  <1> QED
    BY <1>5, <1>6, <1>7, <1>8
LEMMA RollupOthers ==
  ASSUME \/ \E at \in scope.ats : AskOee(at) \/ AskSeries(at)
         \/ LookUp \/ PlanSeries \/ ReadCoverage \/ ReadExtent \/ ReadBuckets
         \/ ReadEdges \/ ReadHours \/ ReadAgain
         \/ \E w \in (IF req = Idle THEN {} ELSE req.wins) : CountWindow(w)
         \/ AnswerOee
  PROVE  UNCHANGED <<scope, cycles, rows, fill>>
  <1>1. ASSUME \E at \in scope.ats : AskOee(at) \/ AskSeries(at)
        PROVE  UNCHANGED <<scope, cycles, rows, fill>>
    BY <1>1 DEF AskOee, AskSeries, Request
  <1>2. ASSUME LookUp
        PROVE  UNCHANGED <<scope, cycles, rows, fill>>
    BY <1>2 DEF LookUp
  <1>3. ASSUME \/ PlanSeries \/ ReadCoverage \/ ReadExtent \/ ReadBuckets
               \/ ReadEdges \/ ReadHours \/ ReadAgain
        PROVE  UNCHANGED <<scope, cycles, rows, fill>>
    <2>1. \E pc : At(pc)
      BY <1>3 DEF PlanSeries, ReadCoverage, ReadExtent, ReadBuckets, ReadEdges, ReadHours, ReadAgain
    <2> QED
      BY <2>1 DEF At
  <1>4. ASSUME \E w \in (IF req = Idle THEN {} ELSE req.wins) : CountWindow(w)
        PROVE  UNCHANGED <<scope, cycles, rows, fill>>
    BY <1>4 DEF CountWindow, At
  <1>5. ASSUME AnswerOee
        PROVE  UNCHANGED <<scope, cycles, rows, fill>>
    BY <1>5 DEF AnswerOee
  <1> QED
    BY <1>1, <1>2, <1>3, <1>4, <1>5

LEMMA CoreSame ==
  ASSUME CoreInv, UNCHANGED <<scope, cycles, rows, fill>>, late' = late
  PROVE  CoreInv' /\ GrowsTo(rows, rows')
         /\ (CalmInv /\ ~late' => CalmInv' /\ CalmTo(cycles, rows, cycles', rows'))
         /\ (~late' => ~late)
  <1>1. scope' = scope /\ cycles' = cycles /\ rows' = rows /\ fill' = fill /\ late' = late
    OBVIOUS
  <1>2. CoreInv'
    BY <1>1 DEF CoreInv
  <1>3. CalmInv => CalmInv'
    BY <1>1 DEF CalmInv
  <1>4. GrowsTo(rows, rows') /\ CalmTo(cycles, rows, cycles', rows')
    BY <1>1, CalmStays DEF GrowsTo
  <1>5. ~late' => ~late
    BY <1>1
  <1> QED
    BY <1>2, <1>3, <1>4, <1>5

LEMMA RollupCore ==
  ASSUME CoreInv, RollupStep
  PROVE  CoreInv' /\ GrowsTo(rows, rows')
         /\ (CalmInv /\ ~late' => CalmInv' /\ CalmTo(cycles, rows, cycles', rows'))
         /\ (~late' => ~late)
  <1>1. RollupNext /\ LateStep
    BY DEF RollupStep, LateStep
  <1>2. ASSUME NEW c \in scope.cycles \ cycles, Arrive(c)
        PROVE  CoreInv' /\ GrowsTo(rows, rows')
               /\ (CalmInv /\ ~late' => CalmInv' /\ CalmTo(cycles, rows, cycles', rows'))
               /\ (~late' => ~late)
    BY <1>1, <1>2, ArriveCore
  <1>3. ASSUME \/ \E since_last \in BOOLEAN : FillBegin(since_last)
               \/ FillPiece \/ FillCommit \/ FillAbort
        PROVE  CoreInv' /\ GrowsTo(rows, rows')
               /\ (CalmInv /\ ~late' => CalmInv' /\ CalmTo(cycles, rows, cycles', rows'))
               /\ (~late' => ~late)
    BY <1>1, <1>3, FillCore
  <1>4. ASSUME UNCHANGED <<scope, cycles, rows, fill>>
        PROVE  CoreInv' /\ GrowsTo(rows, rows')
               /\ (CalmInv /\ ~late' => CalmInv' /\ CalmTo(cycles, rows, cycles', rows'))
               /\ (~late' => ~late)
    <2>1. late' = late
      <3>1. late \in BOOLEAN /\ cycles' \ cycles = {}
        BY <1>4 DEF CoreInv
      <3>2. late' = (late \/ FALSE)
        BY <1>1, <3>1 DEF LateStep
      <3> QED
        BY <3>1, <3>2
    <2> QED
      BY <1>4, <2>1, CoreSame
  <1> QED
    BY <1>1, <1>2, <1>3, <1>4, RollupOthers DEF RollupNext

\* The rest of the API leaves the tables and the verdict routes alone.
coreVars ==
  <<scope, cycles, rows, fill, req, memo, behind, answers, price, table, maker, ask, late, body>>

LEMMA ReadingOthers ==
  ASSUME ReadingNext
  PROVE  UNCHANGED coreVars
  <1>1. ASSUME NEW kind, NEW pc, Ask(kind, pc)
        PROVE  UNCHANGED coreVars
    BY <1>1 DEF Ask, coreVars, verdictVars
  <1>2. ASSUME NEW pc, NEW kinds, Viewing(pc, kinds)
        PROVE  UNCHANGED coreVars
    BY <1>2 DEF Viewing, coreVars, vars, rollupVars, verdictVars
  <1>3. ASSUME AskQuality \/ AskProfile \/ AskProgression \/ AskBaseline
        PROVE  UNCHANGED coreVars
    BY <1>1, <1>3 DEF AskQuality, AskProfile, AskProgression, AskBaseline
  <1>4. ASSUME FetchCover \/ FetchPrior \/ FetchLast \/ FetchProfileBase \/ StartDeviations
        PROVE  UNCHANGED coreVars
    BY <1>2, <1>4 DEF FetchCover, FetchPrior, FetchLast, FetchProfileBase, StartDeviations
  <1>5. ASSUME NEW from, NEW kind, FetchPiece(from, kind)
        PROVE  UNCHANGED coreVars
    BY <1>2, <1>5 DEF FetchPiece
  <1>6. ASSUME \/ FetchQualityBuckets \/ FetchQualityTail \/ FetchProfileHours
               \/ FetchProfileEdge \/ FetchMeans \/ FetchDeviations \/ FetchBaseline
        PROVE  UNCHANGED coreVars
    BY <1>5, <1>6 DEF FetchQualityBuckets, FetchQualityTail, FetchProfileHours,
                      FetchProfileEdge, FetchMeans, FetchDeviations, FetchBaseline
  <1>7. ASSUME \/ FetchMemory \/ FetchBaselineWindow \/ FetchBaselineCache
               \/ FetchBaselineSpread \/ Answer
        PROVE  UNCHANGED coreVars
    BY <1>2, <1>7 DEF FetchMemory, FetchBaselineWindow, FetchBaselineCache,
                      FetchBaselineSpread, Answer
  <1> QED
    BY <1>3, <1>4, <1>6, <1>7 DEF ReadingNext

-----------------------------------------------------------------------------
(* The walk over a series, as it is served                                    *)

LEMMA BeforeIs == Before \in Nat /\ Before > 0
  BY DecisionAssumption

LEMMA WalkHours ==
  ASSUME NEW lo \in Int, NEW hi \in Int, lo <= hi, NEW s, DOMAIN s = lo..hi,
         NEW now \in Int, now <= hi, NEW p
  PROVE  DOMAIN Walk(s, p, now) = (lo + Before)..now
  <1>1. Least(hi, now) = now
    BY DEF Least
  <1>2. Walks(Walk(s, p, now), s, p, lo + Before, Least(hi, now))
    BY WalkOfSeries
  <1> QED
    BY <1>1, <1>2 DEF Walks

LEMMA WalkFunction ==
  ASSUME NEW s, NEW p, NEW now
  PROVE  [h \in DOMAIN Walk(s, p, now) |-> Walk(s, p, now)[h]] = Walk(s, p, now)
  <1> DEFINE hours == Grid(s, now)
             w == CHOOSE f : f = [h \in hours |->
                       Step(IF h - 1 \in hours THEN f[h - 1] ELSE NewValve, h,
                            Judge(s, p, h), Useful(s, h))]
  <1>1. Walk(s, p, now) = [h \in hours |-> w[h]]
    BY DEF Walk, WalkOver
  <1> HIDE DEF hours, w
  <1> QED
    BY <1>1

LEMMA BodySame ==
  ASSUME NEW lo \in Int, NEW hi \in Int, lo <= hi, NEW s, DOMAIN s = lo..hi,
         NEW p, NEW at \in (lo + Before)..hi
  PROVE  Body(Walk(s, p, hi), at) = Body(Walk(s, p, at), at)
  <1> DEFINE W == Walk(s, p, hi)
             X == Walk(s, p, at)
             H(w) == {k \in DOMAIN w : at - Span < k /\ k <= at}
  <1>1. at \in Int /\ lo <= at /\ at <= hi /\ lo + Before <= at /\ Span \in Nat
    BY BeforeIs, DecisionAssumption
  <1>2. DOMAIN W = (lo + Before)..hi /\ DOMAIN X = (lo + Before)..at
    BY <1>1, WalkHours
  <1>3. \A g \in (lo + Before)..at : W[g] = X[g]
    BY <1>1, WalkSeen
  <1> HIDE DEF W, X
  <1>4. H(W) = H(X) /\ H(X) \subseteq (lo + Before)..at /\ at \in (lo + Before)..at
    BY <1>1, <1>2, BeforeIs
  <1>5. W[at] = X[at] /\ \A g \in H(X) : W[g] = X[g]
    BY <1>3, <1>4
  <1>6. [g \in H(W) |-> [shown |-> W[g].shown, works |-> W[g].works]]
          = [g \in H(X) |-> [shown |-> X[g].shown, works |-> X[g].works]]
    BY <1>4, <1>5
  <1>7. Body(W, at) = Body(X, at)
    BY <1>5, <1>6 DEF Body
  <1> QED
    BY <1>7 DEF W, X

RowsOfTable(T) == [h \in DOMAIN T |-> T[h].row]

LEMMA PrintedRows ==
  ASSUME NEW s, NEW p, NEW now
  PROVE  RowsOfTable(Printed(Walk(s, p, now), p)) = Walk(s, p, now)
  <1> DEFINE W == Walk(s, p, now)
  <1>1. [h \in DOMAIN W |-> W[h]] = W
    BY WalkFunction
  <1> HIDE DEF W
  <1>2. RowsOfTable(Printed(W, p)) = [h \in DOMAIN W |-> W[h]]
    BY DEF RowsOfTable, Printed
  <1> QED
    BY <1>1, <1>2 DEF W

LEMMA GradedHours ==
  ASSUME NEW s, NEW p
  PROVE  DOMAIN Graded(s, p) = DOMAIN s
  BY DEF Graded, Grade

LEMMA ServedIs ==
  ASSUME NEW lo \in Int, NEW hi \in Int, lo <= hi, NEW s, DOMAIN s = lo..hi, NEW p,
         NEW at, at # TheLine => at \in (lo + Before)..hi
  PROVE  Computed(s, p, at, hi) = IF at = TheLine THEN Line(Walk(Graded(s, p), p, hi))
                                                  ELSE Body(Walk(Graded(s, p), p, hi), at)
  <1> DEFINE g == Graded(s, p)
  <1>1. DOMAIN g = lo..hi
    BY GradedHours
  <1>2. Computed(s, p, at, hi) = CASE at = TheLine -> Line(Walk(g, p, hi))
                                   [] at # TheLine /\ at \in Grid(g, at) -> Body(Walk(g, p, at), at)
                                   [] at # TheLine /\ at \notin Grid(g, at) -> NoData
    BY DEF Computed
  <1> HIDE DEF g
  <1>3. CASE at = TheLine
    BY <1>2, <1>3 DEF g
  <1>4. CASE at # TheLine
    <2>1. at \in (lo + Before)..hi /\ at \in Int
      BY <1>4, BeforeIs
    <2>2. Grid(g, at) = (lo + Before)..Least(hi, at)
      BY <1>1, <2>1, GridIs
    <2>3. at \in Grid(g, at)
      BY <2>1, <2>2, BeforeIs DEF Least
    <2>4. Computed(s, p, at, hi) = Body(Walk(g, p, at), at)
      BY <1>2, <1>4, <2>3
    <2>5. Body(Walk(g, p, hi), at) = Body(Walk(g, p, at), at)
      BY <1>1, <2>1, BodySame
    <2> QED
      BY <1>4, <2>4, <2>5 DEF g
  <1> QED
    BY <1>3, <1>4

-----------------------------------------------------------------------------
(* What the rows cover                                                        *)

CoveredOf(R) == {h \div PerHour : h \in DOMAIN R}

LEMMA CoveredIs ==
  ASSUME NEW s, NEW C, CyclesOk(s, C), HasNewest(C), NEW R, RowsOk(C, R), CoveredOf(R) # {}
  PROVE  LET lo == Min(CoveredOf(R))
             hi == Max(CoveredOf(R))
         IN /\ Known(R, lo, hi)
            /\ \A i, j : Known(R, i, j) => lo <= i /\ j <= hi
            /\ lo * PerHour = Min(DOMAIN R)
  <1> DEFINE a == Min(DOMAIN R)
             b == Max(DOMAIN R)
             x == a \div PerHour
             y == b \div PerHour
             S == CoveredOf(R)
  <1>1. DOMAIN R # {}
    BY DEF CoveredOf
  <1>2. /\ a \in DOMAIN R /\ (\A h \in DOMAIN R : a <= h)
        /\ b \in DOMAIN R /\ (\A h \in DOMAIN R : h <= b)
    BY <1>1, RowsMax
  <1> HIDE DEF a, b
  <1>3. \A h \in DOMAIN R : h \in Nat /\ Floor(h) = h
    BY DEF RowsOk, Counts
  <1>4. ASSUME NEW h \in DOMAIN R
        PROVE  h \div PerHour \in Int /\ h = (h \div PerHour) * PerHour
    BY <1>3, FloorBounds
  <1>5. x \in Int /\ y \in Int /\ a = x * PerHour /\ b = y * PerHour
    BY <1>2, <1>4
  <1> HIDE DEF x, y
  <1>6. ASSUME NEW h \in DOMAIN R
        PROVE  x <= h \div PerHour /\ h \div PerHour <= y
    <2> DEFINE i == h \div PerHour
    <2>1. i \in Int /\ h = i * PerHour
      BY <1>4
    <2> HIDE DEF i
    <2>2. x * PerHour <= i * PerHour /\ i * PerHour <= y * PerHour
      BY <1>2, <1>5, <2>1
    <2>3. x <= i /\ i <= y
      BY <1>5, <2>1, <2>2, IndexOrder
    <2> QED
      BY <2>3 DEF i
  <1>7. /\ S \in SUBSET Int /\ x \in S /\ y \in S /\ \A i \in S : x <= i /\ i <= y
    <2>1. x \in S /\ y \in S
      BY <1>2 DEF CoveredOf, x, y
    <2>2. \A i \in S : i \in Int /\ x <= i /\ i <= y
      BY <1>4, <1>6 DEF CoveredOf
    <2> QED
      BY <2>1, <2>2
  <1> HIDE DEF S
  <1>8. Min(S) = x /\ Max(S) = y
    BY <1>7, MinOf, MaxOf
  <1>9. Known(R, x, y)
    <2>1. x <= y
      BY <1>7
    <2>2. a <= x * PerHour /\ y * PerHour <= b
      BY <1>2, <1>3, <1>5
    <2> QED
      BY <1>2, <1>5, <2>1, <2>2 DEF Known
  <1>10. ASSUME NEW i, NEW j, Known(R, i, j)
         PROVE  x <= i /\ j <= y
    <2>1. i \in Int /\ j \in Int
      BY <1>10 DEF Known
    <2>2. PICK g \in DOMAIN R : g <= i * PerHour
      BY <1>10 DEF Known
    <2>3. PICK k \in DOMAIN R : j * PerHour <= k
      BY <1>10 DEF Known
    <2>4. i * PerHour \in Int /\ j * PerHour \in Int
      BY <2>1, HourIndex
    <2>5. x * PerHour <= i * PerHour /\ j * PerHour <= y * PerHour
      BY <1>2, <1>3, <1>5, <2>2, <2>3, <2>4
    <2> QED
      BY <1>5, <2>1, <2>5, IndexOrder
  <1>11. x * PerHour = Min(DOMAIN R)
    BY <1>5 DEF a
  <1> QED
    BY <1>8, <1>9, <1>10, <1>11 DEF S

-----------------------------------------------------------------------------
(* The table, the filling of it, and the request                              *)

GridOf(lo, hi) == (lo + Before)..hi
OnePrice(T, p) == \A h \in DOMAIN T : T[h].print = p
\* The verdicts of the hours lo..hi under the policy p.
Verdicts(R, lo, hi, p) == Printed(Walk(Graded(SeriesOf(R, lo, hi), p), p, hi), p)

\* The table has the hours of one grid, under one policy, q or a former one.
TableIs(R, T, q, lo, hi, p) ==
  /\ Known(R, lo, hi) /\ lo + Before <= hi /\ DOMAIN T = GridOf(lo, hi)
  /\ p \in Prices /\ p <= q /\ OnePrice(T, p)
TableOk(R, T, q) == T # <<>> => \E lo, hi, p : TableIs(R, T, q, lo, hi, p)

IsMaker(m) == DOMAIN m = {"pc", "lo", "hi", "series", "rows"}
\* What is about to be written replaces all of the table, with no older policy.
Writes(T, q, lo, hi, new) ==
  /\ lo + Before <= hi /\ DOMAIN new = GridOf(lo, hi)
  /\ \E p \in Prices : /\ p <= q /\ OnePrice(new, p)
                       /\ \A h \in DOMAIN T : T[h].print <= p
MakerOk(R, T, q, m) ==
  m # Idle =>
    /\ IsMaker(m) /\ m.pc \in {"series", "window", "write"} /\ Known(R, m.lo, m.hi)
    /\ DOMAIN T \subseteq GridOf(m.lo, m.hi)
    /\ m.pc = "window" => DOMAIN m.series = m.lo..m.hi
    /\ m.pc = "write" => Writes(T, q, m.lo, m.hi, m.rows)

IsAsk(a) ==
  DOMAIN a = {"pc", "at", "lo", "hi", "print", "here", "series", "prices", "torn"}
\* A policy that is not older than the one the request has read was in force during it.
Allowed(T, a) == \A h \in DOMAIN T : T[h].print >= a.print => T[h].print \in a.prices
AskShape(R, q, a) ==
  /\ IsAsk(a) /\ Known(R, a.lo, a.hi) /\ q \in a.prices /\ a.torn \in BOOLEAN
AskPrints(T, m, q, a) ==
  a.pc # "window" =>
    /\ a.print \in Nat /\ a.print <= q /\ Allowed(T, a)
    /\ m # Idle /\ m.pc = "write" => Allowed(m.rows, a)
Here(T, at) == IF at = TheLine THEN Line(RowsOfTable(T)).acts ELSE Body(RowsOfTable(T), at).here
\* What the tests of freshness have established.
Passed(T, a) ==
  /\ a.pc \in {"prints", "inside", "rows", "story"} => \E h \in DOMAIN T : a.hi <= h
  /\ a.pc \in {"inside", "rows", "story"} => \A h \in DOMAIN T : T[h].print >= a.print
  /\ a.pc \in {"rows", "story"} /\ a.at # TheLine => a.at \in DOMAIN T
  /\ a.pc = "story" /\ a.torn = FALSE => a.here = Here(T, a.at)
AskOk(R, T, m, q, a) == a # Idle => AskShape(R, q, a) /\ AskPrints(T, m, q, a) /\ Passed(T, a)

\* Without late cycles: all begin at the first row and tell what the rows tell now.
Begins(C, R, lo) == FirstIs(C, R, lo * PerHour)
TableCalm(C, R, T) ==
  T # <<>> => \E lo, hi, p : /\ Known(R, lo, hi) /\ Begins(C, R, lo)
                             /\ T = Verdicts(R, lo, hi, p)
MakerCalm(C, R, m) ==
  m # Idle =>
    /\ Begins(C, R, m.lo)
    /\ m.pc = "window" => m.series = SeriesOf(R, m.lo, m.hi)
    /\ m.pc = "write" => \E p : m.rows = Verdicts(R, m.lo, m.hi, p)
AskCalm(C, R, a) ==
  a # Idle => /\ Begins(C, R, a.lo)
              /\ a.pc = "compute" => a.series = SeriesOf(R, a.lo, a.hi)
\* The answer is the one that the rows and a policy of the request give.
Says(R, b, hi, p) == b.says = Computed(SeriesOf(R, b.lo, hi), p, b.at, hi)
BodyCalm(R, b) ==
  b # NoBody /\ ~b.torn =>
    /\ b.hi \in Int
    /\ \E p \in b.prices, hi \in Int : b.hi <= hi /\ Known(R, b.lo, hi) /\ Says(R, b, hi, p)

MakeInv ==
  /\ price \in Prices
  /\ TableOk(rows, table, price) /\ MakerOk(rows, table, price, maker)
VerdictInv == MakeInv /\ AskOk(rows, table, maker, price, ask)
VerdictCalm ==
  /\ TableCalm(cycles, rows, table) /\ MakerCalm(cycles, rows, maker)
  /\ AskCalm(cycles, rows, ask) /\ BodyCalm(rows, body)

\* They last while the rows grow.
LEMMA GrowsVerdict ==
  ASSUME NEW R, NEW R2, GrowsTo(R, R2), NEW T, NEW q, NEW m, NEW a
  PROVE  /\ TableOk(R, T, q) => TableOk(R2, T, q)
         /\ MakerOk(R, T, q, m) => MakerOk(R2, T, q, m)
         /\ AskOk(R, T, m, q, a) => AskOk(R2, T, m, q, a)
  <1>1. \A lo, hi : Known(R, lo, hi) => Known(R2, lo, hi)
    BY KnownGrows
  <1>2. TableOk(R, T, q) => TableOk(R2, T, q)
    BY <1>1 DEF TableOk, TableIs
  <1>3. MakerOk(R, T, q, m) => MakerOk(R2, T, q, m)
    BY <1>1 DEF MakerOk
  <1>4. AskOk(R, T, m, q, a) => AskOk(R2, T, m, q, a)
    BY <1>1 DEF AskOk, AskShape
  <1> QED
    BY <1>2, <1>3, <1>4

LEMMA CalmVerdict ==
  ASSUME NEW C, NEW R, NEW D, NEW R2, CalmTo(C, R, D, R2), NEW T, NEW m, NEW a, NEW b,
         NEW q, MakerOk(R, T, q, m), AskOk(R, T, m, q, a)
  PROVE  /\ TableCalm(C, R, T) => TableCalm(D, R2, T)
         /\ MakerCalm(C, R, m) => MakerCalm(D, R2, m)
         /\ AskCalm(C, R, a) => AskCalm(D, R2, a)
         /\ BodyCalm(R, b) => BodyCalm(R2, b)
  <1>1. \A lo, hi : Known(R, lo, hi) => /\ Known(R2, lo, hi)
                                        /\ SeriesOf(R2, lo, hi) = SeriesOf(R, lo, hi)
    BY KnownGrows DEF CalmTo
  <1>2. \A lo : Begins(C, R, lo) => Begins(D, R2, lo)
    BY DEF CalmTo, Begins
  <1>3. TableCalm(C, R, T) => TableCalm(D, R2, T)
    <2>1. \A lo, hi, p : Known(R, lo, hi) => Verdicts(R2, lo, hi, p) = Verdicts(R, lo, hi, p)
      BY <1>1 DEF Verdicts
    <2> QED
      BY <1>1, <1>2, <2>1 DEF TableCalm
  <1>4. MakerCalm(C, R, m) => MakerCalm(D, R2, m)
    <2> SUFFICES ASSUME m # Idle, MakerCalm(C, R, m)
                 PROVE  MakerCalm(D, R2, m)
      BY DEF MakerCalm
    <2>1. Known(R, m.lo, m.hi)
      BY DEF MakerOk
    <2>2. SeriesOf(R2, m.lo, m.hi) = SeriesOf(R, m.lo, m.hi)
      BY <1>1, <2>1
    <2> QED
      BY <1>2, <2>2 DEF MakerCalm, Verdicts
  <1>5. AskCalm(C, R, a) => AskCalm(D, R2, a)
    <2> SUFFICES ASSUME a # Idle, AskCalm(C, R, a)
                 PROVE  AskCalm(D, R2, a)
      BY DEF AskCalm
    <2>1. Known(R, a.lo, a.hi)
      BY DEF AskOk, AskShape
    <2>2. SeriesOf(R2, a.lo, a.hi) = SeriesOf(R, a.lo, a.hi)
      BY <1>1, <2>1
    <2> QED
      BY <1>2, <2>2 DEF AskCalm
  <1>6. BodyCalm(R, b) => BodyCalm(R2, b)
    <2> SUFFICES ASSUME BodyCalm(R, b), b # NoBody, ~b.torn
                 PROVE  /\ b.hi \in Int
                        /\ \E p \in b.prices, hi \in Int :
                             b.hi <= hi /\ Known(R2, b.lo, hi) /\ Says(R2, b, hi, p)
      BY DEF BodyCalm
    <2>1. b.hi \in Int /\ \E p \in b.prices, hi \in Int :
                            b.hi <= hi /\ Known(R, b.lo, hi) /\ Says(R, b, hi, p)
      BY DEF BodyCalm
    <2>2. PICK p \in b.prices, hi \in Int :
             b.hi <= hi /\ Known(R, b.lo, hi) /\ Says(R, b, hi, p)
      BY <2>1
    <2>3. Known(R2, b.lo, hi) /\ Says(R2, b, hi, p)
      BY <1>1, <2>2 DEF Says
    <2> QED
      BY <2>1, <2>2, <2>3
  <1> QED
    BY <1>3, <1>4, <1>5, <1>6

-----------------------------------------------------------------------------
(* The filling of the table                                                   *)

LEMMA FirstHour ==
  ASSUME CoreInv, CalmInv, CoveredOf(rows) # {}
  PROVE  Begins(cycles, rows, Min(CoveredOf(rows)))
  <1>1. CyclesOk(scope, cycles) /\ HasNewest(cycles) /\ RowsOk(cycles, rows)
    BY DEF CoreInv
  <1>2. DOMAIN rows # {}
    BY DEF CoveredOf
  <1>3. PICK g : FirstIs(cycles, rows, g)
    BY <1>2 DEF CalmInv, CalmFirst
  <1>4. Min(DOMAIN rows) = g
    BY <1>1, <1>3, FirstIsMin
  <1>5. Min(CoveredOf(rows)) * PerHour = Min(DOMAIN rows)
    BY <1>1, CoveredIs
  <1> QED
    BY <1>3, <1>4, <1>5 DEF Begins

\* Two series that begin at the first row begin together.
LEMMA BeginsOnce ==
  ASSUME NEW s, NEW C, CyclesOk(s, C), NEW R, RowsOk(C, R),
         NEW i \in Int, NEW j \in Int, Begins(C, R, i), Begins(C, R, j)
  PROVE  i = j
  <1>1. i * PerHour = j * PerHour
    BY FirstIsMin DEF Begins
  <1> QED
    BY <1>1, IndexOrder

LEMMA BeginMaker ==
  ASSUME CoreInv, VerdictInv, MakeBegin
  PROVE  VerdictInv' /\ (CalmInv /\ VerdictCalm => VerdictCalm')
  <1> DEFINE lo == Min(CoveredOf(rows))
             hi == Max(CoveredOf(rows))
  <1>1. /\ rows' = rows /\ cycles' = cycles /\ price' = price /\ table' = table
        /\ ask' = ask /\ body' = body
        /\ CoveredOf(rows) # {}
        /\ maker' = [pc |-> "series", lo |-> lo, hi |-> hi, series |-> <<>>, rows |-> <<>>]
    BY DEF MakeBegin, rollupVars, Covered, CoveredOf
  <1>2. CyclesOk(scope, cycles) /\ HasNewest(cycles) /\ RowsOk(cycles, rows)
    BY DEF CoreInv
  <1>3. Known(rows, lo, hi) /\ \A i, j : Known(rows, i, j) => lo <= i /\ j <= hi
    BY <1>1, <1>2, CoveredIs
  <1>4. CalmInv => Begins(cycles, rows, lo)
    BY <1>1, FirstHour
  <1> HIDE DEF lo, hi
  <1>5. IsMaker(maker') /\ maker'.pc = "series" /\ maker'.lo = lo /\ maker'.hi = hi
    BY <1>1 DEF IsMaker
  <1>6. DOMAIN table \subseteq GridOf(lo, hi)
    <2>1. CASE table = <<>>
      BY <2>1
    <2>2. CASE table # <<>>
      <3>1. PICK i, j, p : TableIs(rows, table, price, i, j, p)
        BY <2>2 DEF VerdictInv, MakeInv, TableOk
      <3>2. Known(rows, i, j) /\ DOMAIN table = GridOf(i, j)
        BY <3>1 DEF TableIs
      <3>3. i \in Int /\ j \in Int /\ lo \in Int /\ hi \in Int /\ lo <= i /\ j <= hi
        BY <1>3, <3>2 DEF Known
      <3>4. GridOf(i, j) \subseteq GridOf(lo, hi)
        BY <3>3, BeforeIs DEF GridOf
      <3> QED
        BY <3>2, <3>4
    <2> QED
      BY <2>1, <2>2
  <1>7. MakerOk(rows, table, price, maker')
    BY <1>3, <1>5, <1>6 DEF MakerOk
  <1>8. AskOk(rows, table, maker', price, ask)
    BY <1>5 DEF VerdictInv, AskOk, AskPrints
  <1>9. VerdictInv'
    BY <1>1, <1>7, <1>8 DEF VerdictInv, MakeInv
  <1>10. CalmInv => MakerCalm(cycles, rows, maker')
    BY <1>4, <1>5 DEF MakerCalm
  <1> QED
    BY <1>1, <1>9, <1>10 DEF VerdictCalm

\* The filling ends, well or not.
LEMMA IdleMaker ==
  ASSUME VerdictInv, maker' = Idle,
         rows' = rows, cycles' = cycles, price' = price, table' = table, ask' = ask, body' = body
  PROVE  VerdictInv' /\ (VerdictCalm => VerdictCalm')
  <1>1. MakerOk(rows, table, price, Idle) /\ MakerCalm(cycles, rows, Idle)
    BY DEF MakerOk, MakerCalm
  <1>2. AskOk(rows, table, Idle, price, ask)
    BY DEF VerdictInv, AskOk, AskPrints
  <1>3. VerdictInv'
    BY <1>1, <1>2 DEF VerdictInv, MakeInv
  <1> QED
    BY <1>1, <1>3 DEF VerdictCalm

LEMMA SeriesMaker ==
  ASSUME VerdictInv, MakeSeries
  PROVE  VerdictInv' /\ (VerdictCalm => VerdictCalm')
  <1> DEFINE s == SeriesOf(rows, maker.lo, maker.hi)
  <1>1. /\ rows' = rows /\ cycles' = cycles /\ price' = price /\ table' = table
        /\ ask' = ask /\ body' = body /\ maker # Idle
        /\ maker' = Idle \/ maker' = [maker EXCEPT !.pc = "window", !.series = s]
    BY SeriesIs DEF MakeSeries, rollupVars
  <1>2. /\ IsMaker(maker) /\ Known(rows, maker.lo, maker.hi)
        /\ DOMAIN table \subseteq GridOf(maker.lo, maker.hi)
    BY <1>1 DEF VerdictInv, MakeInv, MakerOk
  <1>3. CASE maker' = Idle
    BY <1>1, <1>3, IdleMaker
  <1>4. CASE maker' = [maker EXCEPT !.pc = "window", !.series = s]
    <2>1. DOMAIN s = maker.lo..maker.hi
      BY DEF SeriesOf
    <2> HIDE DEF s
    <2>2. /\ IsMaker(maker') /\ maker'.pc = "window" /\ maker'.lo = maker.lo
          /\ maker'.hi = maker.hi /\ maker'.series = s
      BY <1>2, <1>4 DEF IsMaker
    <2>3. MakerOk(rows, table, price, maker')
      BY <1>2, <2>1, <2>2 DEF MakerOk
    <2>4. AskOk(rows, table, maker', price, ask)
      BY <2>2 DEF VerdictInv, AskOk, AskPrints
    <2>5. VerdictInv'
      BY <1>1, <2>3, <2>4 DEF VerdictInv, MakeInv
    <2>6. MakerCalm(cycles, rows, maker) => MakerCalm(cycles, rows, maker')
      BY <1>1, <2>2 DEF MakerCalm, s
    <2> QED
      BY <1>1, <2>5, <2>6 DEF VerdictCalm
  <1> QED
    BY <1>1, <1>3, <1>4

LEMMA PrintedIs ==
  ASSUME NEW w, NEW p
  PROVE  /\ DOMAIN Printed(w, p) = DOMAIN w /\ OnePrice(Printed(w, p), p)
         /\ Printed(w, p) # <<>> => DOMAIN w # {}
  <1>1. DOMAIN Printed(w, p) = DOMAIN w /\ OnePrice(Printed(w, p), p)
    BY DEF Printed, OnePrice
  <1>2. ASSUME DOMAIN w = {}
        PROVE  Printed(w, p) = <<>>
    <2>1. Printed(w, p) = [h \in {} |-> [row |-> w[h], print |-> p]]
      BY <1>2 DEF Printed
    <2> QED
      BY <2>1
  <1> QED
    BY <1>1, <1>2

LEMMA RowsMaker ==
  ASSUME VerdictInv, MakeRows
  PROVE  VerdictInv' /\ (VerdictCalm => VerdictCalm')
  <1> DEFINE w == Walk(Graded(maker.series, price), price, maker.hi)
             new == Printed(w, price)
  <1>1. /\ rows' = rows /\ cycles' = cycles /\ price' = price /\ table' = table
        /\ ask' = ask /\ body' = body /\ maker # Idle /\ maker.pc = "window"
        /\ \/ maker' = Idle
           \/ /\ new # <<>>
              /\ maker' = [maker EXCEPT !.pc = "write", !.rows = new, !.series = <<>>]
    BY DEF MakeRows, rollupVars
  <1>2. /\ IsMaker(maker) /\ Known(rows, maker.lo, maker.hi)
        /\ DOMAIN table \subseteq GridOf(maker.lo, maker.hi)
        /\ DOMAIN maker.series = maker.lo..maker.hi /\ price \in Prices
    BY <1>1 DEF VerdictInv, MakeInv, MakerOk
  <1>3. CASE maker' = Idle
    BY <1>1, <1>3, IdleMaker
  <1>4. CASE /\ new # <<>>
             /\ maker' = [maker EXCEPT !.pc = "write", !.rows = new, !.series = <<>>]
    <2>1. maker.lo \in Int /\ maker.hi \in Int /\ maker.lo <= maker.hi
      BY <1>2 DEF Known
    <2>2. DOMAIN w = GridOf(maker.lo, maker.hi)
      BY <1>2, <2>1, GradedHours, WalkHours DEF GridOf
    <2>3. DOMAIN new = DOMAIN w /\ OnePrice(new, price) /\ DOMAIN w # {}
      BY <1>4, PrintedIs
    <2>4. VerdictCalm => new = Verdicts(rows, maker.lo, maker.hi, price)
      BY <1>1 DEF VerdictCalm, MakerCalm, Verdicts
    <2> HIDE DEF new, w
    <2>5. maker.lo + Before <= maker.hi
      BY <2>1, <2>2, <2>3, BeforeIs DEF GridOf
    <2>6. /\ IsMaker(maker') /\ maker'.pc = "write" /\ maker'.lo = maker.lo
          /\ maker'.hi = maker.hi /\ maker'.rows = new
      BY <1>2, <1>4 DEF IsMaker
    <2>7. price \in Int
      BY <1>2, VerdictAssumption
    <2>8. \A h \in DOMAIN table : table[h].print <= price
      <3>1. CASE table = <<>>
        BY <3>1
      <3>2. CASE table # <<>>
        <4>1. PICK i, j, p : TableIs(rows, table, price, i, j, p)
          BY <3>2 DEF VerdictInv, MakeInv, TableOk
        <4> QED
          BY <4>1 DEF TableIs, OnePrice
      <3> QED
        BY <3>1, <3>2
    <2>9. Writes(table, price, maker.lo, maker.hi, new)
      BY <1>2, <2>2, <2>3, <2>5, <2>7, <2>8 DEF Writes
    <2>10. MakerOk(rows, table, price, maker')
      BY <1>2, <2>6, <2>9 DEF MakerOk
    <2>11. AskOk(rows, table, maker', price, ask)
      <3> SUFFICES ASSUME ask # Idle
                   PROVE  AskOk(rows, table, maker', price, ask)
        BY DEF AskOk
      <3>1. /\ AskShape(rows, price, ask) /\ AskPrints(table, maker, price, ask)
            /\ Passed(table, ask)
        BY DEF VerdictInv, AskOk
      <3>2. Allowed(new, ask)
        BY <2>3, <3>1 DEF Allowed, OnePrice, AskShape
      <3>3. AskPrints(table, maker', price, ask)
        BY <2>6, <3>1, <3>2 DEF AskPrints
      <3> QED
        BY <3>1, <3>3 DEF AskOk
    <2>12. VerdictInv'
      BY <1>1, <2>10, <2>11 DEF VerdictInv, MakeInv
    <2>13. VerdictCalm => MakerCalm(cycles, rows, maker')
      <3>1. VerdictCalm => Begins(cycles, rows, maker.lo)
        BY <1>1 DEF VerdictCalm, MakerCalm
      <3> QED
        BY <2>4, <2>6, <3>1 DEF MakerCalm
    <2> QED
      BY <1>1, <2>12, <2>13 DEF VerdictCalm
  <1> QED
    BY <1>1, <1>3, <1>4

\* All of the table is replaced.
LEMMA Replaces ==
  ASSUME NEW T, NEW new, DOMAIN T \subseteq DOMAIN new
  PROVE  /\ DOMAIN Upsert(T, new) = DOMAIN new
         /\ \A h \in DOMAIN new : Upsert(T, new)[h] = new[h]
         /\ Upsert(T, new) = [h \in DOMAIN new |-> new[h]]
  <1>1. DOMAIN T \cup DOMAIN new = DOMAIN new
    OBVIOUS
  <1>2. Upsert(T, new) = [h \in DOMAIN new |-> new[h]]
    BY <1>1 DEF Upsert
  <1> QED
    BY <1>2

LEMMA Tears ==
  ASSUME NEW a, IsAsk(a)
  PROVE  LET g == [a EXCEPT !.torn = TRUE]
         IN /\ IsAsk(g) /\ g.torn = TRUE /\ g.pc = a.pc /\ g.at = a.at /\ g.lo = a.lo
            /\ g.hi = a.hi /\ g.print = a.print /\ g.here = a.here /\ g.series = a.series
            /\ g.prices = a.prices
  BY DEF IsAsk

LEMMA AskIs ==
  ASSUME NEW a, IsAsk(a)
  PROVE  a # Idle
  <1>1. DOMAIN Idle = {"pc"}
    BY DEF Idle
  <1>2. "lo" \in DOMAIN a /\ ~("lo" \in DOMAIN Idle)
    BY <1>1 DEF IsAsk
  <1> QED
    BY <1>2

LEMMA CommitMaker ==
  ASSUME VerdictInv, MakeCommit
  PROVE  VerdictInv' /\ (VerdictCalm => VerdictCalm')
  <1> DEFINE lo == maker.lo
             hi == maker.hi
             new == maker.rows
  <1>1. /\ rows' = rows /\ cycles' = cycles /\ price' = price /\ body' = body
        /\ maker # Idle /\ maker.pc = "write" /\ maker' = Idle
        /\ table' = Upsert(table, new)
        /\ ask' = IF ask # Idle /\ ask.pc = "story" THEN [ask EXCEPT !.torn = TRUE] ELSE ask
    BY DEF MakeCommit, rollupVars
  <1>2. /\ IsMaker(maker) /\ Known(rows, lo, hi) /\ DOMAIN table \subseteq GridOf(lo, hi)
        /\ Writes(table, price, lo, hi, new) /\ price \in Prices
    BY <1>1 DEF VerdictInv, MakeInv, MakerOk
  <1>3. VerdictCalm => Begins(cycles, rows, lo) /\ \E p : new = Verdicts(rows, lo, hi, p)
    BY <1>1 DEF VerdictCalm, MakerCalm
  <1>4. AskOk(rows, table, maker, price, ask)
    BY DEF VerdictInv
  <1>5. ask # Idle /\ ask.pc # "window" => Allowed(new, ask)
    BY <1>1, <1>4 DEF AskOk, AskPrints
  <1> HIDE DEF lo, hi, new
  <1>6. lo + Before <= hi /\ DOMAIN new = GridOf(lo, hi)
    BY <1>2 DEF Writes
  <1>7. /\ DOMAIN table' = DOMAIN new /\ \A h \in DOMAIN new : table'[h] = new[h]
        /\ table' = [h \in DOMAIN new |-> new[h]]
    BY <1>1, <1>2, <1>6, Replaces
  <1>8. PICK p \in Prices : p <= price /\ OnePrice(new, p) /\ \A h \in DOMAIN table : table[h].print <= p
    BY <1>2 DEF Writes
  <1>9. TableOk(rows, table', price)
    <2>1. OnePrice(table', p)
      BY <1>7, <1>8 DEF OnePrice
    <2>2. TableIs(rows, table', price, lo, hi, p)
      BY <1>2, <1>6, <1>7, <1>8, <2>1 DEF TableIs
    <2> QED
      BY <2>2 DEF TableOk
  <1>10. MakerOk(rows, table', price, maker') /\ MakerCalm(cycles, rows, maker')
    BY <1>1 DEF MakerOk, MakerCalm
  <1>11. VerdictCalm => TableCalm(cycles, rows, table')
    <2> SUFFICES ASSUME VerdictCalm
                 PROVE  TableCalm(cycles, rows, table')
      OBVIOUS
    <2>1. PICK q : new = Verdicts(rows, lo, hi, q)
      BY <1>3
    <2> DEFINE w == Walk(Graded(SeriesOf(rows, lo, hi), q), q, hi)
    <2>2. new = [h \in DOMAIN w |-> [row |-> w[h], print |-> q]]
      BY <2>1 DEF Verdicts, Printed
    <2> HIDE DEF w
    <2>3. table' = new
      BY <1>7, <2>2
    <2>4. table' = Verdicts(rows, lo, hi, q)
      BY <2>1, <2>3
    <2> QED
      BY <1>2, <1>3, <2>4 DEF TableCalm
  <1>12. ASSUME ask # Idle
         PROVE  AskShape(rows, price, ask') /\ AskPrints(table', maker', price, ask')
                /\ Passed(table', ask') /\ ask'.lo = ask.lo /\ ask'.pc = ask.pc
                /\ ask'.series = ask.series /\ ask'.hi = ask.hi /\ ask' # Idle
    <2>1. /\ AskShape(rows, price, ask) /\ AskPrints(table, maker, price, ask)
          /\ Passed(table, ask) /\ IsAsk(ask)
      BY <1>4, <1>12 DEF AskOk, AskShape
    <2>2. /\ IsAsk(ask') /\ ask'.pc = ask.pc /\ ask'.at = ask.at /\ ask'.lo = ask.lo
          /\ ask'.hi = ask.hi /\ ask'.print = ask.print /\ ask'.here = ask.here
          /\ ask'.series = ask.series /\ ask'.prices = ask.prices
          /\ ask'.torn \in BOOLEAN /\ (ask.pc = "story" => ask'.torn = TRUE)
      <3>1. CASE ask.pc = "story"
        <4>1. ask' = [ask EXCEPT !.torn = TRUE]
          BY <1>1, <1>12, <3>1
        <4> QED
          BY <2>1, <4>1, Tears
      <3>2. CASE ask.pc # "story"
        <4>1. ask' = ask
          BY <1>1, <3>2
        <4> QED
          BY <2>1, <3>2, <4>1 DEF AskShape
      <3> QED
        BY <3>1, <3>2
    <2>3. AskShape(rows, price, ask')
      BY <2>1, <2>2 DEF AskShape
    <2>4. AskPrints(table', maker', price, ask')
      <3>1. ask.pc # "window" => Allowed(table', ask')
        BY <1>5, <1>7, <1>12, <2>2 DEF Allowed
      <3> QED
        BY <1>1, <2>1, <2>2, <3>1 DEF AskPrints
    <2>5. Passed(table', ask')
      <3>1. ask.pc \in {"prints", "inside", "rows", "story"} => \E h \in DOMAIN table' : ask.hi <= h
        BY <1>2, <1>6, <1>7, <2>1 DEF Passed
      <3>2. ASSUME ask.pc \in {"inside", "rows", "story"}, NEW h \in DOMAIN table'
            PROVE  table'[h].print >= ask.print
        <4>1. table'[h].print = p
          BY <1>7, <1>8 DEF OnePrice
        <4>2. PICK g \in DOMAIN table : ask.hi <= g
          BY <2>1, <3>2 DEF Passed
        <4>3. table[g].print >= ask.print /\ table[g].print <= p
          BY <1>8, <2>1, <3>2 DEF Passed
        <4>4. ask.print \in Nat /\ p \in Nat /\ table[g].print \in Nat
          <5>1. table # <<>>
            <6>1. DOMAIN <<>> = {}
              OBVIOUS
            <6> QED
              BY <6>1
          <5>2. PICK i, j, k : TableIs(rows, table, price, i, j, k)
            BY <5>1 DEF VerdictInv, MakeInv, TableOk
          <5>3. table[g].print = k /\ k \in Prices
            BY <5>2 DEF TableIs, OnePrice
          <5> QED
            BY <2>1, <3>2, <5>3, VerdictAssumption DEF AskPrints
        <4> QED
          BY <4>1, <4>3, <4>4
      <3>3. ask.pc \in {"rows", "story"} /\ ask.at # TheLine => ask.at \in DOMAIN table'
        BY <1>2, <1>6, <1>7, <2>1 DEF Passed
      <3> QED
        BY <2>2, <3>1, <3>2, <3>3 DEF Passed
    <2>6. ask' # Idle
      BY <2>2, AskIs
    <2> QED
      BY <2>2, <2>3, <2>4, <2>5, <2>6
  <1>13. ask = Idle => ask' = Idle
    BY <1>1
  <1>14. AskOk(rows, table', maker', price, ask')
    BY <1>12, <1>13 DEF AskOk
  <1>15. AskCalm(cycles, rows, ask) => AskCalm(cycles, rows, ask')
    BY <1>12, <1>13 DEF AskCalm
  <1>16. VerdictInv'
    BY <1>1, <1>2, <1>9, <1>10, <1>14 DEF VerdictInv, MakeInv
  <1> QED
    BY <1>1, <1>10, <1>11, <1>15, <1>16 DEF VerdictCalm
LEMMA PricesAre ==
  ASSUME VerdictInv
  PROVE  price \in Prices /\ price \in Nat /\ \A p \in Prices : p \in Nat
  BY VerdictAssumption DEF VerdictInv, MakeInv

\* The table, when there is one: an interval of hours, with rows of one policy.
LEMMA TableOne ==
  ASSUME VerdictInv, NEW x \in DOMAIN table
  PROVE  \E lo, hi, p : /\ TableIs(rows, table, price, lo, hi, p)
                        /\ Min(DOMAIN table) = lo + Before /\ Max(DOMAIN table) = hi
                        /\ lo + Before \in Int /\ hi \in Int /\ lo + Before <= hi
                        /\ DOMAIN table = (lo + Before)..hi
                        /\ p \in Nat /\ table[x].print = p /\ OnePrice(table, p)
                        /\ p <= price
  <1>1. table # <<>>
    <2>1. DOMAIN <<>> = {}
      OBVIOUS
    <2> QED
      BY <2>1
  <1>2. PICK lo, hi, p : TableIs(rows, table, price, lo, hi, p)
    BY <1>1 DEF VerdictInv, MakeInv, TableOk
  <1>3. lo \in Int /\ hi \in Int /\ lo + Before <= hi /\ DOMAIN table = (lo + Before)..hi
        /\ OnePrice(table, p) /\ p \in Prices /\ p <= price
    BY <1>2 DEF TableIs, Known, GridOf
  <1> DEFINE first == lo + Before
  <1>4. first \in Int
    BY <1>3, BeforeIs
  <1> HIDE DEF first
  <1>5. Min(first..hi) = first /\ Max(first..hi) = hi
    BY <1>3, <1>4, RangeMin DEF first
  <1>6. table[x].print = p /\ p \in Nat
    BY <1>3, PricesAre DEF OnePrice
  <1> QED
    BY <1>2, <1>3, <1>4, <1>5, <1>6 DEF first

\* A step of the request.
LEMMA AskMoved ==
  ASSUME VerdictInv, rows' = rows, cycles' = cycles, price' = price, table' = table,
         maker' = maker, AskOk(rows, table, maker, price, ask')
  PROVE  VerdictInv' /\ (VerdictCalm /\ AskCalm(cycles, rows, ask') /\ BodyCalm(rows, body')
                           => VerdictCalm')
  <1>1. VerdictInv'
    BY DEF VerdictInv, MakeInv
  <1> QED
    BY <1>1 DEF VerdictCalm

LEMMA AskIdle ==
  ASSUME VerdictInv, rows' = rows, cycles' = cycles, price' = price, table' = table,
         maker' = maker, ask' = Idle
  PROVE  VerdictInv' /\ (VerdictCalm /\ BodyCalm(rows, body') => VerdictCalm')
  <1>1. AskOk(rows, table, maker, price, ask') /\ AskCalm(cycles, rows, ask')
    BY DEF AskOk, AskCalm
  <1> QED
    BY <1>1, AskMoved

LEMMA AbortMaker ==
  ASSUME VerdictInv, MakeAbort
  PROVE  VerdictInv' /\ (VerdictCalm => VerdictCalm')
  BY IdleMaker DEF MakeAbort, rollupVars

LEMMA PolicyChanges ==
  ASSUME VerdictInv, NEW p \in Prices, ChangePolicy(p)
  PROVE  VerdictInv' /\ (VerdictCalm => VerdictCalm')
  <1>1. /\ rows' = rows /\ cycles' = cycles /\ table' = table /\ maker' = maker
        /\ body' = body /\ price' = p /\ p > price
        /\ ask' = IF ask = Idle THEN ask ELSE [ask EXCEPT !.prices = @ \cup {p}]
    BY DEF ChangePolicy, rollupVars
  <1>2. price \in Nat /\ p \in Nat /\ price <= p /\ \A x \in Prices : x \in Nat
    BY <1>1, PricesAre
  <1>3. TableOk(rows, table, p)
    <2> SUFFICES ASSUME table # <<>>
                 PROVE  TableOk(rows, table, p)
      BY DEF TableOk
    <2>1. PICK lo, hi, x : TableIs(rows, table, price, lo, hi, x)
      BY DEF VerdictInv, MakeInv, TableOk
    <2>2. TableIs(rows, table, p, lo, hi, x)
      BY <1>2, <2>1 DEF TableIs
    <2> QED
      BY <2>2 DEF TableOk
  <1>4. MakerOk(rows, table, p, maker)
    <2> SUFFICES ASSUME maker # Idle
                 PROVE  MakerOk(rows, table, p, maker)
      BY DEF MakerOk
    <2>1. MakerOk(rows, table, price, maker)
      BY DEF VerdictInv, MakeInv
    <2>2. ASSUME maker.pc = "write"
          PROVE  Writes(table, p, maker.lo, maker.hi, maker.rows)
      <3>1. Writes(table, price, maker.lo, maker.hi, maker.rows)
        BY <2>1, <2>2 DEF MakerOk
      <3>2. PICK x \in Prices : /\ x <= price /\ OnePrice(maker.rows, x)
                                /\ \A h \in DOMAIN table : table[h].print <= x
        BY <3>1 DEF Writes
      <3>3. x \in Nat
        BY <1>2
      <3>4. x <= p
        BY <1>2, <3>2, <3>3
      <3> QED
        BY <3>1, <3>2, <3>4 DEF Writes
    <2> QED
      BY <2>1, <2>2 DEF MakerOk
  <1>5. ASSUME ask # Idle
        PROVE  /\ AskShape(rows, p, ask') /\ AskPrints(table, maker, p, ask')
               /\ Passed(table, ask') /\ ask'.lo = ask.lo /\ ask'.pc = ask.pc
               /\ ask'.hi = ask.hi /\ ask'.series = ask.series /\ ask' # Idle
    <2>1. /\ AskShape(rows, price, ask) /\ AskPrints(table, maker, price, ask)
          /\ Passed(table, ask) /\ IsAsk(ask)
      BY <1>5 DEF VerdictInv, AskOk, AskShape
    <2>2. ask' = [ask EXCEPT !.prices = @ \cup {p}]
      BY <1>1, <1>5
    <2>3. /\ IsAsk(ask') /\ ask'.pc = ask.pc /\ ask'.at = ask.at /\ ask'.lo = ask.lo
          /\ ask'.hi = ask.hi /\ ask'.print = ask.print /\ ask'.here = ask.here
          /\ ask'.series = ask.series /\ ask'.torn = ask.torn
          /\ ask'.prices = ask.prices \cup {p}
      BY <2>1, <2>2 DEF IsAsk
    <2>4. AskShape(rows, p, ask')
      BY <2>1, <2>3 DEF AskShape
    <2>5. \A T : Allowed(T, ask) => Allowed(T, ask')
      BY <2>3 DEF Allowed
    <2>6. AskPrints(table, maker, p, ask')
      <3> SUFFICES ASSUME ask.pc # "window"
                   PROVE  AskPrints(table, maker, p, ask')
        BY <2>3 DEF AskPrints
      <3>1. ask.print \in Nat /\ ask.print <= p
        BY <1>2, <2>1 DEF AskPrints
      <3> QED
        BY <2>1, <2>3, <2>5, <3>1 DEF AskPrints
    <2>7. Passed(table, ask')
      BY <2>1, <2>3 DEF Passed
    <2>8. ask' # Idle
      BY <2>3, AskIs
    <2> QED
      BY <2>3, <2>4, <2>6, <2>7, <2>8
  <1>6. ask = Idle => ask' = Idle
    BY <1>1
  <1>7. AskOk(rows, table, maker, p, ask')
    BY <1>5, <1>6 DEF AskOk
  <1>8. AskCalm(cycles, rows, ask) => AskCalm(cycles, rows, ask')
    BY <1>5, <1>6 DEF AskCalm
  <1>9. VerdictInv'
    BY <1>1, <1>3, <1>4, <1>7 DEF VerdictInv, MakeInv
  <1> QED
    BY <1>1, <1>8, <1>9 DEF VerdictCalm-----------------------------------------------------------------------------
(* The requests                                                               *)

LEMMA AskBegins ==
  ASSUME CoreInv, VerdictInv, NEW at, AskVerdict(at)
  PROVE  VerdictInv' /\ (CalmInv /\ VerdictCalm => VerdictCalm')
  <1> DEFINE lo == Min(CoveredOf(rows))
             hi == Max(CoveredOf(rows))
  <1>1. /\ rows' = rows /\ cycles' = cycles /\ price' = price /\ table' = table
        /\ maker' = maker /\ body' = NoBody /\ CoveredOf(rows) # {}
        /\ ask' = [pc |-> "window", at |-> at, lo |-> lo, hi |-> hi, print |-> 0,
                   here |-> <<>>, series |-> <<>>, prices |-> {price}, torn |-> FALSE]
    BY DEF AskVerdict, Covered, CoveredOf
  <1>2. CyclesOk(scope, cycles) /\ HasNewest(cycles) /\ RowsOk(cycles, rows)
    BY DEF CoreInv
  <1>3. Known(rows, lo, hi)
    BY <1>1, <1>2, CoveredIs
  <1>4. CalmInv => Begins(cycles, rows, lo)
    BY <1>1, FirstHour
  <1> HIDE DEF lo, hi
  <1>5. /\ IsAsk(ask') /\ ask'.pc = "window" /\ ask'.lo = lo /\ ask'.hi = hi
        /\ ask'.prices = {price} /\ ask'.torn = FALSE
    BY <1>1 DEF IsAsk
  <1>6. AskOk(rows, table, maker, price, ask')
    BY <1>3, <1>5 DEF AskOk, AskShape, AskPrints, Passed
  <1>7. CalmInv => AskCalm(cycles, rows, ask')
    BY <1>4, <1>5 DEF AskCalm
  <1>8. BodyCalm(rows, body')
    BY <1>1 DEF BodyCalm
  <1> QED
    BY <1>1, <1>6, <1>7, <1>8, AskMoved

LEMMA PolicyRead ==
  ASSUME VerdictInv, ReadPolicy
  PROVE  VerdictInv' /\ (VerdictCalm => VerdictCalm')
  <1>1. /\ rows' = rows /\ cycles' = cycles /\ price' = price /\ table' = table
        /\ maker' = maker /\ body' = body /\ ask # Idle
        /\ ask' = [ask EXCEPT !.pc = "reach", !.print = price]
    BY DEF ReadPolicy, Reading, rollupVars
  <1>2. AskShape(rows, price, ask) /\ IsAsk(ask)
    BY <1>1 DEF VerdictInv, AskOk, AskShape
  <1>3. /\ IsAsk(ask') /\ ask'.pc = "reach" /\ ask'.at = ask.at /\ ask'.lo = ask.lo
        /\ ask'.hi = ask.hi /\ ask'.print = price /\ ask'.here = ask.here
        /\ ask'.series = ask.series /\ ask'.prices = ask.prices /\ ask'.torn = ask.torn
    BY <1>1, <1>2 DEF IsAsk
  <1>4. AskShape(rows, price, ask')
    BY <1>2, <1>3 DEF AskShape
  <1>5. price \in Nat /\ price \in ask.prices
    BY <1>2, PricesAre DEF AskShape
  <1>6. Allowed(table, ask')
    <2>1. ASSUME NEW h \in DOMAIN table, table[h].print >= price
          PROVE  table[h].print = price
      <3>1. PICK p \in Nat : table[h].print = p /\ p <= price
        BY TableOne
      <3> QED
        BY <1>5, <2>1, <3>1
    <2> QED
      BY <1>3, <1>5, <2>1 DEF Allowed
  <1>7. ASSUME maker # Idle, maker.pc = "write"
        PROVE  Allowed(maker.rows, ask')
    <2>1. Writes(table, price, maker.lo, maker.hi, maker.rows)
      BY <1>7 DEF VerdictInv, MakeInv, MakerOk
    <2>2. PICK p \in Prices : p <= price /\ OnePrice(maker.rows, p)
      BY <2>1 DEF Writes
    <2>3. p \in Nat
      BY PricesAre
    <2>4. ASSUME NEW h \in DOMAIN maker.rows, maker.rows[h].print >= price
          PROVE  maker.rows[h].print = price
      BY <1>5, <2>2, <2>3, <2>4 DEF OnePrice
    <2> QED
      BY <1>3, <1>5, <2>4 DEF Allowed
  <1>8. AskPrints(table, maker, price, ask')
    BY <1>3, <1>5, <1>6, <1>7 DEF AskPrints
  <1>9. Passed(table, ask')
    BY <1>3 DEF Passed
  <1>10. AskOk(rows, table, maker, price, ask')
    BY <1>4, <1>8, <1>9 DEF AskOk
  <1>11. AskCalm(cycles, rows, ask) => AskCalm(cycles, rows, ask')
    BY <1>1, <1>3 DEF AskCalm
  <1>12. VerdictCalm => VerdictCalm /\ AskCalm(cycles, rows, ask') /\ BodyCalm(rows, body')
    BY <1>1, <1>11 DEF VerdictCalm
  <1> QED
    BY <1>1, <1>10, <1>12, AskMoved

\* A test of freshness passed or not.
LEMMA FreshRead ==
  ASSUME VerdictInv, NEW pc \in {"reach", "prints", "inside"}, NEW test, NEW next,
         Fresh(pc, test, next),
         test => /\ next \in {"prints", "inside", "rows"}
                 /\ \A b : /\ b.pc = next /\ b.at = ask.at /\ b.hi = ask.hi /\ b.print = ask.print
                           => Passed(table, b)
  PROVE  VerdictInv' /\ (VerdictCalm => VerdictCalm')
  <1>1. /\ rows' = rows /\ cycles' = cycles /\ price' = price /\ table' = table
        /\ maker' = maker /\ body' = body /\ ask # Idle /\ ask.pc = pc
        /\ ask' = [ask EXCEPT !.pc = IF test THEN next ELSE "series"]
    BY DEF Fresh, Reading, rollupVars
  <1>2. AskShape(rows, price, ask) /\ IsAsk(ask) /\ AskPrints(table, maker, price, ask)
    BY <1>1 DEF VerdictInv, AskOk, AskShape
  <1>3. /\ IsAsk(ask') /\ ask'.pc = (IF test THEN next ELSE "series") /\ ask'.at = ask.at
        /\ ask'.lo = ask.lo /\ ask'.hi = ask.hi /\ ask'.print = ask.print
        /\ ask'.here = ask.here /\ ask'.series = ask.series /\ ask'.prices = ask.prices
        /\ ask'.torn = ask.torn
    BY <1>1, <1>2 DEF IsAsk
  <1>4. AskShape(rows, price, ask')
    BY <1>2, <1>3 DEF AskShape
  <1>5. \A T : Allowed(T, ask) => Allowed(T, ask')
    BY <1>3 DEF Allowed
  <1>6. AskPrints(table, maker, price, ask')
    BY <1>1, <1>2, <1>3, <1>5 DEF AskPrints
  <1>7. Passed(table, ask')
    <2>1. CASE test
      BY <1>3, <2>1
    <2>2. CASE ~test
      BY <1>3, <2>2 DEF Passed
    <2> QED
      BY <2>1, <2>2
  <1>8. AskOk(rows, table, maker, price, ask')
    BY <1>4, <1>6, <1>7 DEF AskOk
  <1>9. ask'.pc # "compute"
    BY <1>3
  <1>10. AskCalm(cycles, rows, ask) => AskCalm(cycles, rows, ask')
    BY <1>1, <1>3, <1>9 DEF AskCalm
  <1>11. VerdictCalm => VerdictCalm /\ AskCalm(cycles, rows, ask') /\ BodyCalm(rows, body')
    BY <1>1, <1>10 DEF VerdictCalm
  <1> QED
    BY <1>1, <1>8, <1>11, AskMoved
LEMMA ReachRead ==
  ASSUME VerdictInv, ReadReach
  PROVE  VerdictInv' /\ (VerdictCalm => VerdictCalm')
  <1>1. ASSUME Reaches, NEW b, b.pc = "prints", b.hi = ask.hi
        PROVE  Passed(table, b)
    <2>1. table # <<>> /\ Max(DOMAIN table) = ask.hi
      BY <1>1 DEF Reaches
    <2>2. PICK lo, hi, p : TableIs(rows, table, price, lo, hi, p)
      BY <2>1 DEF VerdictInv, MakeInv, TableOk
    <2>3. hi \in Int /\ hi \in DOMAIN table
      BY <2>2, BeforeIs DEF TableIs, GridOf, Known
    <2>4. Max(DOMAIN table) \in DOMAIN table /\ Max(DOMAIN table) \in Int
      BY <2>3, TableOne
    <2>5. \E h \in DOMAIN table : b.hi <= h
      BY <1>1, <2>1, <2>4
    <2> QED
      BY <1>1, <2>5 DEF Passed
  <1>2. Fresh("reach", Reaches, "prints")
    BY DEF ReadReach
  <1> QED
    BY <1>1, <1>2, FreshRead

LEMMA PrintsRead ==
  ASSUME VerdictInv, ReadPrints
  PROVE  VerdictInv' /\ (VerdictCalm => VerdictCalm')
  <1> DEFINE next == IF ask.at = TheLine THEN "rows" ELSE "inside"
  <1>1. Fresh("prints", OnePrint, next)
    BY DEF ReadPrints
  <1>2. ask # Idle /\ ask.pc = "prints"
    BY <1>1 DEF Fresh, Reading
  <1>3. Passed(table, ask) /\ ask.print \in Nat
    BY <1>2 DEF VerdictInv, AskOk, AskPrints
  <1>4. \E h \in DOMAIN table : ask.hi <= h
    BY <1>2, <1>3 DEF Passed
  <1>5. ASSUME OnePrint, NEW h \in DOMAIN table
        PROVE  table[h].print >= ask.print
    <2>1. table[h].print = ask.print
      BY <1>5 DEF OnePrint
    <2> QED
      BY <1>3, <2>1
  <1>6. ASSUME OnePrint, NEW b, b.pc = next, b.at = ask.at, b.hi = ask.hi, b.print = ask.print
        PROVE  Passed(table, b)
    BY <1>4, <1>5, <1>6 DEF Passed
  <1>7. next \in {"prints", "inside", "rows"}
    OBVIOUS
  <1> HIDE DEF next
  <1> QED
    BY <1>1, <1>6, <1>7, FreshRead

LEMMA InsideRead ==
  ASSUME VerdictInv, ReadInside
  PROVE  VerdictInv' /\ (VerdictCalm => VerdictCalm')
  <1> DEFINE test == table # <<>> /\ ask.at \in Min(DOMAIN table)..Max(DOMAIN table)
  <1>1. Fresh("inside", test, "rows")
    BY DEF ReadInside
  <1>2. ask # Idle /\ ask.pc = "inside"
    BY <1>1 DEF Fresh, Reading
  <1>3. Passed(table, ask)
    BY <1>2 DEF VerdictInv, AskOk
  <1>4. /\ \E h \in DOMAIN table : ask.hi <= h
        /\ \A h \in DOMAIN table : table[h].print >= ask.print
    BY <1>2, <1>3 DEF Passed
  <1>5. DOMAIN table = Min(DOMAIN table)..Max(DOMAIN table)
    <2>1. PICK x \in DOMAIN table : ask.hi <= x
      BY <1>4
    <2> QED
      BY TableOne
  <1>6. ASSUME test, NEW b, b.pc = "rows", b.at = ask.at, b.hi = ask.hi, b.print = ask.print
        PROVE  Passed(table, b)
    <2>1. ask.at \in DOMAIN table
      BY <1>5, <1>6
    <2> QED
      BY <1>4, <1>6, <2>1 DEF Passed
  <1> HIDE DEF test
  <1> QED
    BY <1>1, <1>6, FreshRead

LEMMA RowsRead ==
  ASSUME VerdictInv, ReadRows
  PROVE  VerdictInv' /\ (VerdictCalm => VerdictCalm')
  <1> DEFINE here == Here(table, ask.at)
  <1>1. /\ rows' = rows /\ cycles' = cycles /\ price' = price /\ table' = table
        /\ maker' = maker /\ body' = body /\ ask # Idle /\ ask.pc = "rows"
        /\ ask' = [ask EXCEPT !.pc = "story", !.here = here]
    BY DEF ReadRows, Reading, rollupVars, Here, RowsOfTable, Rows
  <1>2. /\ AskShape(rows, price, ask) /\ IsAsk(ask) /\ AskPrints(table, maker, price, ask)
        /\ Passed(table, ask)
    BY <1>1 DEF VerdictInv, AskOk, AskShape
  <1> HIDE DEF here
  <1>3. /\ IsAsk(ask') /\ ask'.pc = "story" /\ ask'.at = ask.at
        /\ ask'.lo = ask.lo /\ ask'.hi = ask.hi /\ ask'.print = ask.print
        /\ ask'.here = here /\ ask'.series = ask.series /\ ask'.prices = ask.prices
        /\ ask'.torn = ask.torn
    BY <1>1, <1>2 DEF IsAsk
  <1>4. AskShape(rows, price, ask')
    BY <1>2, <1>3 DEF AskShape
  <1>5. \A T : Allowed(T, ask) => Allowed(T, ask')
    BY <1>3 DEF Allowed
  <1>6. AskPrints(table, maker, price, ask')
    BY <1>1, <1>2, <1>3, <1>5 DEF AskPrints
  <1>7. ask'.here = Here(table, ask'.at)
    BY <1>3 DEF here
  <1>8. Passed(table, ask')
    BY <1>1, <1>2, <1>3, <1>7 DEF Passed
  <1>9. AskOk(rows, table, maker, price, ask')
    BY <1>4, <1>6, <1>8 DEF AskOk
  <1>10. AskCalm(cycles, rows, ask) => AskCalm(cycles, rows, ask')
    BY <1>1, <1>3 DEF AskCalm
  <1>11. VerdictCalm => VerdictCalm /\ AskCalm(cycles, rows, ask') /\ BodyCalm(rows, body')
    BY <1>1, <1>10 DEF VerdictCalm
  <1> QED
    BY <1>1, <1>9, <1>11, AskMoved

LEMMA SeriesRead ==
  ASSUME VerdictInv, ReadSeries
  PROVE  VerdictInv' /\ (VerdictCalm => VerdictCalm')
  <1> DEFINE s == SeriesOf(rows, ask.lo, ask.hi)
  <1>1. /\ rows' = rows /\ cycles' = cycles /\ price' = price /\ table' = table
        /\ maker' = maker /\ body' = body /\ ask # Idle /\ ask.pc = "series"
        /\ ask' = Idle \/ ask' = [ask EXCEPT !.pc = "compute", !.series = s]
    BY SeriesIs DEF ReadSeries, Reading, rollupVars
  <1>2. /\ AskShape(rows, price, ask) /\ IsAsk(ask) /\ AskPrints(table, maker, price, ask)
    BY <1>1 DEF VerdictInv, AskOk, AskShape
  <1>3. VerdictCalm => VerdictCalm /\ AskCalm(cycles, rows, ask) /\ BodyCalm(rows, body')
    BY <1>1 DEF VerdictCalm
  <1>4. CASE ask' = Idle
    BY <1>1, <1>3, <1>4, AskIdle
  <1>5. CASE ask' = [ask EXCEPT !.pc = "compute", !.series = s]
    <2> HIDE DEF s
    <2>1. /\ IsAsk(ask') /\ ask'.pc = "compute" /\ ask'.at = ask.at
          /\ ask'.lo = ask.lo /\ ask'.hi = ask.hi /\ ask'.print = ask.print
          /\ ask'.here = ask.here /\ ask'.series = s /\ ask'.prices = ask.prices
          /\ ask'.torn = ask.torn
      BY <1>2, <1>5 DEF IsAsk
    <2>2. AskShape(rows, price, ask')
      BY <1>2, <2>1 DEF AskShape
    <2>3. \A T : Allowed(T, ask) => Allowed(T, ask')
      BY <2>1 DEF Allowed
    <2>4. AskPrints(table, maker, price, ask')
      BY <1>1, <1>2, <2>1, <2>3 DEF AskPrints
    <2>5. Passed(table, ask')
      BY <2>1 DEF Passed
    <2>6. AskOk(rows, table, maker, price, ask')
      BY <2>2, <2>4, <2>5 DEF AskOk
    <2>7. AskCalm(cycles, rows, ask) => AskCalm(cycles, rows, ask')
      BY <1>1, <2>1 DEF AskCalm, s
    <2> QED
      BY <1>1, <1>3, <2>6, <2>7, AskMoved
  <1> QED
    BY <1>1, <1>4, <1>5
\* What is said from the table is what the walk over its hours says.
LEMMA StoryIs ==
  ASSUME NEW w, NEW at
  PROVE  /\ at = TheLine => [acts |-> Line(w).acts, calls |-> Line(w).calls] = Line(w)
         /\ at # TheLine => [here |-> Body(w, at).here, story |-> Body(w, at).story]
                              = Body(w, at)
  <1>1. [acts |-> Line(w).acts, calls |-> Line(w).calls] = Line(w)
    BY DEF Line
  <1>2. [here |-> Body(w, at).here, story |-> Body(w, at).story] = Body(w, at)
    BY DEF Body
  <1> QED
    BY <1>1, <1>2

LEMMA StorySays ==
  ASSUME CoreInv, VerdictInv, VerdictCalm, ask # Idle, ask.pc = "story", ask.torn = FALSE,
         NEW says,
         says = IF ask.at = TheLine
                THEN [acts |-> ask.here, calls |-> Line(RowsOfTable(table)).calls]
                ELSE [here |-> ask.here, story |-> Body(RowsOfTable(table), ask.at).story]
  PROVE  \E p \in ask.prices, hi \in Int :
            ask.hi <= hi /\ Known(rows, ask.lo, hi)
            /\ says = Computed(SeriesOf(rows, ask.lo, hi), p, ask.at, hi)
  <1>1. /\ AskShape(rows, price, ask) /\ AskPrints(table, maker, price, ask)
        /\ Passed(table, ask)
    BY DEF VerdictInv, AskOk
  <1>2. /\ \E h \in DOMAIN table : ask.hi <= h
        /\ \A h \in DOMAIN table : table[h].print >= ask.print
        /\ ask.at # TheLine => ask.at \in DOMAIN table
        /\ ask.here = Here(table, ask.at)
    BY <1>1 DEF Passed
  <1>3. PICK x \in DOMAIN table : ask.hi <= x
    BY <1>2
  <1>4. table # <<>>
    <2>1. DOMAIN <<>> = {}
      OBVIOUS
    <2> QED
      BY <1>3, <2>1
  <1>5. PICK lo, hi, p : /\ Known(rows, lo, hi) /\ Begins(cycles, rows, lo)
                         /\ table = Verdicts(rows, lo, hi, p)
    BY <1>4 DEF VerdictCalm, TableCalm
  <1>6. lo \in Int /\ hi \in Int /\ lo <= hi /\ ask.lo \in Int /\ ask.hi \in Int
    BY <1>1, <1>5 DEF Known, AskShape
  <1>7. CyclesOk(scope, cycles) /\ RowsOk(cycles, rows) /\ Begins(cycles, rows, ask.lo)
    BY DEF CoreInv, VerdictCalm, AskCalm
  <1>8. lo = ask.lo
    BY <1>5, <1>6, <1>7, BeginsOnce
  <1> DEFINE s == SeriesOf(rows, lo, hi)
             w == Walk(Graded(s, p), p, hi)
  <1>9. DOMAIN s = lo..hi
    BY DEF SeriesOf
  <1>10. table = Printed(w, p)
    BY <1>5 DEF Verdicts
  <1> HIDE DEF s
  <1>11. DOMAIN w = (lo + Before)..hi
    <2>1. DOMAIN Graded(s, p) = lo..hi
      BY <1>9, GradedHours
    <2> QED
      BY <1>6, <2>1, WalkHours
  <1>12. RowsOfTable(table) = w
    BY <1>10, PrintedRows
  <1> HIDE DEF w
  <1>13. DOMAIN table = (lo + Before)..hi /\ OnePrice(table, p)
    BY <1>10, <1>11, PrintedIs
  <1>14. ask.hi <= hi
    BY <1>3, <1>6, <1>13, BeforeIs
  <1>15. p \in ask.prices
    <2>1. table[x].print = p /\ table[x].print >= ask.print
      BY <1>2, <1>13 DEF OnePrice
    <2> QED
      BY <1>1, <2>1 DEF AskPrints, Allowed
  <1>16. Computed(s, p, ask.at, hi) = IF ask.at = TheLine THEN Line(w) ELSE Body(w, ask.at)
    <2>1. ask.at # TheLine => ask.at \in (lo + Before)..hi
      BY <1>2, <1>13
    <2> QED
      BY <1>6, <1>9, <2>1, ServedIs DEF w
  <1>17. says = Computed(s, p, ask.at, hi)
    BY <1>2, <1>12, <1>16, StoryIs DEF Here
  <1> QED
    BY <1>5, <1>6, <1>8, <1>14, <1>15, <1>17 DEF s

LEMMA StoryRead ==
  ASSUME CoreInv, VerdictInv, ReadStory
  PROVE  VerdictInv' /\ (VerdictCalm => VerdictCalm')
  <1> DEFINE says == IF ask.at = TheLine
                     THEN [acts |-> ask.here, calls |-> Line(RowsOfTable(table)).calls]
                     ELSE [here |-> ask.here, story |-> Body(RowsOfTable(table), ask.at).story]
  <1>1. /\ rows' = rows /\ cycles' = cycles /\ price' = price /\ table' = table
        /\ maker' = maker /\ ask' = Idle /\ ask # Idle /\ ask.pc = "story"
        /\ body' = [at |-> ask.at, lo |-> ask.lo, hi |-> ask.hi, prices |-> ask.prices,
                    torn |-> ask.torn, says |-> says]
    BY DEF ReadStory, Reading, rollupVars, RowsOfTable, Rows
  <1>2. Known(rows, ask.lo, ask.hi) /\ ask.torn \in BOOLEAN
    BY <1>1 DEF VerdictInv, AskOk, AskShape
  <1>3. ASSUME VerdictCalm, ask.torn = FALSE
        PROVE  \E p \in ask.prices, hi \in Int :
                  ask.hi <= hi /\ Known(rows, ask.lo, hi)
                  /\ says = Computed(SeriesOf(rows, ask.lo, hi), p, ask.at, hi)
    BY <1>1, <1>3, StorySays
  <1> HIDE DEF says
  <1>4. /\ body'.at = ask.at /\ body'.lo = ask.lo /\ body'.hi = ask.hi
        /\ body'.prices = ask.prices /\ body'.torn = ask.torn /\ body'.says = says
    BY <1>1
  <1>5. VerdictCalm => BodyCalm(rows, body')
    BY <1>2, <1>3, <1>4 DEF BodyCalm, Says, Known
  <1> QED
    BY <1>1, <1>5, AskIdle

LEMMA ComputeRead ==
  ASSUME VerdictInv, Compute
  PROVE  VerdictInv' /\ (VerdictCalm => VerdictCalm')
  <1> DEFINE says == Computed(ask.series, price, ask.at, ask.hi)
  <1>1. /\ rows' = rows /\ cycles' = cycles /\ price' = price /\ table' = table
        /\ maker' = maker /\ ask' = Idle /\ ask # Idle /\ ask.pc = "compute"
        /\ body' = [at |-> ask.at, lo |-> ask.lo, hi |-> ask.hi, prices |-> ask.prices,
                    torn |-> FALSE, says |-> says]
    BY DEF Compute, Reading, rollupVars
  <1>2. /\ Known(rows, ask.lo, ask.hi) /\ price \in ask.prices
        /\ ask.hi \in Int /\ ask.hi <= ask.hi
    BY <1>1 DEF VerdictInv, AskOk, AskShape, Known
  <1>3. VerdictCalm => says = Computed(SeriesOf(rows, ask.lo, ask.hi), price, ask.at, ask.hi)
    BY <1>1 DEF VerdictCalm, AskCalm
  <1> HIDE DEF says
  <1>4. /\ body'.at = ask.at /\ body'.lo = ask.lo /\ body'.hi = ask.hi
        /\ body'.prices = ask.prices /\ body'.says = says
    BY <1>1
  <1>5. ASSUME VerdictCalm
        PROVE  BodyCalm(rows, body')
    <2>1. Says(rows, body', ask.hi, price)
      BY <1>3, <1>4, <1>5 DEF Says
    <2> QED
      BY <1>2, <1>4, <2>1 DEF BodyCalm
  <1> QED
    BY <1>1, <1>5, AskIdle-----------------------------------------------------------------------------
(* The invariant of the specification                                         *)

ServedInv == CoreInv /\ VerdictInv /\ (~late => CalmInv /\ VerdictCalm)

LEMMA InitServed == ReadingsInit => ServedInv
  <1> SUFFICES ASSUME ReadingsInit
               PROVE  ServedInv
    OBVIOUS
  <1>1. /\ scope \in Scopes /\ cycles = {} /\ rows = <<>> /\ fill = Idle
        /\ price = Min(Prices) /\ table = <<>> /\ maker = Idle /\ ask = Idle
        /\ late = FALSE /\ body = NoBody
    BY DEF ReadingsInit, VerdictInit, Init
  <1>2. DOMAIN rows = {}
    BY <1>1
  <1>3. CoreInv
    <2>1. CyclesOk(scope, cycles) /\ HasNewest(cycles)
      BY <1>1, FS_EmptySet DEF CyclesOk, HasNewest
    <2>2. RowsOk(cycles, rows) /\ FillOk(cycles, rows, fill)
      BY <1>1, <1>2 DEF RowsOk, Counts, FillOk
    <2> QED
      BY <1>1, <2>1, <2>2 DEF CoreInv
  <1>4. Min(Prices) \in Prices
    BY VerdictAssumption, MinIn
  <1>5. VerdictInv
    BY <1>1, <1>4 DEF VerdictInv, MakeInv, TableOk, MakerOk, AskOk
  <1>6. CalmInv
    BY <1>1, <1>2 DEF CalmInv, CalmRows, Between, CalmFirst
  <1>7. VerdictCalm
    BY <1>1 DEF VerdictCalm, TableCalm, MakerCalm, AskCalm, BodyCalm
  <1> QED
    BY <1>3, <1>5, <1>6, <1>7 DEF ServedInv

LEMMA OthersServed ==
  ASSUME ServedInv, UNCHANGED <<scope, cycles, rows, fill, late>>, VerdictInv',
         CalmInv /\ VerdictCalm => VerdictCalm'
  PROVE  ServedInv'
  <1>1. late' = late /\ CoreInv' /\ (CalmInv /\ ~late' => CalmInv')
    BY CoreSame DEF ServedInv
  <1>2. ASSUME ~late'
        PROVE  CalmInv' /\ VerdictCalm'
    <2>1. CalmInv /\ VerdictCalm
      BY <1>1, <1>2 DEF ServedInv
    <2> QED
      BY <1>1, <1>2, <2>1
  <1> QED
    BY <1>1, <1>2 DEF ServedInv

LEMMA RollupServed ==
  ASSUME ServedInv, RollupStep
  PROVE  ServedInv'
  <1>1. /\ CoreInv' /\ GrowsTo(rows, rows') /\ (~late' => ~late)
        /\ (CalmInv /\ ~late' => CalmInv' /\ CalmTo(cycles, rows, cycles', rows'))
    BY RollupCore DEF ServedInv
  <1>2. price' = price /\ table' = table /\ maker' = maker /\ ask' = ask /\ body' = body
    BY DEF RollupStep
  <1>3. /\ price \in Prices /\ TableOk(rows, table, price) /\ MakerOk(rows, table, price, maker)
        /\ AskOk(rows, table, maker, price, ask)
    BY DEF ServedInv, VerdictInv, MakeInv
  <1>4. /\ TableOk(rows', table, price) /\ MakerOk(rows', table, price, maker)
        /\ AskOk(rows', table, maker, price, ask)
    BY <1>1, <1>3, GrowsVerdict
  <1>5. VerdictInv'
    BY <1>2, <1>3, <1>4 DEF VerdictInv, MakeInv
  <1>6. ASSUME ~late'
        PROVE  CalmInv' /\ VerdictCalm'
    <2>1. CalmInv /\ VerdictCalm
      BY <1>1, <1>6 DEF ServedInv
    <2>2. CalmInv' /\ CalmTo(cycles, rows, cycles', rows')
      BY <1>1, <1>6, <2>1
    <2>3. /\ TableCalm(cycles, rows, table) /\ MakerCalm(cycles, rows, maker)
          /\ AskCalm(cycles, rows, ask) /\ BodyCalm(rows, body)
      BY <2>1 DEF VerdictCalm
    <2>4. /\ TableCalm(cycles', rows', table) /\ MakerCalm(cycles', rows', maker)
          /\ AskCalm(cycles', rows', ask) /\ BodyCalm(rows', body)
      BY <1>3, <2>2, <2>3, CalmVerdict
    <2> QED
      BY <1>2, <2>2, <2>4 DEF VerdictCalm
  <1> QED
    BY <1>1, <1>5, <1>6 DEF ServedInv

LEMMA VerdictServed ==
  ASSUME ServedInv, VerdictNext
  PROVE  ServedInv'
  <1>1. CoreInv /\ VerdictInv
    BY DEF ServedInv
  <1>2. CASE RollupStep
    BY <1>2, RollupServed
  <1>3. CASE MakeBegin
    <2>1. VerdictInv' /\ (CalmInv /\ VerdictCalm => VerdictCalm')
      BY <1>1, <1>3, BeginMaker
    <2> QED
      BY <1>3, <2>1, OthersServed DEF MakeBegin, rollupVars
  <1>4. CASE MakeSeries
    <2>1. VerdictInv' /\ (VerdictCalm => VerdictCalm')
      BY <1>1, <1>4, SeriesMaker
    <2> QED
      BY <1>4, <2>1, OthersServed DEF MakeSeries, rollupVars
  <1>5. CASE MakeRows
    <2>1. VerdictInv' /\ (VerdictCalm => VerdictCalm')
      BY <1>1, <1>5, RowsMaker
    <2> QED
      BY <1>5, <2>1, OthersServed DEF MakeRows, rollupVars
  <1>6. CASE MakeCommit
    <2>1. VerdictInv' /\ (VerdictCalm => VerdictCalm')
      BY <1>1, <1>6, CommitMaker
    <2> QED
      BY <1>6, <2>1, OthersServed DEF MakeCommit, rollupVars
  <1>7. CASE MakeAbort
    <2>1. VerdictInv' /\ (VerdictCalm => VerdictCalm')
      BY <1>1, <1>7, AbortMaker
    <2> QED
      BY <1>7, <2>1, OthersServed DEF MakeAbort, rollupVars
  <1>8. ASSUME NEW p \in Prices, ChangePolicy(p)
        PROVE  ServedInv'
    <2>1. VerdictInv' /\ (VerdictCalm => VerdictCalm')
      BY <1>1, <1>8, PolicyChanges
    <2> QED
      BY <1>8, <2>1, OthersServed DEF ChangePolicy, rollupVars
  <1>9. ASSUME NEW at, AskVerdict(at)
        PROVE  ServedInv'
    <2>1. VerdictInv' /\ (CalmInv /\ VerdictCalm => VerdictCalm')
      BY <1>1, <1>9, AskBegins
    <2> QED
      BY <1>9, <2>1, OthersServed DEF AskVerdict
  <1>10. CASE \/ ReadPolicy \/ ReadReach \/ ReadPrints \/ ReadInside
              \/ ReadRows \/ ReadStory \/ ReadSeries \/ Compute
    <2>1. VerdictInv' /\ (VerdictCalm => VerdictCalm')
      BY <1>1, <1>10, PolicyRead, ReachRead, PrintsRead, InsideRead, RowsRead, StoryRead,
         SeriesRead, ComputeRead
    <2>2. UNCHANGED <<rollupVars, late>>
      BY <1>10 DEF ReadPolicy, ReadReach, ReadPrints, ReadInside, ReadRows, ReadStory,
                   ReadSeries, Compute, Fresh, Reading
    <2> QED
      BY <2>1, <2>2, OthersServed DEF rollupVars
  <1> QED
    BY <1>2, <1>3, <1>4, <1>5, <1>6, <1>7, <1>8, <1>9, <1>10 DEF VerdictNext

LEMMA NextServed == ServedInv /\ [Next]_allVars => ServedInv'
  <1> SUFFICES ASSUME ServedInv, [Next]_allVars
               PROVE  ServedInv'
    OBVIOUS
  <1>1. CASE VerdictNext
    BY <1>1, VerdictServed
  <1>2. ASSUME UNCHANGED coreVars
        PROVE  ServedInv'
    <2>1. VerdictInv' /\ (VerdictCalm => VerdictCalm')
      BY <1>2 DEF ServedInv, VerdictInv, MakeInv, VerdictCalm, coreVars
    <2> QED
      BY <1>2, <2>1, OthersServed DEF coreVars
  <1>3. CASE ReadingNext
    BY <1>2, <1>3, ReadingOthers
  <1>4. CASE RestartApi
    <2>1. /\ rows' = rows /\ cycles' = cycles /\ price' = price /\ table' = table
          /\ maker' = maker /\ ask' = Idle /\ body' = body
          /\ UNCHANGED <<scope, cycles, rows, fill, late>>
      BY <1>4 DEF RestartApi
    <2>2. VerdictCalm => VerdictCalm /\ BodyCalm(rows, body')
      BY <2>1 DEF VerdictCalm
    <2>3. VerdictInv' /\ (VerdictCalm => VerdictCalm')
      BY <2>1, <2>2, AskIdle DEF ServedInv
    <2> QED
      BY <2>1, <2>3, OthersServed
  <1>5. CASE UNCHANGED allVars
    BY <1>2, <1>5 DEF allVars, vars, rollupVars, verdictVars, coreVars
  <1> QED
    BY <1>1, <1>3, <1>4, <1>5 DEF Next

LEMMA ServedAlways == Spec => []ServedInv
  BY InitServed, NextServed, PTL DEF Spec

-----------------------------------------------------------------------------
(* What it says of every behaviour                                            *)

LEMMA ServedTypes == ServedInv => TypeInvariant
  <1> SUFFICES ASSUME ServedInv
               PROVE  TypeInvariant
    OBVIOUS
  <1>1. CoreInv /\ VerdictInv
    BY DEF ServedInv
  <1>2. scope \in Scopes /\ cycles \subseteq scope.cycles /\ late \in BOOLEAN
    BY <1>1 DEF CoreInv, CyclesOk
  <1>3. \A h \in DOMAIN rows : Floor(h) = h /\ h < Floor(Max(Instants))
                             /\ rows[h].total \in 1..Direct(h, h + PerHour)
    BY <1>1, LimitBy, BucketIs DEF CoreInv, RowsOk, Counts
  <1>4. fill # Idle => fill.lo <= fill.next /\ fill.next <= fill.hi /\ fill.hi <= Limit
    BY <1>1, LimitBy DEF CoreInv, FillOk, FillRanges
  <1>5. price \in Prices
    BY <1>1, PricesAre
  <1>6. table # <<>> => DOMAIN table = Min(DOMAIN table)..Max(DOMAIN table)
    <2> SUFFICES ASSUME table # <<>>
                 PROVE  DOMAIN table = Min(DOMAIN table)..Max(DOMAIN table)
      OBVIOUS
    <2>1. PICK lo, hi, p : TableIs(rows, table, price, lo, hi, p)
      BY <1>1 DEF VerdictInv, MakeInv, TableOk
    <2>2. hi \in DOMAIN table
      BY <2>1, BeforeIs DEF TableIs, GridOf, Known
    <2> QED
      BY <1>1, <2>2, TableOne
  <1> QED
    BY <1>2, <1>3, <1>4, <1>5, <1>6 DEF TypeInvariant

\* cycle_rollup_hour holds whole hours before the one of the last cycle, each with
\* a cycle and never more than cycles has; a fill stays within those hours;
\* decision_rollup_hour is the gapless grid of one run of the policy, whatever the
\* cycles, their order, and the fills that failed.
THEOREM TypeCorrect == Spec => []TypeInvariant
  BY ServedAlways, ServedTypes, PTL

LEMMA ServedAnswers == ServedInv => ServedVerdict
  <1> SUFFICES ASSUME ServedInv, body # NoBody, ~late, ~body.torn
               PROVE  \E p \in body.prices, hi \in body.hi..Max(Covered) :
                        body.says = Computed(Series(body.lo, hi), p, body.at, hi)
    BY DEF ServedVerdict
  <1>1. BodyCalm(rows, body)
    BY DEF ServedInv, VerdictCalm
  <1>2. body.hi \in Int /\ \E p \in body.prices, hi \in Int :
           body.hi <= hi /\ Known(rows, body.lo, hi) /\ Says(rows, body, hi, p)
    BY <1>1 DEF BodyCalm
  <1>3. PICK p \in body.prices, hi \in Int :
           body.hi <= hi /\ Known(rows, body.lo, hi) /\ Says(rows, body, hi, p)
    BY <1>2
  <1>4. CyclesOk(scope, cycles) /\ HasNewest(cycles) /\ RowsOk(cycles, rows)
    BY DEF ServedInv, CoreInv
  <1>5. CoveredOf(rows) # {}
    BY <1>3 DEF Known, CoveredOf
  <1>6. /\ Known(rows, Min(CoveredOf(rows)), Max(CoveredOf(rows)))
        /\ hi <= Max(CoveredOf(rows))
    BY <1>3, <1>4, <1>5, CoveredIs
  <1>7. hi \in body.hi..Max(Covered)
    BY <1>2, <1>3, <1>6 DEF Known, Covered, CoveredOf
  <1>8. body.says = Computed(Series(body.lo, hi), p, body.at, hi)
    BY <1>3, SeriesIs DEF Says
  <1> QED
    BY <1>7, <1>8

\* /valves/decision and its timeline answer what decision.py computes from the
\* buckets under a policy in force during the request, from the table or not, beside
\* fills, changes of policy and other requests; but after late cycles, and when the
\* table was committed between the two statements of the answer.
THEOREM ServedCorrect == Spec => []ServedVerdict
  BY ServedAlways, ServedAnswers, PTL

\* When the healthy window is behind h, nothing after h grades an hour up to h.
LEMMA GradedCut ==
  ASSUME NEW s, DOMAIN s \subseteq Int, NEW h \in Int, NEW p,
         \A g \in SaneHours(s, p) : g <= h
  PROVE  Graded(Cut(s, h), p) = Cut(Graded(s, p), h)
  <1> DEFINE c == Cut(s, h)
             w == SaneHours(s, p)
             times(x) == [i \in Sane(x, w) |-> MeanFillingTime(x[i])]
             rates(x) == [i \in Sane(x, w) |-> QualityRate(x[i])]
  <1>1. DOMAIN c = {g \in DOMAIN s : g <= h} /\ \A g \in DOMAIN c : c[g] = s[g]
    BY CutHours
  <1>2. w \subseteq DOMAIN s
    BY DEF SaneHours
  <1> HIDE DEF c
  <1>3. SaneHours(c, p) = w
    BY <1>1 DEF SaneHours
  <1>4. Sane(c, w) = Sane(s, w) /\ \A i \in Sane(s, w) : c[i] = s[i]
    BY <1>1, <1>2 DEF Sane
  <1>5. times(c) = times(s) /\ rates(c) = rates(s)
    BY <1>4
  <1> HIDE DEF w
  <1>6. \A x : Grade(x, w) = [i \in DOMAIN x |-> Mark(x[i], times(x), rates(x))]
    BY DEF Grade
  <1> HIDE DEF times, rates
  <1>7. \A i \in DOMAIN c : Mark(c[i], times(c), rates(c)) = Mark(s[i], times(s), rates(s))
    BY <1>1, <1>5
  <1>8. Grade(c, w) = [i \in DOMAIN c |-> Mark(s[i], times(s), rates(s))]
    BY <1>6, <1>7
  <1>9. /\ DOMAIN Grade(s, w) = DOMAIN s
        /\ \A i \in DOMAIN s : Grade(s, w)[i] = Mark(s[i], times(s), rates(s))
    BY <1>6
  <1>10. Cut(Grade(s, w), h) = [i \in DOMAIN c |-> Grade(s, w)[i]]
    BY <1>1, <1>9 DEF Cut
  <1>11. \A i \in DOMAIN c : Grade(s, w)[i] = Mark(s[i], times(s), rates(s))
    BY <1>1, <1>9
  <1>12. Grade(c, w) = Cut(Grade(s, w), h)
    BY <1>8, <1>10, <1>11
  <1> QED
    BY <1>3, <1>12 DEF Graded, c, w

LEMMA CoreOneVerdict == CoreInv => OneHourOneVerdict
  <1> DEFINE lo == Min(Covered)
             hi == Max(Covered)
             s == Series(lo, hi)
             all == Walk(Graded(s, price), price, hi)
  <1> SUFFICES ASSUME CoreInv, Covered # {}, NEW h \in DOMAIN all,
                      \A g \in SaneHours(s, price) : g <= h
               PROVE  all[h] = Walk(Graded(Series(lo, h), price), price, h)[h]
    BY DEF OneHourOneVerdict
  <1>1. CyclesOk(scope, cycles) /\ HasNewest(cycles) /\ RowsOk(cycles, rows)
    BY DEF CoreInv
  <1>2. Known(rows, lo, hi)
    BY <1>1, CoveredIs DEF Covered, CoveredOf
  <1> HIDE DEF lo, hi
  <1>3. lo \in Int /\ hi \in Int /\ lo <= hi
    BY <1>2 DEF Known
  <1>4. s = SeriesOf(rows, lo, hi) /\ DOMAIN s = lo..hi
    BY SeriesIs DEF SeriesOf
  <1>5. \A k : Series(lo, k) = SeriesOf(rows, lo, k)
    BY SeriesIs
  <1> HIDE DEF s
  <1>6. DOMAIN Graded(s, price) = lo..hi /\ DOMAIN all = (lo + Before)..hi
    <2>1. DOMAIN Graded(s, price) = lo..hi
      BY <1>4, GradedHours
    <2> QED
      BY <1>3, <2>1, WalkHours
  <1>7. h \in Int /\ lo <= h /\ h <= hi /\ h \in (lo + Before)..h
    BY <1>3, <1>6, BeforeIs
  <1>8. Cut(s, h) = Series(lo, h)
    <2>1. {g \in lo..hi : g <= h} = lo..h
      BY <1>3, <1>7
    <2>2. Cut(s, h) = [g \in lo..h |-> s[g]]
      BY <1>4, <2>1 DEF Cut
    <2>3. \A g \in lo..h : s[g] = BucketAt(rows, g * PerHour)
      <3>1. lo..h \subseteq lo..hi
        BY <1>3, <1>7
      <3> QED
        BY <1>4, <3>1 DEF SeriesOf
    <2>4. Series(lo, h) = [g \in lo..h |-> BucketAt(rows, g * PerHour)]
      BY <1>5 DEF SeriesOf
    <2> QED
      BY <2>2, <2>3, <2>4
  <1>9. Graded(Series(lo, h), price) = Cut(Graded(s, price), h)
    <2>1. DOMAIN s \subseteq Int
      BY <1>4
    <2> QED
      BY <1>7, <1>8, <2>1, GradedCut
  <1>10. \A g \in (lo + Before)..h : all[g] = Walk(Cut(Graded(s, price), h), price, h)[g]
    <2> DEFINE t == Graded(s, price)
    <2>1. DOMAIN t = lo..hi
      BY <1>6
    <2> HIDE DEF t
    <2>2. \A g \in (lo + Before)..h : Walk(t, price, hi)[g] = Walk(Cut(t, h), price, h)[g]
      BY <1>3, <1>7, <2>1, WalkCut
    <2> QED
      BY <2>2 DEF t
  <1> HIDE DEF all
  <1> QED
    BY <1>7, <1>9, <1>10

\* Once the healthy window is behind, an hour has one verdict: what decision.py said of
\* it when it was the last hour is what the walk over the whole run says of it, for any
\* buckets, price, window and thresholds.
THEOREM OneVerdictCorrect == Spec => []OneHourOneVerdict
  <1>1. ServedInv => OneHourOneVerdict
    BY CoreOneVerdict DEF ServedInv
  <1> QED
    BY <1>1, ServedAlways, PTL
=============================================================================
