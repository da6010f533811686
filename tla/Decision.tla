------------------------------ MODULE Decision ------------------------------
(***************************************************************************)
(* The policy of pipeline/decision.py as pure definitions: from the hourly *)
(* buckets of a valve to the verdict of every hour, the call of the crew   *)
(* and its arrival.                                                        *)
(*                                                                         *)
(* A series s is a function from an interval of hours to buckets           *)
(* [total, slow, bad]; graded, to [useful, beyond, out], what the healthy  *)
(* window of the whole series makes of each hour.  Abstractions: a cycle   *)
(* fills in no time, a slow one in one unit; an estimate of the collapse   *)
(* needs MinPoints hours of regime and is worth Jump euro an hour, an hour *)
(* out of band Scrap euro.  Money and probabilities are integers, a mean   *)
(* is in thousandths; the price is the parameter of the policy that its    *)
(* fingerprint stands for.                                                 *)
(***************************************************************************)
EXTENDS Integers, FiniteSetsExt

CONSTANTS
  MinTot,      \* MIN_TOT: cycles of a useful bucket
  Sigmas,      \* K_SIGMA: deviations between the mean and the threshold
  Span,        \* the 24 hours of the trailing window
  Before,      \* ORE_PRIMA_DI_PARLARE
  RegimeMin,   \* REGIME_MIN_H
  MinPoints,   \* buckets an estimate needs
  K,           \* K_CONFERMA
  L,           \* L_H
  Scrap,       \* euro of an hour out of band
  Jump         \* euro the risk of collapse adds

ASSUME DecisionAssumption ==
  /\ {MinTot, Sigmas, Span, Before, K, L} \subseteq Nat \ {0}
  /\ {RegimeMin, MinPoints, Scrap, Jump} \subseteq Nat

Never == -1

\* round(part / total, 3), in thousandths, of a bucket with cycles.
Milli(part, total) == (2000 * part + total) \div (2 * total)
MeanFillingTime(bucket) == Milli(bucket.slow, bucket.total)
QualityRate(bucket) == Milli(bucket.total - bucket.bad, bucket.total)

\* mu_sigma: the mean of the n values of base is Total / n and their variance
\* Spread / n^2.
Total(base) == MapThenSumSet(LAMBDA h : base[h], DOMAIN base)
Spread(base) ==
  LET n == Cardinality(DOMAIN base)
  IN n * MapThenSumSet(LAMBDA h : base[h] * base[h], DOMAIN base) - Total(base) * Total(base)
\* n times the distance of x from the mean.
Distance(base, x) == Cardinality(DOMAIN base) * x - Total(base)
\* oltre: more than Sigmas deviations away; nothing is when there is no deviation.
Far(base, distance) ==
  /\ Spread(base) > 0 /\ distance > 0
  /\ distance * distance > Sigmas * Sigmas * Spread(base)

\* Mutant: the healthy window is forgotten.
EveryUseful(s, window) == {h \in DOMAIN s : s[h].total >= MinTot}
\* baseline_da_serie: the useful hours of the healthy window, of the whole series.
Sane(s, window) == {h \in DOMAIN s \cap window : s[h].total >= MinTot}

\* A bucket against the times and the rates of the healthy window.
Mark(bucket, times, rates) ==
  LET useful == bucket.total >= MinTot
  IN [useful |-> useful,
      beyond |-> useful /\ Far(times, Distance(times, MeanFillingTime(bucket))),
      out |-> useful /\ Far(rates, -Distance(rates, QualityRate(bucket)))]
Grade(s, window) ==
  LET times == [h \in Sane(s, window) |-> MeanFillingTime(s[h])]
      rates == [h \in Sane(s, window) |-> QualityRate(s[h])]
  IN [h \in DOMAIN s |-> Mark(s[h], times, rates)]

----------------------------------------------------------------------------
(* From here on s is a graded series *)

Useful(s, h) == s[h].useful
Beyond(s, h) == s[h].beyond
OutOfBand(s, h) == s[h].out
UsefulHours(s) == {h \in DOMAIN s : Useful(s, h)}

\* Mutant: nothing is cut off.
Uncut(s, now) == s

\* taglia: the series as it is seen at now.
Cut(s, now) == [h \in {g \in DOMAIN s : g <= now} |-> s[h]]

\* inizio_ultimo_regime: the hours after the last one inside the threshold, when
\* they last.
Lasting(after) ==
  IF after = {} \/ Max(after) - Min(after) < RegimeMin THEN Never ELSE Min(after)
Regime(s) ==
  Lasting({h \in UsefulHours(s) : \A g \in UsefulHours(s) : g >= h => Beyond(s, g)})

\* segnali_per_ora, _segnale_a: the regime as known at now.
Signal(s, now) == Regime(Cut(s, now))

\* The first signal that a useful hour knew of.
FirstSignal(s) ==
  LET known == {h \in UsefulHours(s) : Signal(s, h) # Never}
  IN IF known = {} THEN Never ELSE Signal(s, Min(known))

\* scansione_stime, stima_crollo: from the first signal on, an estimate at now
\* of the hours since the signal known at now.
EstimatedSince(s, first, signal, now) ==
  /\ Never \notin {first, signal} /\ now >= first + Before
  /\ Cardinality({h \in UsefulHours(s) : signal <= h /\ h <= now}) >= MinPoints
Estimated(s, now) == EstimatedSince(s, FirstSignal(s), Signal(s, now), now)

\* The trailing window of an hour, (now - 24 h, now].
Trailing(s, now) == {h \in UsefulHours(s) : now - Span < h /\ h <= now}

\* verdetto: what an hour of waiting costs (D) against what it saves (R).
Weigh(scrapped, estimated, r) ==
  CASE scrapped + (IF estimated THEN Jump ELSE 0) > r -> "intervieni"
    [] scrapped + (IF estimated THEN Jump ELSE 0) <= r /\ (scrapped > 0 \/ estimated) ->
         "continua degradata"
    [] OTHER -> "continua"
Judge(s, price, now) ==
  Weigh(Scrap * Cardinality({h \in Trailing(s, now) : OutOfBand(s, h)}),
        Estimated(s, now), price * Cardinality(Trailing(s, now)))

\* griglia: the hours that get a verdict, up to now.
Grid(s, now) ==
  IF s = <<>> THEN {}
  ELSE {h \in DOMAIN s : h >= Min(DOMAIN s) + Before /\ h <= now}

\* One hour h of the walk after p, whose own verdict is v; works: it has cycles.
Row(p, h, v, works, replaced, calls) ==
  LET act == IF replaced THEN "continua" ELSE v
  IN [act |-> act, replaced |-> replaced,
      row |-> IF replaced THEN p.row ELSE IF v = "intervieni" THEN p.row + 1 ELSE 0,
      call |-> IF calls THEN h ELSE p.call,
      arrival |-> IF calls THEN h + L ELSE p.arrival,
      works |-> works,
      worked |-> IF works THEN act ELSE p.worked,
      shown |-> IF works \/ p.worked = "" THEN act ELSE p.worked]
Replaced(p, h) == p.arrival # Never /\ h >= p.arrival
Calls(p, h, v) ==
  ~Replaced(p, h) /\ v = "intervieni" /\ p.row + 1 >= K /\ p.call = Never
Step(p, h, v, works) == Row(p, h, v, works, Replaced(p, h), Calls(p, h, v))

\* camminata: the verdicts of the hours of the grid up to now.
NewValve == [row |-> 0, call |-> Never, arrival |-> Never, worked |-> ""]
WalkOver(s, price, hours) ==
  LET w[h \in hours] ==
        Step(IF h - 1 \in hours THEN w[h - 1] ELSE NewValve, h,
             Judge(s, price, h), Useful(s, h))
  IN [h \in hours |-> w[h]]
Walk(s, price, now) == WalkOver(s, price, Grid(s, now))

\* percorso: the verdict of one hour and the last Span rows before it.
Body(walk, h) ==
  [here |-> walk[h],
   story |-> [g \in {k \in DOMAIN walk : h - Span < k /\ k <= h} |->
                [shown |-> walk[g].shown, works |-> walk[g].works]]]

\* linea: the verdicts of all hours and the calls.
Line(walk) ==
  [acts |-> [h \in DOMAIN walk |-> walk[h].act],
   calls |-> {[at |-> h, arrival |-> walk[h].arrival] :
                h \in {g \in DOMAIN walk : walk[g].call = g}}]
=============================================================================
