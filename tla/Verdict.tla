------------------------------- MODULE Verdict -------------------------------
(***************************************************************************)
(* decision_rollup_hour and the routes that serve the verdict: the filling *)
(* of the table from the hourly buckets (pipeline/decision_rollup.py) and  *)
(* /valves/decision with its timeline (pipeline/api.py), which answer from *)
(* the table when it is fresh and otherwise compute, beside a rollup that  *)
(* is filled meanwhile (module Rollup) and a policy that changes.          *)
(*                                                                         *)
(* Hours are counted; hour i begins at tick i * PerHour.  The fingerprint  *)
(* of the policy (constants and healthy window) is its price.              *)
(***************************************************************************)
EXTENDS Rollup, Decision

CONSTANTS
  Prices,      \* the policies
  Healthy      \* baseline_window of a policy, in ticks

ASSUME VerdictAssumption ==
  /\ Prices # {} /\ Prices \subseteq Nat
  /\ \A p \in Prices : Healthy[p] \in Int \X Int

VARIABLES
  price,    \* the policy in force
  table,    \* decision_rollup_hour: hour -> row with its print
  maker,    \* the filling of the table
  ask,      \* the verdict request under way
  late,     \* history: a cycle came for an hour already summarised, or before it
  body      \* what the last verdict request answered

verdictVars == <<price, table, maker, ask, late, body>>
vars == <<rollupVars, verdictVars>>

TheLine == -1
NoBody == [lo |-> Never]

VerdictInit ==
  /\ Init
  /\ price = Min(Prices)
  /\ table = <<>> /\ maker = Idle /\ ask = Idle
  /\ late = FALSE /\ body = NoBody

\* _copertura_riepilogo, in hours.
Covered == {h \div PerHour : h \in DOMAIN rows}

\* _serie_per_decisione: the buckets of the hours lo..hi, zero where there is none.
Series(lo, hi) ==
  [i \in lo..hi |-> IF i * PerHour \in DOMAIN rows THEN rows[i * PerHour]
                    ELSE [total |-> 0, slow |-> 0, bad |-> 0]]
\* A valve without one useful bucket is left out.
Active(s) == \E i \in DOMAIN s : s[i].total >= MinTot

\* The hours of s that begin in the healthy window of p,
SaneHours(s, p) ==
  {i \in DOMAIN s : Healthy[p][1] <= i * PerHour /\ i * PerHour < Healthy[p][2]}
\* and s graded by them.
Graded(s, p) == Grade(s, SaneHours(s, p))

----------------------------------------------------------------------------
(* DecisionRollup.fill *)

MakeBegin ==
  /\ maker = Idle /\ Covered # {} /\ scope.hours # {}
  /\ maker' = [pc |-> "series", lo |-> Min(Covered), hi |-> Max(Covered),
               series |-> <<>>, rows |-> <<>>]
  /\ UNCHANGED <<rollupVars, price, table, ask, late, body>>

MakeSeries ==
  /\ maker # Idle /\ maker.pc = "series"
  /\ LET s == Series(maker.lo, maker.hi)
     IN maker' = IF Active(s) THEN [maker EXCEPT !.pc = "window", !.series = s] ELSE Idle
  /\ UNCHANGED <<rollupVars, price, table, ask, late, body>>

\* righe_della_corsa: every row with the fingerprint.
Printed(walk, p) == [h \in DOMAIN walk |-> [row |-> walk[h], print |-> p]]

\* The healthy window is read, the whole run computed; an empty grid is an error.
MakeRows ==
  /\ maker # Idle /\ maker.pc = "window"
  /\ LET new == Printed(Walk(Graded(maker.series, price), price, maker.hi), price)
     IN maker' = IF new = <<>> THEN Idle
                 ELSE [maker EXCEPT !.pc = "write", !.rows = new, !.series = <<>>]
  /\ UNCHANGED <<rollupVars, price, table, ask, late, body>>

\* One transaction of upserts; no row is ever deleted.
MakeCommit ==
  /\ maker # Idle /\ maker.pc = "write"
  /\ table' = Upsert(table, maker.rows)
  /\ maker' = Idle
  /\ ask' = IF ask # Idle /\ ask.pc = "story" THEN [ask EXCEPT !.torn = TRUE] ELSE ask
  /\ UNCHANGED <<rollupVars, price, late, body>>

\* The fill fails or dies before its commit.
MakeAbort ==
  /\ maker # Idle
  /\ maker' = Idle
  /\ UNCHANGED <<rollupVars, price, table, ask, late, body>>

\* Another healthy window, or other constants.
ChangePolicy(p) ==
  /\ p > price /\ p \in scope.prices
  /\ price' = p
  /\ ask' = IF ask = Idle THEN ask ELSE [ask EXCEPT !.prices = @ \cup {p}]
  /\ UNCHANGED <<rollupVars, table, maker, late, body>>

----------------------------------------------------------------------------
(* /valves/decision and /valves/decision/timeline *)

\* An hour outside the coverage gets no verdict; TheLine asks for all of them.
AskVerdict(at) ==
  /\ ask = Idle /\ asked < scope.requests
  /\ asked' = asked + 1 /\ body' = NoBody
  /\ Covered # {} /\ (at # TheLine => Min(Covered) <= at /\ at <= Max(Covered))
  /\ ask' = [pc |-> "window", at |-> at, lo |-> Min(Covered), hi |-> Max(Covered),
             print |-> 0, here |-> <<>>, series |-> <<>>,
             prices |-> {price}, torn |-> FALSE]
  /\ UNCHANGED <<scope, cycles, rows, fill, req, memo, behind, answers, fills,
                 price, table, maker, late>>

Reading(pc) ==
  /\ ask # Idle /\ ask.pc = pc
  /\ UNCHANGED <<rollupVars, price, table, maker, late>>

ReadPolicy ==
  /\ Reading("window")
  /\ ask' = [ask EXCEPT !.pc = "reach", !.print = price]
  /\ UNCHANGED body

\* fresco: the table reaches the last bucket,
Reaches == table # <<>> /\ Max(DOMAIN table) = ask.hi

\* Mutant: the reach will do.
AnyPrint == table # <<>>
\* and all of it is of the policy in force.
OnePrint == {table[h].print : h \in DOMAIN table} = {ask.print}

Fresh(pc, test, next) ==
  /\ Reading(pc)
  /\ ask' = [ask EXCEPT !.pc = IF test THEN next ELSE "series"]
  /\ UNCHANGED body

ReadReach == Fresh("reach", Reaches, "prints")
ReadPrints == Fresh("prints", OnePrint, IF ask.at = TheLine THEN "rows" ELSE "inside")
\* Before the first hours of the table there is no row: compute.
ReadInside ==
  Fresh("inside", table # <<>> /\ ask.at \in Min(DOMAIN table)..Max(DOMAIN table), "rows")

Rows == [h \in DOMAIN table |-> table[h].row]

\* decisione, linea: the first statement,
ReadRows ==
  /\ Reading("rows")
  /\ ask' = [ask EXCEPT !.pc = "story",
                        !.here = IF ask.at = TheLine THEN Line(Rows).acts
                                 ELSE Body(Rows, ask.at).here]
  /\ UNCHANGED body

\* and the second.
ReadStory ==
  /\ Reading("story")
  /\ body' = [at |-> ask.at, lo |-> ask.lo, hi |-> ask.hi, prices |-> ask.prices,
              torn |-> ask.torn,
              says |-> IF ask.at = TheLine
                       THEN [acts |-> ask.here, calls |-> Line(Rows).calls]
                       ELSE [here |-> ask.here, story |-> Body(Rows, ask.at).story]]
  /\ ask' = Idle

\* What decision.decisione and decision.linea compute from a series.
NoData == [here |-> <<>>, story |-> <<>>]
Computed(series, p, at, hi) ==
  LET s == Graded(series, p)
  IN CASE at = TheLine -> Line(Walk(s, p, hi))
       [] at # TheLine /\ at \in Grid(s, at) -> Body(Walk(s, p, at), at)
       [] at # TheLine /\ at \notin Grid(s, at) -> NoData

\* Not fresh: the series is read; without an active valve there is no verdict.
ReadSeries ==
  /\ Reading("series")
  /\ LET s == Series(ask.lo, ask.hi)
     IN ask' = IF Active(s) THEN [ask EXCEPT !.pc = "compute", !.series = s] ELSE Idle
  /\ UNCHANGED body

Compute ==
  /\ Reading("compute")
  /\ body' = [at |-> ask.at, lo |-> ask.lo, hi |-> ask.hi, prices |-> ask.prices,
              torn |-> FALSE, says |-> Computed(ask.series, price, ask.at, ask.hi)]
  /\ ask' = Idle

----------------------------------------------------------------------------

RollupStep ==
  /\ RollupNext
  /\ late' = (late \/ \E c \in cycles' \ cycles :
                        Late(c) /\ (rows # <<>> \/ fill # Idle))
  /\ UNCHANGED <<price, table, maker, ask, body>>

VerdictNext ==
  \/ RollupStep
  \/ MakeBegin \/ MakeSeries \/ MakeRows \/ MakeCommit \/ MakeAbort
  \/ \E p \in Prices : ChangePolicy(p)
  \/ \E at \in scope.hours : AskVerdict(at)
  \/ ReadPolicy \/ ReadReach \/ ReadPrints \/ ReadInside
  \/ ReadRows \/ ReadStory \/ ReadSeries \/ Compute

----------------------------------------------------------------------------
(* Properties *)

\* Every variable keeps its shape; buckets are of whole hours before the one of
\* the last cycle, and the table has the hours of its grid without a gap.
TypeInvariant ==
  /\ scope \in Scopes /\ cycles \subseteq scope.cycles
  /\ \A h \in DOMAIN rows : Floor(h) = h /\ h < Floor(Max(Instants))
                          /\ rows[h].total \in 1..Direct(h, h + PerHour)
  /\ fill # Idle => fill.lo <= fill.next /\ fill.next <= fill.hi /\ fill.hi <= Limit
  /\ price \in Prices /\ late \in BOOLEAN
  /\ table # <<>> => DOMAIN table = Min(DOMAIN table)..Max(DOMAIN table)

\* A verdict, served from the table or computed, is the one that decision.py
\* computes from the buckets under a policy that was in force during the
\* request, the timeline up to an hour the buckets reached by its answer,
\* whatever fills, policies and requests did meanwhile; but after late cycles, to
\* whose buckets freshness is blind, and when the table was committed between the
\* two statements of the answer.
ServedVerdict ==
  (body # NoBody /\ ~late /\ ~body.torn) =>
    \E p \in body.prices, hi \in body.hi..Max(Covered) :
      body.says = Computed(Series(body.lo, hi), p, body.at, hi)

\* Once the healthy window is behind, an hour has one verdict: what the walk over
\* the whole run says of it, and what was said when it was the last hour, are the
\* same row, whatever is summarised after it.  Inside the window the verdict of an
\* hour may still change: mu and sigma are of the whole window, at every hour.
OneHourOneVerdict ==
  (Covered # {} /\ Active(Series(Min(Covered), Max(Covered)))) =>
    LET lo == Min(Covered)
        s == Series(lo, Max(Covered))
        all == Walk(Graded(s, price), price, Max(Covered))
    IN \A h \in DOMAIN all :
         (\A g \in SaneHours(s, price) : g <= h) =>
           all[h] = Walk(Graded(Series(lo, h), price), price, h)[h]
=============================================================================
