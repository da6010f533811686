------------------------------- MODULE Rollup -------------------------------
(***************************************************************************)
(* cycle_rollup_hour: its filling (CycleRollup.fill) and the OEE counts    *)
(* that read it (_CycleCountsRollup, _memoria_risposta of pipeline/api.py),*)
(* against cycles that keep arriving, late ones included.                  *)
(*                                                                         *)
(* An instant is a tick, an hour is named by its first tick.  Every SQL    *)
(* statement has a snapshot of its own (READ COMMITTED), so the statements *)
(* of a request or of a fill are steps of their own.                       *)
(*                                                                         *)
(* Abstractions.  One run, one valve.  Of the counts a statement reads     *)
(* side by side the OEE keeps the total.                                   *)
(***************************************************************************)
EXTENDS Integers, Sequences, FiniteSetsExt

LOCAL INSTANCE Functions

CONSTANTS
  PerHour,     \* ticks of an hour
  Width,       \* interval of the OEE window
  SeriesStep,  \* SERIES_STEP
  SeriesSpan,  \* SERIES_SPAN_MAX
  MaxPoints,   \* SERIES_MAX_POINTS
  Scopes       \* bound: what may arrive, be asked and be filled

Kind == {"good", "slow", "bad"}

\* cycles: the cycles that may arrive; max, fills, requests: how many there are;
\* ats: ends of OEE windows asked for; hours: what verdicts are asked of, none where
\* there is no decision table; views: what the other routes are asked; prices: the
\* policies.
ASSUME RollupAssumption ==
  /\ {PerHour, Width, SeriesStep, MaxPoints} \subseteq Nat \ {0} /\ SeriesSpan \in Nat
  /\ \A s \in Scopes :
       /\ {s.max, s.fills, s.requests} \subseteq Nat
       /\ s.ats \subseteq Int /\ s.hours \subseteq Int
       /\ \A c \in s.cycles : c.ts \in Nat /\ c.kind \in Kind

VARIABLES
  scope,    \* which of Scopes
  cycles,   \* table cycles
  rows,     \* table cycle_rollup_hour: hour -> bucket
  fill,     \* the fill under way
  req,      \* the OEE request under way
  memo,     \* _RISPOSTE: the entries that can still be found
  behind,   \* history: hours that got a late cycle after their bucket was read
  answers,  \* what the last request answered
  fills, asked  \* bounds

rollupVars == <<scope, cycles, rows, fill, req, memo, behind, answers, fills, asked>>

Idle == [pc |-> "idle"]

Floor(t) == (t \div PerHour) * PerHour
Ceil(t) == IF Floor(t) = t THEN t ELSE Floor(t) + PerHour

Instants == {c.ts : c \in cycles}
In(a, b) == {c \in cycles : a <= c.ts /\ c.ts < b}
Tally(set, a, b) == Cardinality({c \in set : a <= c.ts /\ c.ts < b})
\* COUNT(*) over [a, b).
Direct(a, b) == Cardinality(In(a, b))

\* GROUP BY of one hour: no cycles, no row.
Bucket(h) ==
  [total |-> Direct(h, h + PerHour),
   slow  |-> Cardinality({c \in In(h, h + PerHour) : c.kind = "slow"}),
   bad   |-> Cardinality({c \in In(h, h + PerHour) : c.kind = "bad"})]

Init ==
  /\ scope \in Scopes
  /\ cycles = {} /\ rows = <<>>
  /\ fill = Idle /\ req = Idle /\ memo = {}
  /\ behind = {} /\ answers = {}
  /\ fills = 0 /\ asked = 0

----------------------------------------------------------------------------
(* Cycles arrive, in any order *)

\* The hour's bucket is in the table, or the fill under way has read it.
Summarised(h) == h \in DOMAIN rows \/ (fill # Idle /\ fill.lo <= h /\ h < fill.next)

\* An hour between two buckets counts as empty; so does one after an hour read.
Counted(h) ==
  \/ Summarised(h)
  \/ rows # <<>> /\ Min(DOMAIN rows) <= h /\ h <= Max(DOMAIN rows)

\* A cycle of an hour before the one of the newest cycle.
Late(c) == cycles # {} /\ Floor(c.ts) < Floor(Max(Instants))

Arrive(c) ==
  /\ Cardinality(cycles) < scope.max
  /\ cycles' = cycles \cup {c}
  /\ behind' = IF Late(c) /\ Counted(Floor(c.ts)) THEN behind \cup {Floor(c.ts)} ELSE behind
  /\ fill' = IF Late(c) /\ fill # Idle /\ fill.lo <= c.ts /\ c.ts < fill.next
             THEN [fill EXCEPT !.missed = @ \cup {Floor(c.ts)}] ELSE fill
  /\ memo' = {[e EXCEPT !.touched = @ \/ c.ts <= e.last] : e \in memo}
  /\ req' = IF req = Idle THEN req
            ELSE [req EXCEPT !.touched = @ \/ c.ts <= req.last,
                             !.spoilt = @ \cup (behind' \ behind)]
  /\ UNCHANGED <<scope, rows, answers, fills, asked>>

----------------------------------------------------------------------------
(* CycleRollup.fill *)

\* Mutant: the hour under way is taken for complete.
LimitAfter == Floor(Max(Instants)) + PerHour
\* The hours before the one of the last cycle are complete.
Limit == Floor(Max(Instants))

FillBegin(since_last) ==
  /\ fill = Idle /\ fills < scope.fills /\ cycles # {}
  /\ LET lo == IF since_last /\ rows # <<>> THEN Max(DOMAIN rows)
               ELSE Floor(Min(Instants))
     IN IF lo < Limit
        THEN fill' = [lo |-> lo, hi |-> Limit, next |-> lo, got |-> <<>>, missed |-> {}]
        ELSE UNCHANGED fill
  /\ fills' = fills + 1
  /\ UNCHANGED <<scope, cycles, rows, req, memo, behind, answers, asked>>

\* One INSERT ... SELECT of a piece, an hour here, with a snapshot of its own.
FillPiece ==
  /\ fill # Idle /\ fill.next < fill.hi
  /\ fill' = [fill EXCEPT
       !.next = @ + PerHour,
       !.got = IF Bucket(fill.next).total = 0 THEN @
               ELSE [h \in DOMAIN @ \cup {fill.next} |->
                       IF h = fill.next THEN Bucket(h) ELSE @[h]]]
  /\ UNCHANGED <<scope, cycles, rows, req, memo, behind, answers, fills, asked>>

\* ON CONFLICT DO UPDATE, visible at the commit.
Upsert(old, new) ==
  [h \in DOMAIN old \cup DOMAIN new |-> IF h \in DOMAIN new THEN new[h] ELSE old[h]]

FillCommit ==
  /\ fill # Idle /\ fill.next = fill.hi
  /\ rows' = Upsert(rows, fill.got)
  /\ behind' = (behind \ {h \in behind : fill.lo <= h /\ h < fill.hi}) \cup fill.missed
  /\ fill' = Idle
  /\ UNCHANGED <<scope, cycles, req, memo, answers, fills, asked>>

\* A fill that fails or dies: the transaction is rolled back.
FillAbort ==
  /\ fill # Idle
  /\ fill' = Idle
  /\ UNCHANGED <<scope, cycles, rows, req, memo, behind, answers, fills, asked>>

----------------------------------------------------------------------------
(* An OEE request: two windows for each of its instants *)

Windows(ats) ==
  UNION {{<<at - Width, at>>, <<at - 2 * Width, at - Width>>} : at \in ats}

Request(at, pc, keep) ==
  /\ req = Idle /\ asked < scope.requests
  /\ asked' = asked + 1 /\ answers' = {}
  /\ req' = [pc |-> pc, at |-> at, last |-> IF cycles = {} THEN -1 ELSE Max(Instants),
             print |-> <<>>, keep |-> keep, wins |-> Windows({at}),
             cov |-> <<>>, left |-> FALSE, right |-> 0,
             buckets |-> <<>>, edges |-> <<>>, done |-> <<>>,
             had |-> cycles, spoilt |-> behind, touched |-> FALSE, mixed |-> {}]
  /\ UNCHANGED <<scope, cycles, rows, fill, memo, behind, fills>>

\* /machine/oee asks without the memory; so does a series of a run without cycles.
AskOee(at) == Request(at, "coverage", FALSE)
AskSeries(at) ==
  Request(at, IF cycles = {} THEN "plan" ELSE "memory", cycles # {})

\* _impronta_riepilogo: first and last bucket, and how many.
Imprint ==
  IF rows = <<>> THEN <<>>
  ELSE <<Min(DOMAIN rows), Max(DOMAIN rows), Cardinality(DOMAIN rows)>>

\* The key of the memory.
Key(e) == e.at = req.at /\ e.last = req.last /\ e.print = Imprint

Hit(e) ==
  /\ answers' = {[w |-> w, n |-> e.done[w], least |-> Tally(req.had, w[1], w[2]),
                  most |-> Direct(w[1], w[2]),
                  excused |-> e.touched \/ e.excused[w] \/ req.touched] : w \in DOMAIN e.done}
  /\ req' = Idle

LookUp ==
  /\ req # Idle /\ req.pc = "memory"
  /\ \/ \E e \in memo : Key(e) /\ Hit(e)
     \/ /\ \A e \in memo : ~Key(e)
        /\ req' = [req EXCEPT !.pc = "plan", !.print = Imprint]
        /\ UNCHANGED answers
  /\ UNCHANGED <<scope, cycles, rows, fill, memo, behind, fills, asked>>

At(pc) ==
  /\ req # Idle /\ req.pc = pc
  /\ UNCHANGED <<scope, cycles, rows, fill, memo, behind, answers, fills, asked>>

\* _passo_serie: a step that makes the whole span fit.
Stride(span) == SeriesStep * ((span \div SeriesStep + MaxPoints) \div MaxPoints)

\* _first_cycle_ts.
FirstCycle == Min(Instants)

\* The instants back from at, never before the first cycle, which is read here.
PlanSeries ==
  /\ At("plan")
  /\ LET covered == IF cycles = {} THEN 0 ELSE Max({0, req.at - FirstCycle})
         span == Min({SeriesSpan, covered})
         points == Min({span \div Stride(span) + 1, MaxPoints})
     IN req' = [req EXCEPT !.pc = "coverage",
                  !.wins = Windows({req.at - k * Stride(span) : k \in 0..(points - 1)})]

\* _carica_copertura, first statement.  Without a bucket the rollup is inactive:
\* one statement counts all windows (_CycleCountsBucketed).
ReadCoverage ==
  /\ At("coverage")
  /\ req' = IF rows = <<>>
            THEN [req EXCEPT !.pc = "answer",
                             !.done = [w \in req.wins |-> Direct(w[1], w[2])]]
            ELSE [req EXCEPT !.pc = "extent",
                             !.cov = <<Min(DOMAIN rows), Max(DOMAIN rows)>>]

\* Its other statements: no cycle before the first bucket (_sx_illimitato), and
\* the hour from which the run has no cycle (_dx_vuoto_da).
ReadExtent ==
  /\ At("extent")
  /\ req' = [req EXCEPT !.pc = "buckets",
                        !.left = \A t \in Instants : t >= req.cov[1],
                        !.right = Ceil(Max(Instants))]

\* _leggi_secchielli.
ReadBuckets ==
  /\ At("buckets")
  /\ req' = [req EXCEPT !.pc = "edges",
                        !.buckets = [h \in {g \in DOMAIN rows :
                                              /\ Ceil(Min({w[1] : w \in req.wins})) <= g
                                              /\ g < Floor(req.at)} |-> rows[h].total]]

\* Mutant: everything after the last bucket is taken for empty.
AuthoritativeAnyway(from, to) == from >= req.cov[1] \/ req.left

\* _autorevole: the rollup knows the hours from..to.
Authoritative(from, to) ==
  /\ from >= req.cov[1] \/ req.left
  /\ to <= req.cov[2] + PerHour \/ from >= req.right

\* _leggi_bordi: the partial hours of a window, or all of it.
Partial(w) ==
  IF Ceil(w[1]) >= Floor(w[2]) THEN {w}
  ELSE {e \in {<<w[1], Ceil(w[1])>>, <<Floor(w[2]), w[2]>>} : e[1] < e[2]}
Wanted == UNION {Partial(w) : w \in req.wins}

\* _complementari: tails that follow from an hour and its head.
Derived ==
  {e \in Wanted : /\ Floor(e[1]) < e[1] /\ e[2] = Floor(e[1]) + PerHour
                  /\ <<Floor(e[1]), e[1]>> \in Wanted
                  /\ Authoritative(Floor(e[1]), e[2])}

\* _conta_bordi.
ReadEdges ==
  /\ At("edges")
  /\ req' = [req EXCEPT !.pc = "hours",
                        !.edges = [e \in Wanted \ Derived |-> Direct(e[1], e[2])]]

\* _ore_intere: whole hours of the rollup, an absent one has no cycles.
WholeHour(e) == IF Floor(e[1]) \in DOMAIN rows THEN rows[Floor(e[1])].total ELSE 0
Rest(e) == WholeHour(e) - req.edges[<<Floor(e[1]), e[1]>>]

\* Tails of an hour that was taken for empty and has a bucket by now: its head was
\* read before, its bucket counts what came since.
Mixed == {e \in Derived : /\ Floor(e[1]) \in DOMAIN rows
                          /\ Floor(e[1]) < req.cov[1] \/ Floor(e[1]) > req.cov[2]}

\* The tails by difference; a negative one is left to be read.
ReadHours ==
  /\ At("hours")
  /\ LET sure == {e \in Derived : Rest(e) >= 0}
     IN req' = [req EXCEPT !.pc = IF sure = Derived THEN "answer" ELSE "again",
                           !.mixed = Mixed \cap sure,
                           !.edges = [e \in DOMAIN @ \cup sure |->
                                        IF e \in sure THEN Rest(e) ELSE @[e]]]

ReadAgain ==
  /\ At("again")
  /\ req' = [req EXCEPT !.pc = "answer",
                        !.edges = [e \in Wanted |-> IF e \in DOMAIN @ THEN @[e]
                                                    ELSE Direct(e[1], e[2])]]

\* _righe: edges and whole hours, or the cycles themselves.
Count(w) ==
  LET from == Ceil(w[1])
      to == Floor(w[2])
      inside == {h \in DOMAIN req.buckets : from <= h /\ h < to}
      edges == Partial(w) \cap DOMAIN req.edges
  IN IF from < to /\ Authoritative(from, to)
     THEN SumFunctionOnSet(req.buckets, inside)
          + SumFunctionOnSet(req.edges, edges)
     ELSE IF w \in DOMAIN req.edges THEN req.edges[w] ELSE Direct(w[1], w[2])

\* The windows of the payload are counted one by one, from the last instant back.
CountWindow(w) ==
  /\ At("answer") /\ w \in req.wins \ DOMAIN req.done
  /\ \A v \in req.wins \ DOMAIN req.done : v[2] <= w[2]
  /\ req' = [req EXCEPT !.done = [v \in DOMAIN @ \cup {w} |->
                                    IF v = w THEN Count(w) ELSE @[v]]]

\* Late cycles in the window's hours; a tail that mixes two snapshots of its hour;
\* or the last cycle exactly on the hour where its whole hours begin, which
\* _dx_vuoto_da takes for empty.
Excused(w) ==
  \/ \E h \in req.spoilt : Floor(w[1]) <= h /\ h < w[2]
  \/ Partial(w) \cap req.mixed # {}
  \/ Ceil(w[1]) = req.right /\ req.right \in Instants

AnswerOee ==
  /\ req # Idle /\ DOMAIN req.done = req.wins
  /\ answers' = {[w |-> w, n |-> req.done[w], least |-> Tally(req.had, w[1], w[2]),
                  most |-> Direct(w[1], w[2]), excused |-> Excused(w)] : w \in req.wins}
  /\ memo' = IF ~req.keep THEN memo
             ELSE {e \in memo : <<e.at, e.last, e.print>> # <<req.at, req.last, req.print>>}
                  \cup {[at |-> req.at, last |-> req.last, print |-> req.print,
                         done |-> req.done, touched |-> req.touched,
                         excused |-> [w \in req.wins |-> Excused(w)]]}
  /\ req' = Idle
  /\ UNCHANGED <<scope, cycles, rows, fill, behind, fills, asked>>

\* The API process starts again.
RestartOee == memo' = {} /\ req' = Idle /\ answers' = {}

RollupNext ==
  \/ \E c \in scope.cycles \ cycles : Arrive(c)
  \/ \E since_last \in BOOLEAN : FillBegin(since_last)
  \/ FillPiece \/ FillCommit \/ FillAbort
  \/ \E at \in scope.ats : AskOee(at) \/ AskSeries(at)
  \/ LookUp \/ PlanSeries \/ ReadCoverage \/ ReadExtent \/ ReadBuckets
  \/ ReadEdges \/ ReadHours \/ ReadAgain
  \/ \E w \in (IF req = Idle THEN {} ELSE req.wins) : CountWindow(w)
  \/ AnswerOee

=============================================================================
