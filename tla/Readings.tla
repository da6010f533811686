------------------------------ MODULE Readings ------------------------------
(***************************************************************************)
(* The other routes of pipeline/api.py that count cycles: quality and      *)
(* progression by bucket, the profile of the mean cycle, the baseline of   *)
(* the healthy window, beside the fills and the routes of Rollup and       *)
(* Verdict.  Every SQL statement of a request is a step.                   *)
(*                                                                         *)
(* Abstractions.  One run, one valve; of the figures of a bucket its count *)
(* of cycles is kept.  A statement that fails is left out.  Of the grains  *)
(* there are the hour and the day.                                         *)
(***************************************************************************)
EXTENDS Verdict

LOCAL INSTANCE Functions

CONSTANTS
  Day,           \* ticks of the coarser grain
  MaxTail,       \* CODA_DIRETTA_MAX
  MaxUncovered   \* PROFILO_SCOPERTO_MAX

ASSUME ReadingsAssumption ==
  /\ {Day, MaxTail, MaxUncovered} \subseteq Nat
  /\ Day > 0 /\ Day % PerHour = 0
  /\ \A s \in Scopes : \A a \in s.views :
       \/ a.kind = "quality" /\ {a.from, a.to} \subseteq Int /\ a.grain \in {PerHour, Day}
       \/ a.kind = "profile" /\ {a.from, a.to} \subseteq Int
       \/ a.kind = "progression"
       \/ a.kind = "baseline" /\ a.window \in {<<>>} \cup (Int \X Int)

VARIABLES
  view,      \* the request under way
  recall,    \* _RISPOSTE: the progression answers that can still be found
  baseline,  \* KV baseline_cache
  shown      \* what the last request answered

readingsVars == <<view, recall, baseline, shown>>
allVars == <<vars, readingsVars>>

ReadingsInit ==
  /\ VerdictInit
  /\ view = Idle /\ recall = {} /\ baseline = <<>> /\ shown = {}

FloorTo(t, g) == (t \div g) * g
CeilTo(t, g) == IF FloorTo(t, g) = t THEN t ELSE FloorTo(t, g) + g

\* The windows of width g that make up lo..hi.
Buckets(lo, hi, g) == {<<t, t + g>> : t \in {u \in lo..(hi - 1) : (u - lo) % g = 0}}

\* Cycles of w have come since there were those of had.
CameSince(had, w) == \E c \in cycles \ had : w[1] <= c.ts /\ c.ts < w[2]

----------------------------------------------------------------------------
(* The steps of a request *)

Ask(kind, pc) ==
  /\ view = Idle /\ asked < scope.requests
  /\ asked' = asked + 1 /\ shown' = {}
  /\ \E a \in {b \in scope.views : b.kind = kind} :
       view' = [ask |-> a, pc |-> pc,
                had |-> cycles, last |-> IF cycles = {} THEN -1 ELSE Max(Instants),
                print |-> <<>>, cov |-> <<>>, prior |-> FALSE,
                todo |-> <<>>, got |-> <<>>, next |-> "answer", whole |-> <<>>, done |-> {},
                stale |-> {}, twice |-> {}]
  /\ UNCHANGED <<scope, cycles, rows, fill, req, memo, behind, answers, fills,
                 verdictVars, recall, baseline>>

AskQuality == Ask("quality", "cover")
AskProfile == Ask("profile", "cover")
\* _memoria_risposta: a run without cycles has no memory.
AskProgression == Ask("progression", IF cycles = {} THEN "cover" ELSE "memory")
AskBaseline == Ask("baseline", "window")

Viewing(pc, kinds) ==
  /\ view # Idle /\ view.pc = pc /\ view.ask.kind \in kinds
  /\ UNCHANGED vars

\* No figures: the answer says why.
Declined == view' = Idle /\ UNCHANGED shown

\* The statements todo, counted into the windows; then next.  Together the windows
\* are all that is whole, the interval asked for, unless the answer says it is cut.
Start(v, windows, todo, next, whole) ==
  [v EXCEPT !.pc = "pieces", !.got = [w \in windows |-> 0], !.todo = todo, !.next = next,
            !.whole = whole]

Piece(from, lo, hi) == [from |-> from, lo |-> lo, hi |-> hi]

\* _copertura_riepilogo, its first statement,
FetchCover ==
  /\ Viewing("cover", {"quality", "profile", "progression"})
  /\ \/ rows = <<>> /\ view.ask.kind # "profile" /\ Declined
     \/ rows = <<>> /\ view.ask.kind = "profile"
        /\ view' = [view EXCEPT !.pc = "last"] /\ UNCHANGED shown
     \/ rows # <<>>
        /\ view' = [view EXCEPT !.pc = "prior",
                                !.cov = <<Min(DOMAIN rows), Max(DOMAIN rows) + PerHour>>]
        /\ UNCHANGED shown
  /\ UNCHANGED <<recall, baseline>>

----------------------------------------------------------------------------
(* /valves/quality/series *)

\* The grain asked for, or the next one when its points are too many.
Grain(a) == IF (CeilTo(a.to, a.grain) - FloorTo(a.from, a.grain)) \div a.grain <= MaxPoints
            THEN a.grain ELSE Day

\* Where the summarised hours end, in whole buckets.
CoveredTo(v) == FloorTo(v.cov[2], Grain(v.ask))

\* The data end after the last cycle.
DataEnd(v) == Max({v.cov[2], v.last + 1})

\* Mutant: the bucket that contains the first summarised hour is kept.
KeptFrom(v) == FloorTo(v.ask.from, Grain(v.ask))
\* Cut on the left where older cycles are not summarised.
QualityFrom(v) ==
  LET lo == FloorTo(v.ask.from, Grain(v.ask))
  IN IF v.prior /\ lo < v.cov[1] THEN Max({lo, CeilTo(v.cov[1], Grain(v.ask))}) ELSE lo

\* Cut on the right at the summarised hours when the tail is too long to be read,
\* else after the last cycle.
QualityTo(v) ==
  LET hi == CeilTo(v.ask.to, Grain(v.ask))
  IN CASE hi <= CoveredTo(v) -> hi
       [] hi > CoveredTo(v) /\ DataEnd(v) - v.cov[2] > MaxTail -> CoveredTo(v)
       [] OTHER -> Min({hi, CeilTo(DataEnd(v), Grain(v.ask))})

\* The tail that no bucket covers, read from cycles.
QualityTail(v) ==
  LET end == Min({CeilTo(v.ask.to, Grain(v.ask)), DataEnd(v)})
  IN IF QualityTo(v) > CoveredTo(v) /\ end > v.cov[2]
     THEN <<Piece("cycles", v.cov[2], end)>> ELSE <<>>

\* The interval asked for, to the edges of its buckets, when nothing is cut off.
QualityWhole(v) ==
  LET lo == FloorTo(v.ask.from, Grain(v.ask))
      hi == CeilTo(v.ask.to, Grain(v.ask))
  IN IF QualityFrom(v) > lo \/ (hi > CoveredTo(v) /\ DataEnd(v) - v.cov[2] > MaxTail)
     THEN <<>> ELSE <<lo, hi>>

QualityPlan(v) ==
  IF QualityTo(v) <= QualityFrom(v) THEN Idle
  ELSE Start(v, Buckets(QualityFrom(v), QualityTo(v), Grain(v.ask)),
             <<Piece("rows", QualityFrom(v), QualityTo(v))>> \o QualityTail(v),
             "answer", QualityWhole(v))

----------------------------------------------------------------------------
(* /valves/{id}/profile, /valves/profile *)

\* Mutant: the buckets that contain the edges of the window count whole.
WholeHoursAround(lo, hi, cov) ==
  IF cov = <<>> THEN <<lo, lo>> ELSE <<Floor(Max({lo, cov[1]})), Ceil(Min({hi, cov[2]}))>>
\* The whole summarised hours of a window.
WholeHours(lo, hi, cov) ==
  IF cov = <<>> THEN <<lo, lo>> ELSE <<Ceil(Max({lo, cov[1]})), Floor(Min({hi, cov[2]}))>>

\* The rest, to be read from cycles.
Edge(lo, hi) == IF lo < hi THEN <<<<lo, hi>>>> ELSE <<>>
Uncovered(lo, hi, cov) ==
  LET mid == WholeHours(lo, hi, cov)
  IN IF mid[2] <= mid[1] THEN <<<<lo, hi>>>> ELSE Edge(lo, mid[1]) \o Edge(mid[2], hi)

\* What reading it costs: nothing before the coverage when no cycle is there.
Cost(v, e) ==
  IF v.cov = <<>> \/ v.prior THEN e[2] - e[1] ELSE Max({0, e[2] - Max({e[1], v.cov[1]})})
Affordable(v, lo, hi) ==
  LET out == Uncovered(lo, hi, v.cov)
  IN SumFunction([i \in DOMAIN out |-> Cost(v, out[i])]) <= MaxUncovered

\* _profilo_finestra.
ProfileWindow(v, lo, hi, next, whole) ==
  LET mid == WholeHours(lo, hi, v.cov)
      out == Uncovered(lo, hi, v.cov)
  IN Start(v, {<<lo, hi>>},
           (IF mid[2] > mid[1] THEN <<Piece("rows", mid[1], mid[2])>> ELSE <<>>)
             \o [i \in DOMAIN out |-> Piece("cycles", out[i][1], out[i][2])],
           next, whole)

ProfileFrom(v) == Floor(v.ask.from)
\* Nothing to serve after the last cycle.
ProfileTo(v) == IF v.last = -1 THEN Ceil(v.ask.to) ELSE Min({Ceil(v.ask.to), Ceil(v.last + 1)})

\* _profilo_core: the whole period, or a second attempt up to the coverage.
ProfilePlan(v) ==
  LET lo == ProfileFrom(v)
      hi == ProfileTo(v)
  IN CASE hi <= lo -> Idle
       [] hi > lo /\ Affordable(v, lo, hi) ->
            ProfileWindow(v, lo, hi, "window", <<lo, Ceil(v.ask.to)>>)
       [] hi > lo /\ ~Affordable(v, lo, hi) /\ v.cov # <<>> /\ hi > v.cov[2] /\ v.cov[2] > lo
          /\ Affordable(v, lo, v.cov[2]) -> ProfileWindow(v, lo, v.cov[2], "window", <<>>)
       [] OTHER -> Idle

----------------------------------------------------------------------------
(* Statements that several routes share *)

Go(v) == IF v = Idle THEN Declined ELSE view' = v /\ UNCHANGED shown

\* and its second: cycles before the first bucket.  The progression goes from the
\* first bucket to the last.
FetchPrior ==
  /\ Viewing("prior", {"quality", "profile", "progression"})
  /\ LET v == [view EXCEPT !.prior = \E t \in Instants : t < view.cov[1]]
     IN CASE v.ask.kind = "progression" ->
               Go(Start(v, Buckets(v.cov[1], v.cov[2], PerHour),
                        <<Piece("rows", v.cov[1], v.cov[2])>>, "sigma", <<>>))
          [] v.ask.kind = "quality" /\ CeilTo(v.ask.to, Grain(v.ask)) <= CoveredTo(v) ->
               Go(QualityPlan(v))
          [] OTHER -> Go([v EXCEPT !.pc = "last"])
  /\ UNCHANGED <<recall, baseline>>

\* _last_cycle_ts.
FetchLast ==
  /\ Viewing("last", {"quality", "profile"})
  /\ LET v == [view EXCEPT !.last = IF cycles = {} THEN -1 ELSE Max(Instants)]
     IN Go(IF v.ask.kind = "quality" THEN QualityPlan(v) ELSE ProfilePlan(v))
  /\ UNCHANGED <<recall, baseline>>

\* The counts of the windows are complete: they go into the answer.
Touches(w, hours) == \E h \in hours : h < w[2] /\ w[1] < h + PerHour
Result(v, w, n) == [w |-> w, n |-> n, excused |-> Touches(w, v.stale \cup v.twice)]
Closed(v) ==
  [v EXCEPT !.pc = v.next, !.got = <<>>, !.todo = <<>>, !.stale = {}, !.twice = {},
            !.done = @ \cup {Result(v, w, v.got[w]) : w \in DOMAIN v.got}
                       \cup (IF v.whole = <<>> THEN {}
                             ELSE {Result(v, v.whole, SumFunction(v.got))})]

\* The part of a piece that falls into a bucket; a profile takes all of it.
Share(kind, piece, w) ==
  IF kind = "profile" THEN <<piece.lo, piece.hi>>
  ELSE <<Max({w[1], piece.lo}), Min({w[2], piece.hi})>>

\* SUM over the buckets of lo..hi.
Summed(lo, hi) ==
  SumFunctionOnSet([h \in DOMAIN rows |-> rows[h].total],
                   {h \in DOMAIN rows : lo <= h /\ h < hi})
Amount(from, e) == IF from = "rows" THEN Summed(e[1], e[2]) ELSE Direct(e[1], e[2])

FetchPiece(from, kind) ==
  /\ Viewing("pieces", {kind}) /\ Head(view.todo).from = from
  /\ LET piece == Head(view.todo)
         v == [view EXCEPT
                 !.got = [w \in DOMAIN @ |-> @[w] + Amount(from, Share(kind, piece, w))],
                 !.stale = IF from = "rows" THEN behind ELSE @,
                 !.twice = IF from = "rows" /\ Len(view.todo) > 1 /\ kind = "quality"
                           THEN {h \in DOMAIN rows : h >= view.cov[2]} ELSE @,
                 !.todo = Tail(@)]
     IN view' = IF v.todo = <<>> THEN Closed(v) ELSE v
  /\ UNCHANGED <<recall, baseline, shown>>

FetchQualityBuckets == FetchPiece("rows", "quality")
FetchQualityTail == FetchPiece("cycles", "quality")
FetchProfileHours == FetchPiece("rows", "profile")
FetchProfileEdge == FetchPiece("cycles", "profile")
FetchMeans == FetchPiece("rows", "progression")
FetchDeviations == FetchPiece("cycles", "progression")

\* The deviations are asked of cycles, over the same hours.
StartDeviations ==
  /\ Viewing("sigma", {"progression"})
  /\ view' = Start(view, Buckets(view.cov[1], view.cov[2], PerHour),
                   <<Piece("cycles", view.cov[1], view.cov[2])>>, "answer", <<>>)
  /\ UNCHANGED <<recall, baseline, shown>>

----------------------------------------------------------------------------
(* /valves/progression/series: the memory of the process *)

Find ==
  {e \in recall : e.last = view.last /\ e.print = Imprint}
FetchMemory ==
  /\ Viewing("memory", {"progression"})
  /\ \/ Find = {} /\ view' = [view EXCEPT !.pc = "cover", !.print = Imprint]
     \/ \E e \in Find :
          view' = [view EXCEPT !.pc = "answer",
                     !.done = {[r EXCEPT !.excused = @ \/ \E c \in cycles \ e.had : c.ts <= e.last] :
                                 r \in e.done}]
  /\ UNCHANGED <<recall, baseline, shown>>

----------------------------------------------------------------------------
(* /valves/baseline, and the healthy window of a profile *)

\* _baseline_window: the window asked for, or the declared one.
Window(a) == IF a.window = <<>> THEN Healthy[price] ELSE a.window

FetchProfileBase ==
  /\ Viewing("window", {"profile"})
  /\ LET w == Healthy[price]
     IN view' = IF Affordable(view, w[1], w[2]) THEN ProfileWindow(view, w[1], w[2], "answer", <<>>)
                ELSE [view EXCEPT !.pc = "answer"]
  /\ UNCHANGED <<recall, baseline, shown>>

FetchBaselineWindow ==
  /\ Viewing("window", {"baseline"})
  /\ LET w == Window(view.ask)
         v == Start(view, {w}, <<Piece("cycles", w[1], w[2])>>, "spread", <<>>)
     IN view' = IF view.ask.refresh THEN v ELSE [v EXCEPT !.pc = "cache"]
  /\ UNCHANGED <<recall, baseline, shown>>

\* Mutant: whatever is kept is served.
AnyKept(w) == baseline # <<>>
\* _baseline_cache_read: only the numbers of this very window.
Kept(w) == baseline # <<>> /\ baseline.w = w

FetchBaselineCache ==
  /\ Viewing("cache", {"baseline"})
  /\ \E w \in DOMAIN view.got :
       view' = IF Kept(w)
               THEN [view EXCEPT !.pc = "answer",
                       !.done = {[w |-> w, n |-> baseline.n,
                                  excused |-> CameSince(baseline.had, w)]}]
               ELSE [view EXCEPT !.pc = "pieces"]
  /\ UNCHANGED <<recall, baseline, shown>>

FetchBaseline == FetchPiece("cycles", "baseline")

\* _baseline_cache_write.
Save(r) == [w |-> r.w, n |-> r.n, had |-> view.had]

\* The deviation of the means is a second statement; when it fails, or the window
\* is not the declared one, nothing is kept.
FetchBaselineSpread ==
  /\ Viewing("spread", {"baseline"})
  /\ \E r \in view.done, ok \in BOOLEAN :
       /\ view' = IF r.n = 0 THEN Idle ELSE [view EXCEPT !.pc = "answer"]
       /\ baseline' = IF r.n > 0 /\ ok /\ view.ask.window = <<>>
                      THEN Save(r) ELSE baseline
  /\ UNCHANGED <<recall, shown>>

----------------------------------------------------------------------------

Answer ==
  /\ Viewing("answer", {"quality", "profile", "progression", "baseline"})
  /\ shown' = {[w |-> r.w, n |-> r.n, least |-> Tally(view.had, r.w[1], r.w[2]),
                most |-> Direct(r.w[1], r.w[2]), excused |-> r.excused] : r \in view.done}
  /\ recall' = IF view.ask.kind # "progression" \/ view.last = -1 \/ view.cov = <<>> THEN recall
               ELSE {e \in recall : <<e.last, e.print>> # <<view.last, view.print>>}
                    \cup {[last |-> view.last, print |-> view.print, had |-> view.had,
                           done |-> view.done]}
  /\ view' = Idle
  /\ UNCHANGED baseline

\* The API process starts again: its requests and its memory are gone, the KV is
\* not.
RestartApi ==
  /\ {req, ask, view} # {Idle} \/ memo \cup recall # {}
  /\ RestartOee /\ ask' = Idle /\ view' = Idle /\ recall' = {}
  /\ UNCHANGED <<scope, cycles, rows, fill, behind, fills, asked,
                 price, table, maker, late, body, baseline, shown>>

ReadingNext ==
  \/ AskQuality \/ AskProfile \/ AskProgression \/ AskBaseline
  \/ FetchCover \/ FetchPrior \/ FetchLast
  \/ FetchQualityBuckets \/ FetchQualityTail
  \/ FetchProfileHours \/ FetchProfileEdge \/ FetchProfileBase
  \/ FetchMeans \/ StartDeviations \/ FetchDeviations \/ FetchMemory
  \/ FetchBaselineWindow \/ FetchBaselineCache \/ FetchBaseline \/ FetchBaselineSpread
  \/ Answer

Next ==
  \/ VerdictNext /\ UNCHANGED readingsVars
  \/ ReadingNext
  \/ RestartApi

Spec == ReadingsInit /\ [][Next]_allVars

----------------------------------------------------------------------------
(* Properties *)

\* Every count in an answer of the API, put together from buckets, tails, edges,
\* differences and memories, lies between what one scan of cycles would have
\* counted when the request came and when it was answered: an OEE window, a bucket
\* of a series, a profile, a baseline.  But for windows that touch an hour whose
\* cycles came after its bucket was read, remembered answers of a run that got a
\* cycle no newer than its last, a kept baseline whose window got cycles since,
\* OEE windows of a run that ends exactly on the hour, and tails of OEE windows and
\* buckets of the quality series whose hours were summarised while the request was
\* under way.
AnswerBracketed ==
  \A a \in answers \cup shown : a.excused \/ (a.least <= a.n /\ a.n <= a.most)
=============================================================================
