------------------------------- MODULE Alerts -------------------------------
(***************************************************************************)
(* From complete windows of raw cycles to predictions and alerts: one run  *)
(* of pipeline/inference.py (a process of its own at every heartbeat), the *)
(* K-of-N rule of pipeline/alert.py and its persistence in the tables      *)
(* predictions, alerts and alert_transitions of pipeline/storage.py.       *)
(*                                                                         *)
(* Every statement on the database is a transaction of its own, so a run   *)
(* may die, or its alert wiring may raise, between any two of them.        *)
(*                                                                         *)
(* Abstractions.  A window of a valve is its index, which orders its       *)
(* window_end_cycle_id and its prediction_ts; windows are 160 s apart,     *)
(* Cooldown counts them.  A score is a level: 0 below the closing          *)
(* threshold, 1 between the two thresholds, 2 at the opening threshold or  *)
(* above it.  There is one run_id and, K/N being on, one fault type.       *)
(***************************************************************************)
EXTENDS Naturals, Sequences, FiniteSets

CONSTANTS
  Valve,      \* valve_ids, numbers
  Job,        \* inference processes that may run side by side
  MaxWindow,  \* bound: windows of a valve
  K, N,       \* score_aggregation_required, score_aggregation_window
  Cooldown,   \* cooldown_seconds
  InOrder,    \* do the windows of a valve complete in order?
  MaxRun,     \* bound: inference runs
  MaxDie      \* bound: runs that die or whose alert wiring raises

ASSUME AlertsAssumption ==
  /\ Valve \subseteq Nat
  /\ MaxWindow \in Nat /\ Cooldown \in Nat /\ MaxRun \in Nat /\ MaxDie \in Nat
  /\ N \in Nat \ {0} /\ K \in 1..N
  /\ InOrder \in BOOLEAN

VARIABLES
  raw,    \* [Valve -> [Window -> level of the complete window, or Missing]]
  preds,  \* table predictions
  alerts, \* table alerts, one row per valve
  log,    \* table alert_transitions: [Valve -> sequence of transitions]
  job,    \* [Job -> state of an inference process]
  runs, dies \* counters of the bounds

vars == <<raw, preds, alerts, log, job, runs, dies>>

Window == 1..MaxWindow
Level == 0..2
Missing == 3
None == 0          \* no timestamp

Rec == [valve : Valve, window : Window, score : Level]

\* A row that does not exist reads as a closed one without history.
Blank == [status |-> "closed", opened |-> None, last |-> None, closed |-> None,
          max |-> 0, n |-> 0]

Off == [pc |-> "off"]

MaxOf(a, b) == IF a >= b THEN a ELSE b
Above(s) == s >= 2       \* score >= threshold_open

\* The order of predict_frame's records: machine_code, then window_idx.
Before(p, q) == \/ p.valve < q.valve
                \/ p.valve = q.valve /\ p.window <= q.window
IsFirst(r, R) == r \in R /\ \A s \in R : Before(r, s)

-----------------------------------------------------------------------------
Init ==
  /\ raw = [v \in Valve |-> [w \in Window |-> Missing]]
  /\ preds = {}
  /\ alerts = [v \in Valve |-> Blank]
  /\ log = [v \in Valve |-> <<>>]
  /\ job = [j \in Job |-> Off]
  /\ runs = 0 /\ dies = 0

\* The last missing cycle of a window reaches the raw file.
WindowCompletes(v, w, s) ==
  /\ raw[v][w] = Missing
  /\ InOrder => \A x \in 1..(w - 1) : raw[v][x] # Missing
  /\ raw' = [raw EXCEPT ![v][w] = s]
  /\ UNCHANGED <<preds, alerts, log, job, runs, dies>>

-----------------------------------------------------------------------------
\* run, first lines: the full windows of the raw files become records.
StartRun(j) ==
  /\ job[j] = Off /\ runs < MaxRun
  /\ LET R == {r \in Rec : r.score = raw[r.valve][r.window]}
     IN /\ R # {}
        /\ job' = [job EXCEPT ![j] =
             [pc |-> "persist", run |-> runs, todo |-> R, known |-> <<>>,
              fresh |-> {}]]
  /\ runs' = runs + 1
  /\ UNCHANGED <<raw, preds, alerts, log, dies>>

Persisting(j, r) == job[j].pc = "persist" /\ IsFirst(r, job[j].todo)

\* Mutant: everything up to the last predicted window counts as predicted.
UpToLast(v) ==
  {w \in Window : \E p \in preds : p.valve = v /\ w <= p.window}
\* Mutant: no watermark.
NoWatermark(v) == {}

\* existing_window_end_cycle_ids: the windows of a valve already predicted.
Watermark(v) == {p.window : p \in {q \in preds : q.valve = v}}

\* run: the watermark of a valve is read once, at its first record.
ReadWatermark(j, r) ==
  /\ Persisting(j, r) /\ r.valve \notin DOMAIN job[j].known
  /\ job' = [job EXCEPT ![j].known =
       [v \in DOMAIN @ \cup {r.valve} |->
          IF v = r.valve THEN Watermark(v) ELSE @[v]]]
  /\ UNCHANGED <<raw, preds, alerts, log, runs, dies>>

\* run: a window of the watermark is skipped.
SkipRecord(j, r) ==
  /\ Persisting(j, r) /\ r.valve \in DOMAIN job[j].known
  /\ r.window \in job[j].known[r.valve]
  /\ job' = [job EXCEPT ![j].todo = @ \ {r}]
  /\ UNCHANGED <<raw, preds, alerts, log, runs, dies>>

\* insert_prediction under a prediction_id no other process can have drawn.
PersistRecord(j, r) ==
  /\ Persisting(j, r) /\ r.valve \in DOMAIN job[j].known
  /\ r.window \notin job[j].known[r.valve]
  /\ preds' = preds \cup {[valve |-> r.valve, window |-> r.window,
                           score |-> r.score, run |-> job[j].run]}
  /\ job' = [job EXCEPT ![j].todo = @ \ {r}, ![j].fresh = @ \cup {r}]
  /\ UNCHANGED <<raw, alerts, log, runs, dies>>

-----------------------------------------------------------------------------
\* _process_alert_transitions: nothing new, or load_states from table alerts.
LoadStates(j) ==
  /\ job[j].pc = "persist" /\ job[j].todo = {}
  /\ job' = [job EXCEPT ![j] =
       IF job[j].fresh = {} THEN Off
       ELSE [pc |-> "history", run |-> job[j].run, fresh |-> job[j].fresh,
             states |-> [v \in Valve |-> [row |-> alerts[v], cool |-> None]]]]
  /\ UNCHANGED <<raw, preds, alerts, log, runs, dies>>

\* Mutant: the batch is counted twice.
StoredAlready(v, run) == {p \in preds : p.valve = v}

\* load_score_history: stored predictions of the valve but those of the batch.
Stored(v, run) == {p \in preds : p.valve = v /\ p.run # run}

\* ORDER BY prediction_ts, prediction_id: how many rows come up to p.  Rows of
\* one window have one score, so the order of their random ids shows nowhere.
RankIn(p, P) ==
  Cardinality({q \in P : \/ q.window < p.window
                         \/ q.window = p.window /\ q.run <= p.run})

LastN(s) == IF Len(s) <= N THEN s ELSE SubSeq(s, Len(s) - N + 1, Len(s))

\* Mutant: no LIMIT.
WholeHistory(P) ==
  [i \in 1..Cardinality(P) |->
     Above((CHOOSE p \in P : RankIn(p, P) = i).score)]

\* The last N of them in time, as booleans in chronological order.
History(P) ==
  LastN([i \in 1..Cardinality(P) |->
           Above((CHOOSE p \in P : RankIn(p, P) = i).score)])

LoadHistory(j) ==
  /\ job[j].pc = "history"
  /\ job' = [job EXCEPT ![j] =
       [pc |-> "decide", run |-> @.run, todo |-> @.fresh, fresh |-> @.fresh,
        states |-> @.states, events |-> <<>>,
        hist |-> [v \in Valve |-> History(Stored(v, job[j].run))]]]
  /\ UNCHANGED <<raw, preds, alerts, log, runs, dies>>

\* Mutant: a closing always comes from "sustained".
EventFabricated(st, to, r) ==
  [valve |-> r.valve, to |-> to, window |-> r.window, score |-> r.score,
   from |-> IF to = "closed" THEN "sustained" ELSE st.row.status]

\* _event: a transition of the state st caused by the record r.
Event(st, to, r) ==
  [valve |-> r.valve, from |-> st.row.status, to |-> to, window |-> r.window,
   score |-> r.score]

Qualified(h) == Cardinality({i \in DOMAIN h : h[i]}) >= K

\* _handle_score_aggregation: the transition a record causes, in the history h
\* that already ends with it, or none.
Transition(st, h, r) ==
  IF st.cool # None /\ r.window < st.cool THEN "none"
  ELSE IF st.row.status = "closed" THEN IF Qualified(h) THEN "open" ELSE "none"
  ELSE IF ~Qualified(h) THEN "closed"
  ELSE IF Above(r.score) THEN "sustained" ELSE "none"

\* _handle_score_aggregation: what the transition does to the state in memory;
\* a reopened alert keeps its closed_ts.
InMemory(st, to, r) ==
  CASE to = "open" ->
         [st EXCEPT !.row = [st.row EXCEPT !.status = to, !.opened = r.window,
                             !.last = r.window, !.max = r.score, !.n = 1]]
    [] to = "sustained" ->
         [st EXCEPT !.row = [st.row EXCEPT !.status = to, !.last = r.window,
                             !.max = MaxOf(@, r.score), !.n = @ + 1]]
    [] to = "closed" ->
         [st EXCEPT !.row = [st.row EXCEPT !.status = to, !.closed = r.window],
                    !.cool = r.window + Cooldown]
    [] OTHER -> st

\* process, one record of the batch at a time.
Decide(j, r) ==
  /\ job[j].pc = "decide" /\ IsFirst(r, job[j].todo)
  /\ LET st == job[j].states[r.valve]
         h == LastN(Append(job[j].hist[r.valve], Above(r.score)))
         to == Transition(st, h, r)
     IN job' = [job EXCEPT
          ![j].todo = @ \ {r},
          ![j].hist[r.valve] = h,
          ![j].states[r.valve] = InMemory(st, to, r),
          ![j].events = IF to = "none" THEN @ ELSE Append(@, Event(st, to, r))]
  /\ UNCHANGED <<raw, preds, alerts, log, runs, dies>>

\* persist_events: the rows as they are now are the baseline of the batch.
ReadBaseline(j) ==
  /\ job[j].pc = "decide" /\ job[j].todo = {}
  /\ job' = [job EXCEPT ![j] =
       IF job[j].events = <<>> THEN Off
       ELSE [pc |-> "upsert", run |-> @.run, fresh |-> @.fresh,
             states |-> @.states, events |-> @.events, base |-> alerts]]
  /\ UNCHANGED <<raw, preds, alerts, log, runs, dies>>

\* Mutant: the cycle that closes an alert is counted as one above threshold.
PayloadCountsClose(prev, ev) ==
  CASE ev.to = "open" ->
         [status |-> "open", opened |-> ev.window, last |-> ev.window,
          closed |-> None, max |-> ev.score, n |-> 1]
    [] ev.to = "sustained" ->
         [prev EXCEPT !.status = "sustained", !.last = ev.window,
                      !.max = MaxOf(@, ev.score), !.n = @ + 1]
    [] ev.to = "closed" ->
         [prev EXCEPT !.status = "closed", !.closed = ev.window,
                      !.max = MaxOf(@, ev.score), !.n = @ + 1]

\* _full_state_payload: the whole row after the transition.
FullStatePayload(prev, ev) ==
  CASE ev.to = "open" ->
         [status |-> "open", opened |-> ev.window, last |-> ev.window,
          closed |-> None, max |-> ev.score, n |-> 1]
    [] ev.to = "sustained" ->
         [prev EXCEPT !.status = "sustained", !.last = ev.window,
                      !.max = MaxOf(@, ev.score), !.n = @ + 1]
    [] ev.to = "closed" ->
         [prev EXCEPT !.status = "closed", !.closed = ev.window,
                      !.max = MaxOf(@, ev.score)]

\* persist_events: upsert_alert of the next event.
UpsertAlert(j) ==
  /\ job[j].pc = "upsert"
  /\ LET ev == Head(job[j].events)
         row == FullStatePayload(job[j].base[ev.valve], ev)
     IN /\ alerts' = [alerts EXCEPT ![ev.valve] = row]
        /\ job' = [job EXCEPT ![j].pc = "insert", ![j].base[ev.valve] = row]
  /\ UNCHANGED <<raw, preds, log, runs, dies>>

\* persist_events: insert_transition of the same event; the run ends after the
\* last one.
InsertTransition(j) ==
  /\ job[j].pc = "insert"
  /\ LET ev == Head(job[j].events)
     IN log' = [log EXCEPT ![ev.valve] = Append(@, ev)]
  /\ job' = [job EXCEPT ![j] =
       IF Len(job[j].events) = 1 THEN Off
       ELSE [job[j] EXCEPT !.pc = "upsert", !.events = Tail(@)]]
  /\ UNCHANGED <<raw, preds, alerts, runs, dies>>

\* The process is killed, or the wiring raises and run only warns: either way
\* what was committed stays and the rest of the run is dropped.
Abandon(j) ==
  /\ job[j] # Off /\ dies < MaxDie
  /\ dies' = dies + 1
  /\ job' = [job EXCEPT ![j] = Off]
  /\ UNCHANGED <<raw, preds, alerts, log, runs>>

-----------------------------------------------------------------------------
JobStep(j) ==
  \/ \E r \in Rec : \/ ReadWatermark(j, r) \/ SkipRecord(j, r)
                    \/ PersistRecord(j, r) \/ Decide(j, r)
  \/ LoadStates(j) \/ LoadHistory(j) \/ ReadBaseline(j)
  \/ UpsertAlert(j) \/ InsertTransition(j)

Next ==
  \/ \E v \in Valve, w \in Window, s \in Level : WindowCompletes(v, w, s)
  \/ \E j \in Job : StartRun(j) \/ JobStep(j) \/ Abandon(j)

Spec == Init /\ [][Next]_vars

\* The supervisor starts a run at every heartbeat, and a run that nothing kills
\* goes on to its end.
FairSpec ==
  Spec /\ \A j \in Job : WF_vars(StartRun(j)) /\ WF_vars(JobStep(j))

-----------------------------------------------------------------------------
Status == {"open", "sustained", "closed"}
Row == [status : Status, opened : 0..MaxWindow, last : 0..MaxWindow,
        closed : 0..MaxWindow, max : Level, n : Nat]
Pred == [valve : Valve, window : Window, score : Level, run : Nat]
Ev == [valve : Valve, from : Status, to : Status, window : Window, score : Level]
States == [Valve -> [row : Row, cool : Nat]]

PersistState ==
  {s \in [pc : {"persist"}, run : Nat, todo : SUBSET Rec, fresh : SUBSET Rec,
          known : UNION {[S -> SUBSET Window] : S \in SUBSET Valve}] :
     s.todo \cap s.fresh = {}}
HistoryState ==
  [pc : {"history"}, run : Nat, fresh : SUBSET Rec, states : States]
DecideState ==
  [pc : {"decide"}, run : Nat, fresh : SUBSET Rec, todo : SUBSET Rec,
   states : States, events : Seq(Ev), hist : [Valve -> Seq(BOOLEAN)]]
WriteState ==
  [pc : {"upsert", "insert"}, run : Nat, fresh : SUBSET Rec, states : States,
   events : Seq(Ev), base : [Valve -> Row]]
JobState == {Off} \cup PersistState \cup HistoryState \cup DecideState
              \cup WriteState

\* Type invariant: the tables and the state of every process have their shape,
\* a history is never longer than the deque that holds it
\* (alert.py _score_history), and a process that writes has an event to write.
TypeOK ==
  /\ raw \in [Valve -> [Window -> Level \cup {Missing}]]
  /\ preds \subseteq Pred
  /\ alerts \in [Valve -> Row]
  /\ log \in [Valve -> Seq(Ev)]
  /\ job \in [Job -> JobState]
  /\ \A j \in Job :
       /\ job[j].pc = "decide" => \A v \in Valve : Len(job[j].hist[v]) <= N
       /\ job[j].pc \in {"upsert", "insert"} => job[j].events # <<>>
  /\ runs \in 0..MaxRun /\ dies \in 0..MaxDie

PredsOf(v) == {p \in preds : p.valve = v}
AtRest == \A j \in Job : job[j] = Off

\* The watermark of InferenceConsumer.run keeps predictions apart although
\* their prediction_id is random: no window of a valve is predicted twice,
\* however many runs die halfway.
OnePredictionPerWindow ==
  \A p, q \in preds : p.valve = q.valve /\ p.window = q.window => p = q

\* A step of run j that ends it the regular way.
EndsRun(j) == job[j] # Off /\ job'[j] = Off /\ dies' = dies

\* A run that comes to its end leaves, for every valve it has predicted a
\* window of, an alert that stands exactly when the last N predictions in the
\* table hold K at or above threshold_open: nothing an earlier run stored and
\* did not process before dying is lost to the rule, nothing is counted twice
\* (InferenceConsumer._process_alert_transitions, load_score_history).
AlertsFollowPredictions ==
  [][\A j \in Job : EndsRun(j) =>
       \A v \in {r.valve : r \in job[j].fresh} :
         alerts'[v].status # "closed" <=> Qualified(History(PredsOf(v)))]_vars

\* The transitions of a valve form one history: each starts in the status the
\* one before it ended in, the first one in "closed" (alert_transitions).
LogChained ==
  \A v \in Valve : \A i \in DOMAIN log[v] :
    log[v][i].from = IF i = 1 THEN "closed" ELSE log[v][i - 1].to

\* The transitions of the current episode of a valve: its last "open" on.
Episode(v) ==
  {i \in DOMAIN log[v] : \A k \in i + 1..Len(log[v]) : log[v][k].to # "open"}
AboveIn(v) == {i \in Episode(v) : log[v][i].to # "closed"}

\* At rest, the row of an alert sums up the last episode of its log: the status
\* it ended in, the windows that opened and last sustained it, how many cycles
\* were at or above the threshold (the one that closes is not) and their
\* greatest score (alert.py _full_state_payload, persist_events).
RowSumsUpLog ==
  AtRest => \A v \in Valve : log[v] # <<>> =>
    LET L == log[v] IN
    /\ alerts[v].status = L[Len(L)].to
    /\ alerts[v].n = Cardinality(AboveIn(v))
    /\ \E i \in AboveIn(v) : L[i].to = "open" /\ alerts[v].opened = L[i].window
    /\ alerts[v].max \in {L[i].score : i \in Episode(v)}
    /\ \A i \in Episode(v) : L[i].score <= alerts[v].max
    /\ \E i \in AboveIn(v) : /\ alerts[v].last = L[i].window
                             /\ \A k \in AboveIn(v) : k <= i

\* A window that completes, however late, is predicted if enough runs come
\* after it (InferenceConsumer.run: the watermark is a set, not a maximum).
EventuallyPredicted ==
  \A v \in Valve, w \in Window :
    (raw[v][w] # Missing /\ MaxRun - runs > MaxDie - dies)
      ~> \E p \in preds : p.valve = v /\ p.window = w

\* What inference.py:331-333 takes for granted: a window already predicted has
\* been processed by the run that stored it, so that at rest every alert is the
\* one its predictions call for.
PredictedIsProcessed ==
  AtRest => \A v \in Valve :
    alerts[v].status # "closed" <=> Qualified(History(PredsOf(v)))
=============================================================================
