---------------------------- MODULE AlertsProofs ----------------------------
(* Proofs about module Alerts, for every set of valves, every K, N and        *)
(* Cooldown and every bound.                                                  *)
EXTENDS Alerts, TLAPS, FiniteSetTheorems

\* The bounds TypeOK puts on one process.
Bounded(s) ==
  /\ s.pc = "decide" => \A v \in Valve : Len(s.hist[v]) <= N
  /\ s.pc \in {"upsert", "insert"} => s.events # <<>>

\* The type invariant, with what Cardinality needs to count predictions.
TInv == TypeOK /\ IsFiniteSet(preds)

-----------------------------------------------------------------------------
(* The state of a process, by its program counter.                           *)

LEMMA ByPc ==
  ASSUME NEW s \in JobState
  PROVE  /\ s.pc = "persist" => s \in PersistState
         /\ s.pc = "history" => s \in HistoryState
         /\ s.pc = "decide" => s \in DecideState
         /\ s.pc \in {"upsert", "insert"} => s \in WriteState
         /\ s # Off => s.pc # "off"
  BY DEF JobState, Off, PersistState, HistoryState, DecideState, WriteState

\* A history is cut to N values.
LEMMA LastNType ==
  ASSUME NEW s \in Seq(BOOLEAN)
  PROVE  LastN(s) \in Seq(BOOLEAN) /\ Len(LastN(s)) <= N
  <1>1. N \in Nat \ {0}
    BY AlertsAssumption
  <1>2. CASE Len(s) <= N
    BY <1>2 DEF LastN
  <1>3. CASE ~(Len(s) <= N)
    <2>1. /\ LastN(s) = SubSeq(s, Len(s) - N + 1, Len(s))
          /\ Len(s) \in Nat /\ Len(s) - N + 1 \in 1..Len(s)
      BY <1>1, <1>3 DEF LastN
    <2>2. Len(s) - (Len(s) - N + 1) + 1 = N
      BY <1>1, <2>1
    <2> QED
      BY <1>1, <2>1, <2>2
  <1> QED
    BY <1>2, <1>3

LEMMA HistoryType ==
  ASSUME NEW P, IsFiniteSet(P)
  PROVE  History(P) \in Seq(BOOLEAN) /\ Len(History(P)) <= N
  <1> DEFINE h == [i \in 1..Cardinality(P) |->
                     Above((CHOOSE p \in P : RankIn(p, P) = i).score)]
  <1>1. Cardinality(P) \in Nat
    BY FS_CardinalityType
  <1>2. h \in [1..Cardinality(P) -> BOOLEAN]
    BY DEF Above
  <1>3. History(P) = LastN(h)
    BY DEF History
  <1> HIDE DEF h
  <1>4. h \in Seq(BOOLEAN)
    BY <1>1, <1>2
  <1> QED
    BY <1>3, <1>4, LastNType

\* A row from its fields.
LEMMA RowOf ==
  ASSUME NEW s \in Status, NEW o \in 0..MaxWindow, NEW l \in 0..MaxWindow,
         NEW c \in 0..MaxWindow, NEW m \in Level, NEW n \in Nat
  PROVE  [status |-> s, opened |-> o, last |-> l, closed |-> c, max |-> m,
          n |-> n] \in Row
  BY DEF Row

\* The three transitions keep a row a row.
LEMMA RowUpdates ==
  ASSUME NEW row \in Row, NEW w \in Window, NEW s \in Level
  PROVE  /\ [row EXCEPT !.status = "open", !.opened = w, !.last = w,
                        !.max = s, !.n = 1] \in Row
         /\ [row EXCEPT !.status = "sustained", !.last = w,
                        !.max = MaxOf(@, s), !.n = @ + 1] \in Row
         /\ [row EXCEPT !.status = "closed", !.closed = w] \in Row
         /\ [row EXCEPT !.status = "closed", !.closed = w,
                        !.max = MaxOf(@, s)] \in Row
  <1>1. w \in 0..MaxWindow
    BY AlertsAssumption DEF Window
  <1>2. row.max \in Level /\ row.n \in Nat
    BY DEF Row
  <1>3. MaxOf(row.max, s) \in Level /\ row.n + 1 \in Nat
    BY <1>2 DEF MaxOf
  <1>4. [row EXCEPT !.status = "open", !.opened = w, !.last = w, !.max = s,
                    !.n = 1] \in Row
    BY <1>1 DEF Row, Status
  <1>5. [row EXCEPT !.status = "sustained", !.last = w, !.max = MaxOf(@, s),
                    !.n = @ + 1] \in Row
    BY <1>1, <1>3 DEF Row, Status
  <1>6. [row EXCEPT !.status = "closed", !.closed = w] \in Row
    BY <1>1 DEF Row, Status
  <1>7. [row EXCEPT !.status = "closed", !.closed = w, !.max = MaxOf(@, s)]
          \in Row
    BY <1>1, <1>3 DEF Row, Status
  <1> QED
    BY <1>4, <1>5, <1>6, <1>7

\* What the engine does to a state keeps it a state.
LEMMA InMemoryType ==
  ASSUME NEW st \in [row : Row, cool : Nat], NEW r \in Rec, NEW to
  PROVE  InMemory(st, to, r) \in [row : Row, cool : Nat]
  <1>1. /\ st.row \in Row /\ st.cool \in Nat
        /\ r.window \in Window /\ r.score \in Level
    BY DEF Rec
  <1>2. r.window + Cooldown \in Nat
    BY <1>1, AlertsAssumption DEF Window
  <1>3. CASE to = "open"
    <2> DEFINE new == [st.row EXCEPT !.status = "open", !.opened = r.window,
                                     !.last = r.window, !.max = r.score, !.n = 1]
    <2>1. new \in Row
      BY <1>1, RowUpdates
    <2>2. InMemory(st, to, r) = [st EXCEPT !.row = new]
      BY <1>3 DEF InMemory
    <2> HIDE DEF new
    <2> QED
      BY <2>1, <2>2
  <1>4. CASE to = "sustained"
    <2> DEFINE new == [st.row EXCEPT !.status = "sustained", !.last = r.window,
                         !.max = MaxOf(@, r.score), !.n = @ + 1]
    <2>1. new \in Row
      BY <1>1, RowUpdates
    <2>2. InMemory(st, to, r) = [st EXCEPT !.row = new]
      BY <1>4 DEF InMemory
    <2> HIDE DEF new
    <2> QED
      BY <2>1, <2>2
  <1>5. CASE to = "closed"
    <2> DEFINE new == [st.row EXCEPT !.status = "closed", !.closed = r.window]
    <2>1. new \in Row
      BY <1>1, RowUpdates
    <2>2. InMemory(st, to, r)
            = [st EXCEPT !.row = new, !.cool = r.window + Cooldown]
      BY <1>5 DEF InMemory
    <2> HIDE DEF new
    <2> QED
      BY <1>2, <2>1, <2>2
  <1>6. CASE to \notin {"open", "sustained", "closed"}
    BY <1>6 DEF InMemory
  <1> QED
    BY <1>3, <1>4, <1>5, <1>6

LEMMA PayloadType ==
  ASSUME NEW row \in Row, NEW ev \in Ev
  PROVE  FullStatePayload(row, ev) \in Row
  <1>1. ev.to \in Status /\ ev.window \in Window /\ ev.score \in Level
    BY DEF Ev
  <1>2. CASE ev.to = "open"
    <2>1. "open" \in Status /\ ev.window \in 0..MaxWindow
          /\ None \in 0..MaxWindow /\ 1 \in Nat
      BY <1>1, AlertsAssumption DEF Status, Window, None
    <2> QED
      BY <1>1, <1>2, <2>1, RowOf DEF FullStatePayload
  <1>3. CASE ev.to = "sustained"
    BY <1>1, <1>3, RowUpdates DEF FullStatePayload
  <1>4. CASE ev.to = "closed"
    BY <1>1, <1>4, RowUpdates DEF FullStatePayload
  <1> QED
    BY <1>1, <1>2, <1>3, <1>4 DEF Status

-----------------------------------------------------------------------------
(* What one process does keeps it a process.                                 *)

KnownType == UNION {[S -> SUBSET Window] : S \in SUBSET Valve}

LEMMA KnownUpdate ==
  ASSUME NEW k \in KnownType, NEW v \in Valve, NEW W \in SUBSET Window
  PROVE  [u \in DOMAIN k \cup {v} |-> IF u = v THEN W ELSE k[u]] \in KnownType
  <1>1. PICK S \in SUBSET Valve : k \in [S -> SUBSET Window]
    BY DEF KnownType
  <1>2. S \cup {v} \in SUBSET Valve
    OBVIOUS
  <1>3. [u \in DOMAIN k \cup {v} |-> IF u = v THEN W ELSE k[u]]
          \in [S \cup {v} -> SUBSET Window]
    BY <1>1
  <1> QED
    BY <1>2, <1>3 DEF KnownType

\* The fields of a process that persists, and back.
LEMMA PersistFields ==
  ASSUME NEW s \in PersistState
  PROVE  /\ s.run \in Nat /\ s.todo \in SUBSET Rec /\ s.fresh \in SUBSET Rec
         /\ s.known \in KnownType /\ s.todo \cap s.fresh = {} /\ s # Off
         /\ s.pc = "persist"
  BY DEF PersistState, KnownType, Off

LEMMA KnownStored ==
  ASSUME NEW s \in PersistState, NEW k \in KnownType
  PROVE  [s EXCEPT !.known = k] \in PersistState
  BY DEF PersistState, KnownType

LEMMA TodoStored ==
  ASSUME NEW s \in PersistState, NEW T \in SUBSET s.todo
  PROVE  [s EXCEPT !.todo = T] \in PersistState
  BY DEF PersistState, KnownType

LEMMA RecordDone ==
  ASSUME NEW s \in PersistState, NEW r \in Rec
  PROVE  [s EXCEPT !.todo = @ \ {r}, !.fresh = @ \cup {r}] \in PersistState
  BY DEF PersistState, KnownType

\* One process moves, the tables but the predictions keep their type.
LEMMA JobUpdate ==
  ASSUME TypeOK, NEW j \in Job, NEW s \in JobState, Bounded(s),
         job' = [job EXCEPT ![j] = s]
  PROVE  /\ job' \in [Job -> JobState]
         /\ \A i \in Job : Bounded(job'[i])
  BY DEF TypeOK, Bounded

LEMMA ReadWatermarkType ==
  ASSUME TypeOK, NEW j \in Job, NEW r \in Rec, ReadWatermark(j, r)
  PROVE  \E s \in PersistState : job' = [job EXCEPT ![j] = s]
  <1> DEFINE k == [v \in DOMAIN job[j].known \cup {r.valve} |->
                     IF v = r.valve THEN Watermark(v) ELSE job[j].known[v]]
             k2 == [v \in DOMAIN job[j].known \cup {r.valve} |->
                     IF v = r.valve THEN Watermark(r.valve) ELSE job[j].known[v]]
  <1>1. job[j] \in PersistState
    BY ByPc DEF TypeOK, ReadWatermark, Persisting
  <1>2. r.valve \in Valve /\ Watermark(r.valve) \in SUBSET Window
    BY DEF Rec, Watermark, TypeOK, Pred
  <1>3. k = k2
    OBVIOUS
  <1>4. k \in KnownType
    BY <1>1, <1>2, <1>3, PersistFields, KnownUpdate
  <1>5. job' = [job EXCEPT ![j] = [job[j] EXCEPT !.known = k]]
    BY DEF ReadWatermark, TypeOK
  <1> HIDE DEF k
  <1>6. [job[j] EXCEPT !.known = k] \in PersistState
    BY <1>1, <1>4, KnownStored
  <1> QED
    BY <1>5, <1>6

LEMMA HistType ==
  ASSUME TInv, NEW run
  PROVE  /\ [v \in Valve |-> History(Stored(v, run))] \in [Valve -> Seq(BOOLEAN)]
         /\ \A v \in Valve : Len(History(Stored(v, run))) <= N
  <1>1. ASSUME NEW v \in Valve
        PROVE  History(Stored(v, run)) \in Seq(BOOLEAN)
               /\ Len(History(Stored(v, run))) <= N
    <2>1. Stored(v, run) \subseteq preds
      BY DEF Stored
    <2>2. IsFiniteSet(Stored(v, run))
      BY <2>1, FS_Subset DEF TInv
    <2> QED
      BY <2>2, HistoryType
  <1> QED
    BY <1>1

LEMMA PersistStepType ==
  ASSUME TypeOK, NEW j \in Job, NEW r \in Rec,
         SkipRecord(j, r) \/ PersistRecord(j, r)
  PROVE  \E s \in PersistState : job' = [job EXCEPT ![j] = s]
  <1>1. job[j] \in PersistState /\ job[j].todo \ {r} \in SUBSET job[j].todo
    BY ByPc DEF TypeOK, SkipRecord, PersistRecord, Persisting
  <1>2. CASE SkipRecord(j, r)
    <2>1. job' = [job EXCEPT ![j] = [job[j] EXCEPT !.todo = @ \ {r}]]
      BY <1>2 DEF SkipRecord, TypeOK
    <2>2. [job[j] EXCEPT !.todo = @ \ {r}] \in PersistState
      BY <1>1, TodoStored
    <2> QED
      BY <2>1, <2>2
  <1>3. CASE PersistRecord(j, r)
    <2>1. job' = [job EXCEPT ![j] = [job[j] EXCEPT !.todo = @ \ {r},
                                                   !.fresh = @ \cup {r}]]
      BY <1>3 DEF PersistRecord, TypeOK
    <2>2. [job[j] EXCEPT !.todo = @ \ {r}, !.fresh = @ \cup {r}]
            \in PersistState
      BY <1>1, RecordDone
    <2> QED
      BY <2>1, <2>2
  <1> QED
    BY <1>2, <1>3

LEMMA StartRunType ==
  ASSUME TypeOK, NEW j \in Job, StartRun(j)
  PROVE  \E s \in PersistState : job' = [job EXCEPT ![j] = s]
  <1> DEFINE R == {r \in Rec : r.score = raw[r.valve][r.window]}
             s == [pc |-> "persist", run |-> runs, todo |-> R, known |-> <<>>,
                   fresh |-> {}]
  <1>1. job' = [job EXCEPT ![j] = s]
    BY DEF StartRun
  <1>2. R \in SUBSET Rec /\ runs \in Nat
    BY AlertsAssumption DEF TypeOK
  <1>3. <<>> \in KnownType
    <2>1. {} \in SUBSET Valve /\ <<>> \in [{} -> SUBSET Window]
      OBVIOUS
    <2> QED
      BY <2>1 DEF KnownType
  <1>4. s \in PersistState
    <2> HIDE DEF R
    <2> QED
      BY <1>2, <1>3 DEF PersistState, KnownType
  <1> QED
    BY <1>1, <1>4

LEMMA LoadStatesType ==
  ASSUME TypeOK, NEW j \in Job, LoadStates(j)
  PROVE  \E s \in HistoryState \cup {Off} : job' = [job EXCEPT ![j] = s]
  <1> DEFINE st == [v \in Valve |-> [row |-> alerts[v], cool |-> None]]
             s == [pc |-> "history", run |-> job[j].run, fresh |-> job[j].fresh,
                   states |-> st]
  <1>1. job[j] \in PersistState
    BY ByPc DEF TypeOK, LoadStates
  <1>2. job[j].run \in Nat /\ job[j].fresh \in SUBSET Rec
    BY <1>1, PersistFields
  <1>3. st \in States
    BY DEF TypeOK, States, None
  <1>4. job' = [job EXCEPT ![j] = IF job[j].fresh = {} THEN Off ELSE s]
    BY DEF LoadStates
  <1>5. s \in HistoryState
    <2> HIDE DEF st
    <2> QED
      BY <1>2, <1>3 DEF HistoryState
  <1> QED
    BY <1>4, <1>5

LEMMA LoadHistoryType ==
  ASSUME TInv, NEW j \in Job, LoadHistory(j)
  PROVE  \E s \in DecideState : Bounded(s) /\ job' = [job EXCEPT ![j] = s]
  <1> DEFINE h == [v \in Valve |-> History(Stored(v, job[j].run))]
             s == [pc |-> "decide", run |-> job[j].run, todo |-> job[j].fresh,
                   fresh |-> job[j].fresh, states |-> job[j].states,
                   events |-> <<>>, hist |-> h]
  <1>1. job[j] \in HistoryState
    BY ByPc DEF TInv, TypeOK, LoadHistory
  <1>2. /\ job[j].run \in Nat /\ job[j].fresh \in SUBSET Rec
        /\ job[j].states \in States
    BY <1>1 DEF HistoryState
  <1>3. h \in [Valve -> Seq(BOOLEAN)] /\ \A v \in Valve : Len(h[v]) <= N
    BY HistType
  <1>4. job' = [job EXCEPT ![j] = s]
    BY DEF LoadHistory, TInv, TypeOK
  <1>5. s \in DecideState /\ Bounded(s)
    <2> HIDE DEF h
    <2> QED
      BY <1>2, <1>3 DEF DecideState, Bounded
  <1> QED
    BY <1>4, <1>5

\* The last N of a history that takes one more value.
LEMMA HistStored ==
  ASSUME NEW s \in DecideState, Bounded(s), NEW v \in Valve,
         NEW h \in Seq(BOOLEAN), Len(h) <= N, NEW st \in [row : Row, cool : Nat],
         NEW e \in Seq(Ev), NEW T \in SUBSET Rec
  PROVE  LET t == [s EXCEPT !.todo = T, !.hist[v] = h, !.states[v] = st,
                            !.events = e]
         IN t \in DecideState /\ Bounded(t)
  <1> DEFINE H == [s.hist EXCEPT ![v] = h]
             S == [s.states EXCEPT ![v] = st]
             t == [s EXCEPT !.todo = T, !.hist = H, !.states = S, !.events = e]
  <1>1. /\ s.hist \in [Valve -> Seq(BOOLEAN)] /\ s.states \in States
        /\ s.pc = "decide" /\ \A u \in Valve : Len(s.hist[u]) <= N
    BY DEF DecideState, Bounded
  <1>2. H \in [Valve -> Seq(BOOLEAN)] /\ \A u \in Valve : Len(H[u]) <= N
    BY <1>1
  <1>3. S \in States
    BY <1>1 DEF States
  <1> HIDE DEF H, S
  <1>4. t \in DecideState
    BY <1>2, <1>3 DEF DecideState
  <1>5. t.hist = H /\ t.pc = "decide"
    BY <1>1 DEF DecideState
  <1>6. Bounded(t)
    <2> HIDE DEF t
    <2> QED
      BY <1>2, <1>5 DEF Bounded
  <1> QED
    BY <1>4, <1>6 DEF H, S

LEMMA DecideType ==
  ASSUME TypeOK, NEW j \in Job, NEW r \in Rec, Decide(j, r)
  PROVE  \E s \in DecideState : Bounded(s) /\ job' = [job EXCEPT ![j] = s]
  <1> DEFINE st == job[j].states[r.valve]
             h == LastN(Append(job[j].hist[r.valve], Above(r.score)))
             to == Transition(st, h, r)
             e == IF to = "none" THEN job[j].events
                  ELSE Append(job[j].events, Event(st, to, r))
             T == job[j].todo \ {r}
             m == InMemory(st, to, r)
             s == [job[j] EXCEPT !.todo = T, !.hist[r.valve] = h,
                                 !.states[r.valve] = m, !.events = e]
  <1>1. job[j] \in DecideState /\ Bounded(job[j])
    BY ByPc DEF TypeOK, Decide, Bounded
  <1>2. /\ r.valve \in Valve /\ r.window \in Window /\ r.score \in Level
        /\ job[j].hist[r.valve] \in Seq(BOOLEAN)
        /\ st \in [row : Row, cool : Nat] /\ job[j].events \in Seq(Ev)
        /\ job[j].todo \in SUBSET Rec
    BY <1>1 DEF DecideState, States, Rec
  <1>3. Append(job[j].hist[r.valve], Above(r.score)) \in Seq(BOOLEAN)
    BY <1>2 DEF Above
  <1>4. h \in Seq(BOOLEAN) /\ Len(h) <= N
    BY <1>3, LastNType
  <1>5. job' = [job EXCEPT ![j] = s]
    BY DEF Decide, TypeOK
  <1> HIDE DEF h, st
  <1>6. to \in {"none", "open", "sustained", "closed"}
    BY DEF Transition
  <1> HIDE DEF to
  <1>7. m \in [row : Row, cool : Nat]
    BY <1>2, InMemoryType
  <1>8. to # "none" => Event(st, to, r) \in Ev
    <2>1. st.row.status \in Status
      BY <1>2 DEF Row
    <2> QED
      BY <1>2, <1>6, <2>1 DEF Event, Ev, Status
  <1>9. e \in Seq(Ev)
    BY <1>2, <1>8
  <1>10. T \in SUBSET Rec
    BY <1>2
  <1> HIDE DEF m, e, T
  <1>11. s \in DecideState /\ Bounded(s)
    BY <1>1, <1>2, <1>4, <1>7, <1>9, <1>10, HistStored
  <1> QED
    BY <1>5, <1>11

LEMMA ReadBaselineType ==
  ASSUME TypeOK, NEW j \in Job, ReadBaseline(j)
  PROVE  \E s \in WriteState \cup {Off} :
           Bounded(s) /\ job' = [job EXCEPT ![j] = s]
  <1> DEFINE s == [pc |-> "upsert", run |-> job[j].run, fresh |-> job[j].fresh,
                   states |-> job[j].states, events |-> job[j].events,
                   base |-> alerts]
  <1>1. job[j] \in DecideState
    BY ByPc DEF TypeOK, ReadBaseline
  <1>2. job' = [job EXCEPT ![j] = IF job[j].events = <<>> THEN Off ELSE s]
    BY DEF ReadBaseline, TypeOK
  <1>3. s \in WriteState
    BY <1>1 DEF DecideState, WriteState, TypeOK
  <1>4. job[j].events # <<>> => Bounded(s)
    BY DEF Bounded
  <1>5. Bounded(Off)
    BY DEF Bounded, Off
  <1> QED
    BY <1>2, <1>3, <1>4, <1>5

LEMMA WriteFields ==
  ASSUME TypeOK, NEW j \in Job, UpsertAlert(j) \/ InsertTransition(j)
  PROVE  /\ job[j] \in WriteState /\ job[j].events \in Seq(Ev)
         /\ job[j].events # <<>> /\ Head(job[j].events) \in Ev
         /\ Head(job[j].events).valve \in Valve
  <1>1. job[j] \in WriteState /\ job[j].events # <<>>
    BY ByPc DEF TypeOK, UpsertAlert, InsertTransition
  <1>2. job[j].events \in Seq(Ev)
    BY <1>1 DEF WriteState
  <1>3. Head(job[j].events) \in Ev
    BY <1>1, <1>2
  <1> QED
    BY <1>1, <1>2, <1>3 DEF Ev

LEMMA UpsertType ==
  ASSUME TypeOK, NEW j \in Job, UpsertAlert(j)
  PROVE  /\ alerts' \in [Valve -> Row]
         /\ \E s \in WriteState : Bounded(s) /\ job' = [job EXCEPT ![j] = s]
  <1> DEFINE ev == Head(job[j].events)
             row == FullStatePayload(job[j].base[ev.valve], ev)
             s == [job[j] EXCEPT !.pc = "insert", !.base[ev.valve] = row]
             B == [job[j].base EXCEPT ![ev.valve] = row]
  <1>1. ev \in Ev /\ ev.valve \in Valve /\ job[j] \in WriteState
        /\ job[j].events # <<>>
    BY WriteFields
  <1>2. job[j].base \in [Valve -> Row]
    BY <1>1 DEF WriteState
  <1>3. /\ alerts' = [alerts EXCEPT ![ev.valve] = row]
        /\ job' = [job EXCEPT ![j] = s]
    BY DEF UpsertAlert, TypeOK
  <1> HIDE DEF ev
  <1>4. row \in Row
    BY <1>1, <1>2, PayloadType
  <1> HIDE DEF row
  <1>5. B \in [Valve -> Row] /\ alerts' \in [Valve -> Row]
    BY <1>2, <1>3, <1>4 DEF TypeOK
  <1>6. s = [job[j] EXCEPT !.pc = "insert", !.base = B]
    OBVIOUS
  <1> HIDE DEF B, s
  <1>7. s \in WriteState /\ s.events = job[j].events /\ s.pc = "insert"
    BY <1>1, <1>5, <1>6 DEF WriteState
  <1> QED
    BY <1>1, <1>3, <1>5, <1>7 DEF Bounded

LEMMA TailType ==
  ASSUME NEW s \in Seq(Ev), s # <<>>
  PROVE  Tail(s) \in Seq(Ev) /\ (Len(s) # 1 => Tail(s) # <<>>)
  <1>1. Len(s) \in Nat /\ Len(s) # 0
    OBVIOUS
  <1>2. Tail(s) \in Seq(Ev) /\ Len(Tail(s)) = Len(s) - 1
    BY <1>1
  <1>3. Len(<<>>) = 0
    OBVIOUS
  <1>4. Len(s) # 1 => Len(Tail(s)) # 0
    BY <1>1, <1>2
  <1> QED
    BY <1>2, <1>3, <1>4

LEMMA InsertType ==
  ASSUME TypeOK, NEW j \in Job, InsertTransition(j)
  PROVE  /\ log' \in [Valve -> Seq(Ev)]
         /\ \E s \in WriteState \cup {Off} :
              Bounded(s) /\ job' = [job EXCEPT ![j] = s]
  <1> DEFINE ev == Head(job[j].events)
             e == Tail(job[j].events)
             s == [job[j] EXCEPT !.pc = "upsert", !.events = e]
  <1>1. /\ ev \in Ev /\ ev.valve \in Valve /\ job[j] \in WriteState
        /\ job[j].events \in Seq(Ev) /\ job[j].events # <<>>
    BY WriteFields
  <1>2. /\ log' = [log EXCEPT ![ev.valve] = Append(@, ev)]
        /\ job' = [job EXCEPT ![j] = IF Len(job[j].events) = 1 THEN Off ELSE s]
    BY DEF InsertTransition, TypeOK
  <1>3. e \in Seq(Ev) /\ (Len(job[j].events) # 1 => e # <<>>)
    BY <1>1, TailType
  <1> HIDE DEF ev, e
  <1>4. log' \in [Valve -> Seq(Ev)]
    BY <1>1, <1>2 DEF TypeOK
  <1>5. s \in WriteState /\ s.pc = "upsert" /\ s.events = e
    BY <1>1, <1>3 DEF WriteState
  <1> HIDE DEF s
  <1>6. Len(job[j].events) # 1 => Bounded(s)
    BY <1>3, <1>5 DEF Bounded
  <1>7. Bounded(Off)
    BY DEF Bounded, Off
  <1> QED
    BY <1>2, <1>4, <1>5, <1>6, <1>7

-----------------------------------------------------------------------------
(* Every step keeps the invariant.                                           *)

\* A step whose process stays well typed and that leaves the tables alone.
LEMMA OnlyJob ==
  ASSUME TInv, NEW j \in Job, NEW s \in JobState, Bounded(s),
         job' = [job EXCEPT ![j] = s],
         UNCHANGED <<raw, preds>>, alerts' \in [Valve -> Row],
         log' \in [Valve -> Seq(Ev)], runs' \in 0..MaxRun, dies' \in 0..MaxDie
  PROVE  TInv'
  <1>1. job' \in [Job -> JobState] /\ \A i \in Job : Bounded(job'[i])
    BY JobUpdate DEF TInv
  <1> QED
    BY <1>1 DEF TInv, TypeOK, Bounded

LEMMA TInvInit == Init => TInv
  <1> SUFFICES ASSUME Init
               PROVE  TInv
    OBVIOUS
  <1>1. Blank \in Row
    BY AlertsAssumption DEF Blank, Row, Status, None, Level
  <1>2. <<>> \in Seq(Ev)
    OBVIOUS
  <1>3. IsFiniteSet(preds)
    BY FS_EmptySet DEF Init
  <1>4. \A j \in Job : job[j] = Off /\ job[j].pc = "off"
    BY DEF Init, Off
  <1> QED
    BY <1>1, <1>2, <1>3, <1>4, AlertsAssumption
    DEF Init, TInv, TypeOK, JobState

\* The steps of one process, by where they leave it.
LEMMA TInvJob ==
  ASSUME TInv, NEW j \in Job, StartRun(j) \/ JobStep(j) \/ Abandon(j)
  PROVE  TInv'
  <1>1. TypeOK /\ IsFiniteSet(preds)
    BY DEF TInv
  <1>2. /\ alerts \in [Valve -> Row] /\ log \in [Valve -> Seq(Ev)]
        /\ runs \in 0..MaxRun /\ dies \in 0..MaxDie
        /\ MaxRun \in Nat /\ MaxDie \in Nat
    BY <1>1, AlertsAssumption DEF TypeOK
  <1>3. ASSUME NEW s \in PersistState \cup HistoryState \cup {Off}
        PROVE  s \in JobState /\ Bounded(s)
    BY DEF JobState, Bounded, PersistState, HistoryState, Off
  <1>4. DecideState \cup WriteState \subseteq JobState
    BY DEF JobState
  <1>5. CASE StartRun(j)
    <2>1. PICK s \in PersistState : job' = [job EXCEPT ![j] = s]
      BY <1>1, <1>5, StartRunType
    <2>2. /\ UNCHANGED <<raw, preds, alerts, log, dies>>
          /\ runs' \in 0..MaxRun
      BY <1>2, <1>5 DEF StartRun
    <2> QED
      BY <1>2, <1>3, <2>1, <2>2, OnlyJob
  <1>6. ASSUME NEW r \in Rec, ReadWatermark(j, r) \/ SkipRecord(j, r)
        PROVE  TInv'
    <2>1. PICK s \in PersistState : job' = [job EXCEPT ![j] = s]
      BY <1>1, <1>6, ReadWatermarkType, PersistStepType
    <2>2. UNCHANGED <<raw, preds, alerts, log, runs, dies>>
      BY <1>6 DEF ReadWatermark, SkipRecord
    <2> QED
      BY <1>2, <1>3, <2>1, <2>2, OnlyJob
  <1>7. ASSUME NEW r \in Rec, PersistRecord(j, r)
        PROVE  TInv'
    <2> DEFINE p == [valve |-> r.valve, window |-> r.window, score |-> r.score,
                     run |-> job[j].run]
    <2>1. PICK s \in PersistState : job' = [job EXCEPT ![j] = s]
      BY <1>1, <1>7, PersistStepType
    <2>2. /\ UNCHANGED <<raw, alerts, log, runs, dies>>
          /\ preds' = preds \cup {p}
      BY <1>7 DEF PersistRecord
    <2>3. job[j] \in PersistState
      BY <1>1, <1>7, ByPc DEF TypeOK, PersistRecord, Persisting
    <2>4. p \in Pred
      BY <2>3, PersistFields DEF Rec, Pred
    <2> HIDE DEF p
    <2>5. IsFiniteSet(preds')
      BY <1>1, <2>2, FS_AddElement
    <2>6. job' \in [Job -> JobState] /\ \A i \in Job : Bounded(job'[i])
      BY <1>1, <1>3, <2>1, JobUpdate
    <2> QED
      BY <1>1, <2>2, <2>4, <2>5, <2>6 DEF TInv, TypeOK, Bounded
  <1>8. ASSUME NEW r \in Rec, Decide(j, r)
        PROVE  TInv'
    <2>1. PICK s \in DecideState : Bounded(s) /\ job' = [job EXCEPT ![j] = s]
      BY <1>1, <1>8, DecideType
    <2>2. UNCHANGED <<raw, preds, alerts, log, runs, dies>>
      BY <1>8 DEF Decide
    <2> QED
      BY <1>2, <1>4, <2>1, <2>2, OnlyJob
  <1>9. CASE LoadStates(j)
    <2>1. PICK s \in HistoryState \cup {Off} : job' = [job EXCEPT ![j] = s]
      BY <1>1, <1>9, LoadStatesType
    <2>2. UNCHANGED <<raw, preds, alerts, log, runs, dies>>
      BY <1>9 DEF LoadStates
    <2> QED
      BY <1>2, <1>3, <2>1, <2>2, OnlyJob
  <1>10. CASE LoadHistory(j)
    <2>1. PICK s \in DecideState : Bounded(s) /\ job' = [job EXCEPT ![j] = s]
      BY <1>10, LoadHistoryType
    <2>2. UNCHANGED <<raw, preds, alerts, log, runs, dies>>
      BY <1>10 DEF LoadHistory
    <2> QED
      BY <1>2, <1>4, <2>1, <2>2, OnlyJob
  <1>11. CASE ReadBaseline(j)
    <2>1. PICK s \in WriteState \cup {Off} :
            Bounded(s) /\ job' = [job EXCEPT ![j] = s]
      BY <1>1, <1>11, ReadBaselineType
    <2>2. UNCHANGED <<raw, preds, alerts, log, runs, dies>>
      BY <1>11 DEF ReadBaseline
    <2> QED
      BY <1>2, <1>3, <1>4, <2>1, <2>2, OnlyJob
  <1>12. CASE UpsertAlert(j)
    <2>1. PICK s \in WriteState : Bounded(s) /\ job' = [job EXCEPT ![j] = s]
      BY <1>1, <1>12, UpsertType
    <2>2. /\ UNCHANGED <<raw, preds, log, runs, dies>>
          /\ alerts' \in [Valve -> Row]
      BY <1>1, <1>12, UpsertType DEF UpsertAlert
    <2> QED
      BY <1>2, <1>4, <2>1, <2>2, OnlyJob
  <1>13. CASE InsertTransition(j)
    <2>1. PICK s \in WriteState \cup {Off} :
            Bounded(s) /\ job' = [job EXCEPT ![j] = s]
      BY <1>1, <1>13, InsertType
    <2>2. /\ UNCHANGED <<raw, preds, alerts, runs, dies>>
          /\ log' \in [Valve -> Seq(Ev)]
      BY <1>1, <1>13, InsertType DEF InsertTransition
    <2> QED
      BY <1>2, <1>3, <1>4, <2>1, <2>2, OnlyJob
  <1>14. CASE Abandon(j)
    <2>1. /\ UNCHANGED <<raw, preds, alerts, log, runs>>
          /\ dies' \in 0..MaxDie /\ job' = [job EXCEPT ![j] = Off]
      BY <1>2, <1>14 DEF Abandon
    <2> QED
      BY <1>2, <1>3, <2>1, OnlyJob
  <1> QED
    BY <1>5, <1>6, <1>7, <1>8, <1>9, <1>10, <1>11, <1>12, <1>13, <1>14
    DEF JobStep

LEMMA TInvNext == TInv /\ [Next]_vars => TInv'
  <1> SUFFICES ASSUME TInv, [Next]_vars
               PROVE  TInv'
    OBVIOUS
  <1>1. ASSUME NEW v \in Valve, NEW w \in Window, NEW s \in Level,
               WindowCompletes(v, w, s)
        PROVE  TInv'
    <2>1. raw' \in [Valve -> [Window -> Level \cup {Missing}]]
      BY <1>1 DEF WindowCompletes, TInv, TypeOK
    <2> QED
      BY <1>1, <2>1 DEF WindowCompletes, TInv, TypeOK
  <1>2. CASE UNCHANGED vars
    BY <1>2 DEF vars, TInv, TypeOK
  <1> QED
    BY <1>1, <1>2, TInvJob DEF Next

LEMMA Typing == Spec => []TInv
  BY TInvInit, TInvNext, PTL DEF Spec

\* The tables and every inference process keep their shape: in particular the
\* history the K-of-N rule counts never grows past N (alert.py's deque), for
\* any number of valves, windows, processes, runs and deaths.
THEOREM TypeCorrect == Spec => []TypeOK
  <1>1. TInv => TypeOK
    BY DEF TInv
  <1> QED
    BY <1>1, Typing, PTL

-----------------------------------------------------------------------------
(* One prediction per window.                                                *)

\* The records still to persist are distinct windows, and the watermark of a
\* valve, once read, holds every window of theirs that is in the table.
Covered(s) ==
  s.pc = "persist" =>
    /\ \A q, r \in s.todo : q.valve = r.valve /\ q.window = r.window => q = r
    /\ \A r \in s.todo, p \in preds :
         /\ r.valve \in DOMAIN s.known
         /\ p.valve = r.valve /\ p.window = r.window
         => r.window \in s.known[r.valve]

IInv == TInv /\ OnePredictionPerWindow /\ \A j \in Job : Covered(job[j])

LEMMA IInvInit == Init => IInv
  BY TInvInit DEF Init, IInv, OnePredictionPerWindow, Covered, Off

\* A process that leaves the persist phase owes nothing.
LEMMA NotPersisting ==
  ASSUME NEW s \in HistoryState \cup DecideState \cup WriteState \cup {Off}
  PROVE  Covered(s)
  <1>1. s.pc # "persist"
    BY DEF HistoryState, DecideState, WriteState, Off
  <1> QED
    BY <1>1 DEF Covered

\* A step of the only process that stores no prediction.
LEMMA OnePredictionJob ==
  ASSUME IInv, \A i, k \in Job : i = k, NEW j \in Job,
         NEW s, job' = [job EXCEPT ![j] = s], preds' = preds, Covered(s)
  PROVE  OnePredictionPerWindow' /\ \A i \in Job : Covered(job[i])'
  <1>1. \A i \in Job : job'[i] = s
    BY DEF IInv, TInv, TypeOK
  <1>2. \A i \in Job : Covered(job[i])'
    BY <1>1 DEF Covered
  <1> QED
    BY <1>2 DEF IInv, OnePredictionPerWindow

LEMMA WatermarkCovers ==
  ASSUME IInv, NEW j \in Job, NEW r \in Rec, ReadWatermark(j, r)
  PROVE  \E s : Covered(s) /\ job' = [job EXCEPT ![j] = s]
  <1> DEFINE k == [v \in DOMAIN job[j].known \cup {r.valve} |->
                     IF v = r.valve THEN Watermark(v) ELSE job[j].known[v]]
             s == [job[j] EXCEPT !.known = k]
  <1>1. job[j] \in PersistState /\ Covered(job[j])
    BY ByPc DEF IInv, TInv, TypeOK, ReadWatermark, Persisting
  <1>2. job' = [job EXCEPT ![j] = s]
    BY DEF ReadWatermark, IInv, TInv, TypeOK
  <1>3. s.known = k /\ s.todo = job[j].todo /\ s.pc = "persist"
    BY <1>1 DEF PersistState
  <1>4. ASSUME NEW q \in job[j].todo, NEW p \in preds, q.valve \in DOMAIN k,
               p.valve = q.valve, p.window = q.window
        PROVE  q.window \in k[q.valve]
    <2>1. CASE q.valve = r.valve
      <3>1. k[q.valve] = Watermark(q.valve)
        BY <2>1
      <3> QED
        BY <1>4, <3>1 DEF Watermark
    <2>2. CASE q.valve # r.valve
      <3>1. q.valve \in DOMAIN job[j].known /\ k[q.valve] = job[j].known[q.valve]
        BY <1>4, <2>2
      <3>2. job[j].pc = "persist"
        BY <1>1 DEF PersistState
      <3> QED
        BY <1>1, <1>4, <3>1, <3>2 DEF Covered
    <2> QED
      BY <2>1, <2>2
  <1>5. \A q, t \in job[j].todo :
          q.valve = t.valve /\ q.window = t.window => q = t
    BY <1>1 DEF Covered, PersistState
  <1> HIDE DEF k, s
  <1>6. Covered(s)
    BY <1>3, <1>4, <1>5 DEF Covered
  <1> QED
    BY <1>2, <1>6

LEMMA SkipCovers ==
  ASSUME IInv, NEW j \in Job, NEW r \in Rec, SkipRecord(j, r)
  PROVE  \E s : Covered(s) /\ job' = [job EXCEPT ![j] = s]
  <1> DEFINE s == [job[j] EXCEPT !.todo = @ \ {r}]
  <1>1. job[j] \in PersistState /\ Covered(job[j])
    BY ByPc DEF IInv, TInv, TypeOK, SkipRecord, Persisting
  <1>2. job' = [job EXCEPT ![j] = s]
    BY DEF SkipRecord, IInv, TInv, TypeOK
  <1>3. /\ s.known = job[j].known /\ s.todo = job[j].todo \ {r}
        /\ job[j].pc = "persist"
    BY <1>1 DEF PersistState
  <1> HIDE DEF s
  <1>4. Covered(s)
    BY <1>1, <1>3 DEF Covered
  <1> QED
    BY <1>2, <1>4

\* run: every record becomes one of another window.
LEMMA StartCovers ==
  ASSUME IInv, NEW j \in Job, StartRun(j)
  PROVE  \E s : Covered(s) /\ job' = [job EXCEPT ![j] = s]
  <1> DEFINE R == {r \in Rec : r.score = raw[r.valve][r.window]}
             s == [pc |-> "persist", run |-> runs, todo |-> R, known |-> <<>>,
                   fresh |-> {}]
  <1>1. job' = [job EXCEPT ![j] = s]
    BY DEF StartRun
  <1>2. \A q, r \in R : q.valve = r.valve /\ q.window = r.window => q = r
    BY DEF Rec
  <1>3. s.todo = R /\ s.known = <<>> /\ DOMAIN <<>> = {}
    OBVIOUS
  <1> HIDE DEF R, s
  <1>4. Covered(s)
    BY <1>2, <1>3 DEF Covered
  <1> QED
    BY <1>1, <1>4

\* insert_prediction: the window was not in the table, and no other record of
\* the run is of the same window.
LEMMA PersistCovers ==
  ASSUME IInv, \A i, k \in Job : i = k, NEW j \in Job, NEW r \in Rec,
         PersistRecord(j, r)
  PROVE  OnePredictionPerWindow' /\ \A i \in Job : Covered(job[i])'
  <1> DEFINE p == [valve |-> r.valve, window |-> r.window, score |-> r.score,
                   run |-> job[j].run]
             s == [job[j] EXCEPT !.todo = @ \ {r}, !.fresh = @ \cup {r}]
  <1>1. /\ job[j] \in PersistState /\ Covered(job[j]) /\ r \in job[j].todo
        /\ job[j].pc = "persist" /\ OnePredictionPerWindow
    BY ByPc DEF IInv, TInv, TypeOK, PersistRecord, Persisting, IsFirst
  <1>2. \A q \in preds : ~(q.valve = p.valve /\ q.window = p.window)
    BY <1>1 DEF PersistRecord, Covered
  <1>3. preds' = preds \cup {p}
    BY DEF PersistRecord
  <1>4. OnePredictionPerWindow'
    <2> HIDE DEF p
    <2> QED
      BY <1>1, <1>2, <1>3 DEF OnePredictionPerWindow
  <1>5. \A i \in Job : job'[i] = s
    BY DEF PersistRecord, IInv, TInv, TypeOK
  <1>6. s.known = job[j].known /\ s.todo = job[j].todo \ {r}
    BY <1>1 DEF PersistState
  <1>7. \A q \in job[j].todo \ {r} : ~(p.valve = q.valve /\ p.window = q.window)
    BY <1>1 DEF Covered
  <1> HIDE DEF p, s
  <1>8. /\ \A q, t \in s.todo : q.valve = t.valve /\ q.window = t.window => q = t
        /\ \A q \in s.todo, u \in preds' :
             /\ q.valve \in DOMAIN s.known
             /\ u.valve = q.valve /\ u.window = q.window
             => q.window \in s.known[q.valve]
    BY <1>1, <1>3, <1>6, <1>7 DEF Covered
  <1>9. \A i \in Job : Covered(job[i])'
    BY <1>5, <1>8 DEF Covered
  <1> QED
    BY <1>4, <1>9

LEMMA OnePredictionNext ==
  ASSUME \A i, k \in Job : i = k
  PROVE  IInv /\ [Next]_vars => IInv'
  <1> SUFFICES ASSUME IInv, [Next]_vars
               PROVE  OnePredictionPerWindow' /\ \A j \in Job : Covered(job[j])'
    BY TInvNext DEF IInv
  <1>1. TInv /\ TypeOK
    BY DEF IInv, TInv
  <1>2. Covered(Off)
    BY NotPersisting
  <1>3. ASSUME UNCHANGED <<preds, job>>
        PROVE  OnePredictionPerWindow' /\ \A j \in Job : Covered(job[j])'
    BY <1>3 DEF IInv, OnePredictionPerWindow, Covered
  <1>4. ASSUME NEW v \in Valve, NEW w \in Window, NEW s \in Level,
               WindowCompletes(v, w, s)
        PROVE  UNCHANGED <<preds, job>>
    BY <1>4 DEF WindowCompletes
  <1>5. ASSUME NEW j \in Job, StartRun(j)
        PROVE  preds' = preds /\ \E s : Covered(s) /\ job' = [job EXCEPT ![j] = s]
    BY <1>5, StartCovers DEF StartRun
  <1>6. ASSUME NEW j \in Job, NEW r \in Rec,
               ReadWatermark(j, r) \/ SkipRecord(j, r) \/ Decide(j, r)
        PROVE  preds' = preds /\ \E s : Covered(s) /\ job' = [job EXCEPT ![j] = s]
    <2>1. CASE ReadWatermark(j, r)
      BY <2>1, WatermarkCovers DEF ReadWatermark
    <2>2. CASE SkipRecord(j, r)
      BY <2>2, SkipCovers DEF SkipRecord
    <2>3. CASE Decide(j, r)
      BY <1>1, <2>3, DecideType, NotPersisting DEF Decide
    <2> QED
      BY <1>6, <2>1, <2>2, <2>3
  <1>7. ASSUME NEW j \in Job,
               \/ LoadStates(j) \/ LoadHistory(j) \/ ReadBaseline(j)
               \/ UpsertAlert(j) \/ InsertTransition(j) \/ Abandon(j)
        PROVE  preds' = preds /\ \E s : Covered(s) /\ job' = [job EXCEPT ![j] = s]
    <2>1. CASE LoadStates(j)
      BY <1>1, <2>1, LoadStatesType, NotPersisting DEF LoadStates
    <2>2. CASE LoadHistory(j)
      BY <1>1, <2>2, LoadHistoryType, NotPersisting DEF LoadHistory
    <2>3. CASE ReadBaseline(j)
      BY <1>1, <2>3, ReadBaselineType, NotPersisting DEF ReadBaseline
    <2>4. CASE UpsertAlert(j)
      BY <1>1, <2>4, UpsertType, NotPersisting DEF UpsertAlert
    <2>5. CASE InsertTransition(j)
      BY <1>1, <2>5, InsertType, NotPersisting DEF InsertTransition
    <2>6. CASE Abandon(j)
      BY <1>2, <2>6 DEF Abandon
    <2> QED
      BY <1>7, <2>1, <2>2, <2>3, <2>4, <2>5, <2>6
  <1>8. ASSUME NEW j \in Job, NEW r \in Rec, PersistRecord(j, r)
        PROVE  OnePredictionPerWindow' /\ \A i \in Job : Covered(job[i])'
    BY <1>8, PersistCovers
  <1>9. ASSUME NEW j \in Job, preds' = preds,
               \E s : Covered(s) /\ job' = [job EXCEPT ![j] = s]
        PROVE  OnePredictionPerWindow' /\ \A i \in Job : Covered(job[i])'
    BY <1>9, OnePredictionJob
  <1>10. CASE UNCHANGED vars
    BY <1>3, <1>10 DEF vars
  <1> QED
    BY <1>3, <1>4, <1>5, <1>6, <1>7, <1>8, <1>9, <1>10 DEF Next, JobStep

\* With one inference process at a time, however many runs die between storing
\* a prediction and what follows it, no window of a valve is ever predicted
\* twice (module Alerts' run with two processes shows why one is needed).
THEOREM OnePredictionCorrect ==
  ASSUME \A i, k \in Job : i = k
  PROVE  Spec => []OnePredictionPerWindow
  <1>1. IInv /\ [Next]_vars => IInv'
    BY OnePredictionNext
  <1>2. IInv => OnePredictionPerWindow
    BY DEF IInv
  <1> QED
    BY IInvInit, <1>1, <1>2, PTL DEF Spec

-----------------------------------------------------------------------------
(* The events a run decides, and what writing them does to a row and its log. *)

\* An event takes the status of its valve from one value to another; only a
\* closed alert is opened, only a standing one is sustained or closed.
Legal(e) == e.to = "open" <=> e.from = "closed"
Follows(f, e, g) ==
  Legal(e) /\ e.from = f[e.valve] /\ g = [f EXCEPT ![e.valve] = e.to]

\* The events E, one after the other, lead from the statuses f to the statuses g.
Leads(f, E, g) ==
  \E F \in [1..Len(E) + 1 -> [Valve -> Status]] :
    /\ F[1] = f /\ F[Len(E) + 1] = g
    /\ \A i \in 1..Len(E) : Follows(F[i], E[i], F[i + 1])

LEMMA LeadsNowhere ==
  ASSUME NEW f \in [Valve -> Status]
  PROVE  Leads(f, <<>>, f) /\ \A g : Leads(f, <<>>, g) => g = f
  <1>1. Len(<<>>) = 0
    OBVIOUS
  <1> DEFINE F == [i \in 1..1 |-> f]
  <1>2. /\ F \in [1..Len(<<>>) + 1 -> [Valve -> Status]] /\ F[1] = f
        /\ 1..Len(<<>>) = {} /\ F[Len(<<>>) + 1] = f
    BY <1>1
  <1> HIDE DEF F
  <1>3. Leads(f, <<>>, f)
    BY <1>2 DEF Leads
  <1> QED
    BY <1>1, <1>3 DEF Leads

LEMMA LeadsAppend ==
  ASSUME NEW f, NEW E \in Seq(Ev), NEW g \in [Valve -> Status], NEW e \in Ev,
         Leads(f, E, g), Legal(e), e.from = g[e.valve]
  PROVE  Leads(f, Append(E, e), [g EXCEPT ![e.valve] = e.to])
  <1> DEFINE n == Len(E)
             h == [g EXCEPT ![e.valve] = e.to]
             E2 == Append(E, e)
  <1>1. PICK F \in [1..n + 1 -> [Valve -> Status]] :
          /\ F[1] = f /\ F[n + 1] = g
          /\ \A i \in 1..n : Follows(F[i], E[i], F[i + 1])
    BY DEF Leads
  <1>2. /\ n \in Nat /\ Len(E2) = n + 1 /\ E2[n + 1] = e
        /\ \A i \in 1..n : E2[i] = E[i]
    OBVIOUS
  <1>3. h \in [Valve -> Status]
    BY DEF Ev
  <1>4. Follows(g, e, h)
    BY DEF Follows
  <1> HIDE DEF n, h, E2
  <1> DEFINE F2 == [i \in 1..n + 2 |-> IF i = n + 2 THEN h ELSE F[i]]
  <1>5. F2 \in [1..Len(E2) + 1 -> [Valve -> Status]]
    <2>1. Len(E2) + 1 = n + 2 /\ \A i \in 1..n + 2 : i = n + 2 \/ i \in 1..n + 1
      BY <1>2
    <2>2. \A i \in 1..n + 2 : F2[i] \in [Valve -> Status]
      BY <1>1, <1>3, <2>1
    <2> QED
      BY <2>1, <2>2
  <1>6. /\ F2[1] = f /\ F2[Len(E2) + 1] = h /\ F2[n + 1] = g
        /\ \A i \in 1..n + 1 : F2[i] = F[i]
    BY <1>1, <1>2
  <1>7. ASSUME NEW i \in 1..Len(E2) PROVE Follows(F2[i], E2[i], F2[i + 1])
    <2>1. CASE i = n + 1
      <3>1. F2[i] = g /\ E2[i] = e /\ F2[i + 1] = h
        BY <1>2, <1>6, <2>1
      <3> QED
        BY <1>4, <3>1
    <2>2. CASE i # n + 1
      <3>1. i \in 1..n /\ i + 1 \in 1..n + 1
        BY <1>2, <2>2
      <3>2. F2[i] = F[i] /\ E2[i] = E[i] /\ F2[i + 1] = F[i + 1]
        BY <1>2, <1>6, <3>1
      <3> QED
        BY <1>1, <3>1, <3>2
    <2> QED
      BY <2>1, <2>2
  <1> HIDE DEF F2
  <1>8. Leads(f, E2, h)
    BY <1>5, <1>6, <1>7 DEF Leads
  <1> QED
    BY <1>8 DEF E2, h

LEMMA LeadsTail ==
  ASSUME NEW f \in [Valve -> Status], NEW E \in Seq(Ev), E # <<>>, NEW g,
         Leads(f, E, g)
  PROVE  /\ Legal(Head(E)) /\ Head(E).from = f[Head(E).valve]
         /\ Leads([f EXCEPT ![Head(E).valve] = Head(E).to], Tail(E), g)
  <1> DEFINE n == Len(E)
             T == Tail(E)
  <1>1. PICK F \in [1..n + 1 -> [Valve -> Status]] :
          /\ F[1] = f /\ F[n + 1] = g
          /\ \A i \in 1..n : Follows(F[i], E[i], F[i + 1])
    BY DEF Leads
  <1>2. /\ n \in Nat \ {0} /\ Len(T) = n - 1 /\ Head(E) = E[1]
        /\ \A i \in 1..n - 1 : T[i] = E[i + 1]
    OBVIOUS
  <1> HIDE DEF n, T
  <1>3. Follows(f, Head(E), F[2])
    BY <1>1, <1>2
  <1> DEFINE F2 == [i \in 1..n |-> F[i + 1]]
  <1>4. F2 \in [1..Len(T) + 1 -> [Valve -> Status]]
    BY <1>1, <1>2
  <1>5. F2[1] = F[2] /\ F2[Len(T) + 1] = g
    BY <1>1, <1>2
  <1>6. ASSUME NEW i \in 1..Len(T) PROVE Follows(F2[i], T[i], F2[i + 1])
    <2>1. i + 1 \in 1..n /\ i \in 1..n /\ i \in 1..n - 1
      BY <1>2
    <2>2. F2[i] = F[i + 1] /\ T[i] = E[i + 1] /\ F2[i + 1] = F[i + 1 + 1]
      BY <1>2, <2>1
    <2> QED
      BY <1>1, <2>1, <2>2
  <1> HIDE DEF F2
  <1>7. Leads(F[2], T, g)
    BY <1>4, <1>5, <1>6 DEF Leads
  <1> QED
    BY <1>3, <1>7 DEF Follows, T

\* The last episode of a log and what a row says of it, as in RowSumsUpLog.
LastTo(L) == IF L = <<>> THEN "closed" ELSE L[Len(L)].to
EpisodeOf(L) ==
  {i \in DOMAIN L : \A k \in i + 1..Len(L) : L[k].to # "open"}
AboveOf(L) == {i \in EpisodeOf(L) : L[i].to # "closed"}
SumsUp(row, L) ==
  /\ row.status = LastTo(L)
  /\ L # <<>> =>
       /\ row.n = Cardinality(AboveOf(L))
       /\ \E i \in AboveOf(L) : L[i].to = "open" /\ row.opened = L[i].window
       /\ row.max \in {L[i].score : i \in EpisodeOf(L)}
       /\ \A i \in EpisodeOf(L) : L[i].score <= row.max
       /\ \E i \in AboveOf(L) : row.last = L[i].window
                                /\ \A k \in AboveOf(L) : k <= i

\* An appended transition either starts the last episode or joins it.
LEMMA EpisodeAppend ==
  ASSUME NEW L \in Seq(Ev), NEW e \in Ev
  PROVE  LET n == Len(L)
             M == Append(L, e)
         IN  /\ n \in Nat /\ Len(M) = n + 1 /\ M[n + 1] = e
             /\ \A i \in 1..n : M[i] = L[i]
             /\ EpisodeOf(L) \subseteq 1..n
             /\ e.to = "open" => EpisodeOf(M) = {n + 1}
             /\ e.to # "open" => EpisodeOf(M) = EpisodeOf(L) \cup {n + 1}
  <1> DEFINE n == Len(L)
             M == Append(L, e)
  <1>1. /\ n \in Nat /\ Len(M) = n + 1 /\ M[n + 1] = e
        /\ DOMAIN L = 1..n /\ DOMAIN M = 1..n + 1
        /\ \A i \in 1..n : M[i] = L[i]
    OBVIOUS
  <1> HIDE DEF n, M
  <1>2. n + 1 \in EpisodeOf(M)
    BY <1>1 DEF EpisodeOf
  <1>3. ASSUME NEW i \in EpisodeOf(M), i # n + 1
        PROVE  i \in EpisodeOf(L) /\ e.to # "open"
    <2>1. i \in 1..n /\ n + 1 \in i + 1..n + 1
      BY <1>1, <1>3 DEF EpisodeOf
    <2>2. \A k \in i + 1..n + 1 : M[k].to # "open"
      BY <1>1, <1>3 DEF EpisodeOf
    <2>3. \A k \in i + 1..n : k \in i + 1..n + 1 /\ L[k] = M[k]
      BY <1>1, <2>1
    <2>4. \A k \in i + 1..n : L[k].to # "open"
      BY <2>2, <2>3
    <2> QED
      BY <1>1, <2>1, <2>2, <2>4 DEF EpisodeOf, n
  <1>4. ASSUME NEW i \in EpisodeOf(L), e.to # "open"
        PROVE  i \in EpisodeOf(M)
    <2>1. i \in 1..n /\ \A k \in i + 1..n : L[k].to # "open"
      BY <1>1 DEF EpisodeOf, n
    <2>2. \A k \in i + 1..n + 1 : k = n + 1 \/ k \in i + 1..n
      BY <1>1, <2>1
    <2>3. \A k \in i + 1..n + 1 : M[k].to # "open"
      BY <1>1, <1>4, <2>1, <2>2
    <2> QED
      BY <1>1, <2>1, <2>3 DEF EpisodeOf
  <1>5. EpisodeOf(L) \subseteq 1..n
    BY <1>1 DEF EpisodeOf
  <1> QED
    BY <1>1, <1>2, <1>3, <1>4, <1>5 DEF n, M

\* _full_state_payload keeps the row the sum of the transitions of the episode.
LEMMA PayloadSumsUp ==
  ASSUME NEW row \in Row, NEW L \in Seq(Ev), NEW e \in Ev,
         SumsUp(row, L), Legal(e), e.from = row.status
  PROVE  SumsUp(FullStatePayload(row, e), Append(L, e))
  <1> DEFINE n == Len(L)
             M == Append(L, e)
             new == FullStatePayload(row, e)
  <1> SUFFICES SumsUp(new, M)
    OBVIOUS
  <1>1. /\ n \in Nat /\ Len(M) = n + 1 /\ M[n + 1] = e
        /\ \A i \in 1..n : M[i] = L[i]
        /\ EpisodeOf(L) \subseteq 1..n
        /\ e.to = "open" => EpisodeOf(M) = {n + 1}
        /\ e.to # "open" => EpisodeOf(M) = EpisodeOf(L) \cup {n + 1}
    BY EpisodeAppend
  <1>2. M # <<>> /\ LastTo(M) = e.to
    <2>1. Len(M) # Len(<<>>)
      BY <1>1
    <2> HIDE DEF M, n
    <2>2. M # <<>>
      BY <2>1
    <2> QED
      BY <1>1, <2>2 DEF LastTo
  <1>3. /\ e.to \in Status /\ e.score \in Level /\ e.window \in Window
        /\ row.max \in Level /\ row.n \in Nat
    BY DEF Ev, Row
  <1>4. \A i \in 1..n : L[i].score \in Level
    <2>1. \A i \in 1..n : L[i] \in Ev
      OBVIOUS
    <2> QED
      BY <2>1 DEF Ev
  <1> HIDE DEF n, M
  <1>5. AboveOf(L) \subseteq 1..n /\ IsFiniteSet(AboveOf(L))
    <2>1. AboveOf(L) \subseteq 1..n
      BY <1>1 DEF AboveOf
    <2>2. n \in Int /\ 1 \in Int
      BY <1>1
    <2>3. IsFiniteSet(1..n)
      BY <2>2, FS_Interval
    <2>4. IsFiniteSet(AboveOf(L))
      BY <2>1, <2>3, FS_Subset
    <2> QED
      BY <2>1, <2>4
  <1>6. CASE e.to = "open"
    <2>1. AboveOf(M) = {n + 1} /\ EpisodeOf(M) = {n + 1}
      BY <1>1, <1>6 DEF AboveOf
    <2>2. Cardinality({n + 1}) = 1
      BY FS_Singleton
    <2>3. /\ new.status = "open" /\ new.n = 1 /\ new.opened = e.window
          /\ new.max = e.score /\ new.last = e.window
      BY <1>6 DEF FullStatePayload
    <2> HIDE DEF new
    <2> QED
      BY <1>1, <1>2, <1>3, <1>6, <2>1, <2>2, <2>3 DEF SumsUp, Level
  <1>7. CASE e.to # "open"
    <2>1. L # <<>> /\ EpisodeOf(M) = EpisodeOf(L) \cup {n + 1}
      BY <1>1, <1>7 DEF SumsUp, Legal, LastTo
    <2>2. \A i \in EpisodeOf(L) : i \in 1..n /\ M[i] = L[i]
      BY <1>1
    <2>3. AboveOf(M) = IF e.to = "closed" THEN AboveOf(L)
                                          ELSE AboveOf(L) \cup {n + 1}
      BY <1>1, <2>1, <2>2 DEF AboveOf
    <2>4. n + 1 \notin AboveOf(L)
      BY <1>1, <1>5
    <2>5. /\ new.status = e.to /\ new.opened = row.opened
          /\ new.max = MaxOf(row.max, e.score)
          /\ new.n = IF e.to = "closed" THEN row.n ELSE row.n + 1
          /\ new.last = IF e.to = "closed" THEN row.last ELSE e.window
      BY <1>3, <1>7 DEF FullStatePayload, Row, Status
    <2> HIDE DEF new
    <2>6. new.n = Cardinality(AboveOf(M))
      <3>1. row.n = Cardinality(AboveOf(L))
        BY <2>1 DEF SumsUp
      <3>2. Cardinality(AboveOf(L) \cup {n + 1}) = Cardinality(AboveOf(L)) + 1
        BY <1>5, <2>4, FS_AddElement
      <3> QED
        BY <2>3, <2>5, <3>1, <3>2
    <2>7. \E i \in AboveOf(M) : M[i].to = "open" /\ new.opened = M[i].window
      <3>1. PICK i \in AboveOf(L) : L[i].to = "open" /\ row.opened = L[i].window
        BY <2>1 DEF SumsUp
      <3>2. i \in AboveOf(M) /\ M[i] = L[i]
        BY <2>2, <2>3, <3>1 DEF AboveOf
      <3> QED
        BY <2>5, <3>1, <3>2
    <2>8. new.max \in {M[i].score : i \in EpisodeOf(M)}
      <3>1. PICK i \in EpisodeOf(L) : row.max = L[i].score
        BY <2>1 DEF SumsUp
      <3>2. i \in EpisodeOf(M) /\ M[i] = L[i] /\ n + 1 \in EpisodeOf(M)
        BY <2>1, <2>2, <3>1
      <3>3. new.max = M[i].score \/ new.max = M[n + 1].score
        BY <1>1, <2>5, <3>1, <3>2 DEF MaxOf
      <3> QED
        BY <3>2, <3>3
    <2>9. \A i \in EpisodeOf(M) : M[i].score <= new.max
      <3>1. \A i \in EpisodeOf(L) : M[i].score <= row.max /\ M[i].score \in Level
        BY <1>4, <2>1, <2>2 DEF SumsUp
      <3> QED
        BY <1>1, <1>3, <2>1, <2>5, <3>1 DEF MaxOf, Level
    <2>10. \E i \in AboveOf(M) : new.last = M[i].window
                                 /\ \A k \in AboveOf(M) : k <= i
      <3>1. CASE e.to = "closed"
        <4>1. PICK i \in AboveOf(L) : row.last = L[i].window
                                      /\ \A k \in AboveOf(L) : k <= i
          BY <2>1 DEF SumsUp
        <4>2. M[i] = L[i] /\ AboveOf(M) = AboveOf(L) /\ new.last = row.last
          BY <2>2, <2>3, <2>5, <3>1, <4>1 DEF AboveOf
        <4> QED
          BY <4>1, <4>2
      <3>2. CASE e.to # "closed"
        <4>1. \A k \in AboveOf(M) : k <= n + 1
          BY <1>1, <1>5, <2>3
        <4> QED
          BY <1>1, <2>3, <2>5, <3>2, <4>1
      <3> QED
        BY <3>1, <3>2
    <2> QED
      BY <1>2, <2>5, <2>6, <2>7, <2>8, <2>9, <2>10 DEF SumsUp
  <1> QED
    BY <1>6, <1>7

-----------------------------------------------------------------------------
(* One process at a time: what it means to write agrees with the tables.      *)

StatusOf(A) == [v \in Valve |-> A[v].status]
StatusIn(S) == [v \in Valve |-> S[v].row.status]

\* The process s and the table A of alerts: the events still to write lead from
\* the statuses of the table to the statuses the engine holds in memory.
Engine(s, A) ==
  /\ s.pc = "history" => StatusIn(s.states) = StatusOf(A)
  /\ s.pc \in {"decide", "upsert"}
       => Leads(StatusOf(A), s.events, StatusIn(s.states))
  /\ s.pc = "insert"
       => Leads(StatusOf(A), Tail(s.events), StatusIn(s.states))
  /\ s.pc \in {"upsert", "insert"} => s.base = A

LEMMA StatusType ==
  ASSUME TypeOK
  PROVE  StatusOf(alerts) \in [Valve -> Status]
  BY DEF TypeOK, StatusOf, Row

LEMMA StatusInType ==
  ASSUME NEW S \in States
  PROVE  StatusIn(S) \in [Valve -> Status]
  BY DEF States, StatusIn, Row

\* process: the fields of the process after one record of its batch.
LEMMA DecideFields ==
  ASSUME TypeOK, NEW j \in Job, NEW r \in Rec, Decide(j, r)
  PROVE  LET s == job[j]
             t == job'[j]
             st == s.states[r.valve]
             h == LastN(Append(s.hist[r.valve], Above(r.score)))
             to == Transition(st, h, r)
         IN  /\ s \in DecideState /\ s.pc = "decide" /\ IsFirst(r, s.todo)
             /\ t.pc = "decide" /\ t.run = s.run /\ t.fresh = s.fresh
             /\ t.todo = s.todo \ {r}
             /\ t.hist = [s.hist EXCEPT ![r.valve] = h]
             /\ t.states = [s.states EXCEPT ![r.valve] = InMemory(st, to, r)]
             /\ t.events = IF to = "none" THEN s.events
                                          ELSE Append(s.events, Event(st, to, r))
  <1> DEFINE s == job[j]
             st == s.states[r.valve]
             h == LastN(Append(s.hist[r.valve], Above(r.score)))
             to == Transition(st, h, r)
             e == IF to = "none" THEN s.events ELSE Append(s.events, Event(st, to, r))
             H == [s.hist EXCEPT ![r.valve] = h]
             S == [s.states EXCEPT ![r.valve] = InMemory(st, to, r)]
             T == s.todo \ {r}
             t == [s EXCEPT !.todo = T, !.hist = H, !.states = S, !.events = e]
  <1>1. s \in DecideState /\ s.pc = "decide" /\ IsFirst(r, s.todo)
    BY ByPc DEF TypeOK, Decide
  <1>2. job'[j] = t
    BY DEF Decide, TypeOK
  <1> HIDE DEF s, H, S, e, T
  <1>3. /\ t.pc = "decide" /\ t.run = s.run /\ t.fresh = s.fresh
        /\ t.todo = T /\ t.hist = H /\ t.states = S /\ t.events = e
    BY <1>1 DEF DecideState
  <1> QED
    BY <1>1, <1>2, <1>3 DEF s, H, S, e, T

\* _handle_score_aggregation: a transition leaves the status it found, and the
\* state in memory takes its new one.
LEMMA TransitionLegal ==
  ASSUME NEW st \in [row : Row, cool : Nat], NEW h, NEW r \in Rec,
         NEW to, to = Transition(st, h, r)
  PROVE  /\ to \in {"none", "open", "sustained", "closed"}
         /\ to = "none" => InMemory(st, to, r) = st
         /\ to # "none" =>
              /\ Event(st, to, r) \in Ev /\ Legal(Event(st, to, r))
              /\ Event(st, to, r).valve = r.valve
              /\ Event(st, to, r).to = to
              /\ Event(st, to, r).from = st.row.status
              /\ InMemory(st, to, r).row.status = to
  <1>1. to \in {"none", "open", "sustained", "closed"}
    BY DEF Transition
  <1>2. to # "none" => (to = "open" <=> st.row.status = "closed")
    BY DEF Transition
  <1>3. st.row.status \in Status /\ st.row \in Row
    BY DEF Row
  <1>4. to # "none" => Event(st, to, r) \in Ev
    BY <1>1, <1>3 DEF Event, Ev, Status, Rec
  <1>5. to = "none" => InMemory(st, to, r) = st
    BY DEF InMemory
  <1>6. to # "none" => InMemory(st, to, r).row.status = to
    <2> DEFINE o == [st.row EXCEPT !.status = to, !.opened = r.window,
                                   !.last = r.window, !.max = r.score, !.n = 1]
               u == [st.row EXCEPT !.status = to, !.last = r.window,
                                   !.max = MaxOf(@, r.score), !.n = @ + 1]
               c == [st.row EXCEPT !.status = to, !.closed = r.window]
    <2>1. o.status = to /\ u.status = to /\ c.status = to
      BY <1>3 DEF Row
    <2>2. /\ to = "open" => InMemory(st, to, r) = [st EXCEPT !.row = o]
          /\ to = "sustained" => InMemory(st, to, r) = [st EXCEPT !.row = u]
          /\ to = "closed" => InMemory(st, to, r)
                = [st EXCEPT !.row = c, !.cool = r.window + Cooldown]
      BY DEF InMemory
    <2> HIDE DEF o, u, c
    <2> QED
      BY <1>1, <2>1, <2>2
  <1> QED
    BY <1>1, <1>2, <1>4, <1>5, <1>6 DEF Event, Legal

LEMMA EngineDecide ==
  ASSUME TypeOK, NEW j \in Job, NEW r \in Rec, Decide(j, r),
         Engine(job[j], alerts)
  PROVE  Engine(job'[j], alerts')
  <1> DEFINE s == job[j]
             t == job'[j]
             v == r.valve
             st == s.states[v]
             h == LastN(Append(s.hist[v], Above(r.score)))
             to == Transition(st, h, r)
             m == InMemory(st, to, r)
             ev == Event(st, to, r)
  <1>1. /\ s \in DecideState /\ s.pc = "decide" /\ t.pc = "decide"
        /\ t.states = [s.states EXCEPT ![v] = m]
        /\ t.events = IF to = "none" THEN s.events ELSE Append(s.events, ev)
    BY DecideFields
  <1>2. alerts' = alerts
    BY DEF Decide
  <1>3. /\ s.states \in States /\ s.events \in Seq(Ev) /\ v \in Valve
        /\ st \in [row : Row, cool : Nat]
    BY <1>1 DEF DecideState, States, Rec
  <1>4. /\ to = "none" => m = st
        /\ to # "none" => /\ ev \in Ev /\ Legal(ev) /\ ev.valve = v /\ ev.to = to
                          /\ ev.from = st.row.status /\ m.row.status = to
    BY <1>3, TransitionLegal
  <1>5. /\ StatusIn(s.states) \in [Valve -> Status]
        /\ StatusIn(s.states)[v] = st.row.status
    BY <1>3, StatusInType DEF StatusIn
  <1>6. Leads(StatusOf(alerts), s.events, StatusIn(s.states))
    BY <1>1 DEF Engine
  <1> HIDE DEF s, t, v, st, h, to, m, ev
  <1>7. Leads(StatusOf(alerts), t.events, StatusIn(t.states))
    <2>1. CASE to = "none"
      <3>1. t.states = s.states
        BY <1>1, <1>3, <1>4, <2>1 DEF st, States
      <3> QED
        BY <1>1, <1>6, <2>1, <3>1
    <2>2. CASE to # "none"
      <3>1. StatusIn(t.states) = [StatusIn(s.states) EXCEPT ![v] = to]
        BY <1>1, <1>3, <1>4, <2>2 DEF StatusIn, States
      <3> QED
        BY <1>1, <1>3, <1>4, <1>5, <1>6, <2>2, <3>1, LeadsAppend
    <2> QED
      BY <2>1, <2>2
  <1>8. Engine(t, alerts)
    BY <1>1, <1>7 DEF Engine
  <1> QED
    BY <1>2, <1>8 DEF t

\* upsert_alert: the table takes the status of the event.
LEMMA UpsertFields ==
  ASSUME TypeOK, NEW j \in Job, UpsertAlert(j)
  PROVE  LET s == job[j]
             t == job'[j]
             ev == Head(s.events)
             row == FullStatePayload(s.base[ev.valve], ev)
         IN  /\ s \in WriteState /\ s.pc = "upsert" /\ ev \in Ev
             /\ t.pc = "insert" /\ t.events = s.events /\ t.states = s.states
             /\ t.fresh = s.fresh /\ t.run = s.run
             /\ t.base = [s.base EXCEPT ![ev.valve] = row]
             /\ alerts' = [alerts EXCEPT ![ev.valve] = row]
             /\ UNCHANGED <<raw, preds, log, runs, dies>>
  <1> DEFINE s == job[j]
             ev == Head(s.events)
             row == FullStatePayload(s.base[ev.valve], ev)
             B == [s.base EXCEPT ![ev.valve] = row]
             t == [s EXCEPT !.pc = "insert", !.base = B]
  <1>1. s \in WriteState /\ ev \in Ev /\ s.pc = "upsert"
    BY WriteFields DEF UpsertAlert
  <1>2. job'[j] = t /\ alerts' = [alerts EXCEPT ![ev.valve] = row]
        /\ UNCHANGED <<raw, preds, log, runs, dies>>
    BY DEF UpsertAlert, TypeOK
  <1> HIDE DEF s, B
  <1>3. /\ t.pc = "insert" /\ t.events = s.events /\ t.states = s.states
        /\ t.fresh = s.fresh /\ t.run = s.run /\ t.base = B
    BY <1>1 DEF WriteState
  <1> QED
    BY <1>1, <1>2, <1>3 DEF s, B

LEMMA PayloadStatus ==
  ASSUME NEW row \in Row, NEW ev \in Ev
  PROVE  FullStatePayload(row, ev).status = ev.to
  BY DEF FullStatePayload, Row, Ev, Status

LEMMA EngineUpsert ==
  ASSUME TypeOK, NEW j \in Job, UpsertAlert(j), Engine(job[j], alerts)
  PROVE  Engine(job'[j], alerts')
  <1> DEFINE s == job[j]
             t == job'[j]
             ev == Head(s.events)
             row == FullStatePayload(s.base[ev.valve], ev)
  <1>1. /\ s \in WriteState /\ s.pc = "upsert" /\ ev \in Ev
        /\ t.pc = "insert" /\ t.events = s.events /\ t.states = s.states
        /\ t.base = [s.base EXCEPT ![ev.valve] = row]
        /\ alerts' = [alerts EXCEPT ![ev.valve] = row]
    BY UpsertFields
  <1>2. /\ s.events \in Seq(Ev) /\ s.events # <<>> /\ ev.valve \in Valve
    BY WriteFields
  <1>3. s.base = alerts /\ Leads(StatusOf(alerts), s.events, StatusIn(s.states))
    BY <1>1 DEF Engine
  <1>4. alerts[ev.valve] \in Row /\ StatusOf(alerts) \in [Valve -> Status]
    BY <1>2, StatusType DEF TypeOK
  <1>5. row.status = ev.to
    BY <1>1, <1>3, <1>4, PayloadStatus
  <1>6. Leads([StatusOf(alerts) EXCEPT ![ev.valve] = ev.to], Tail(s.events),
              StatusIn(s.states))
    BY <1>2, <1>3, <1>4, LeadsTail
  <1> HIDE DEF s, t, ev, row
  <1>7. StatusOf(alerts') = [StatusOf(alerts) EXCEPT ![ev.valve] = ev.to]
    BY <1>1, <1>2, <1>5 DEF StatusOf, TypeOK
  <1>8. t.base = alerts'
    BY <1>1, <1>3
  <1>9. Engine(t, alerts')
    BY <1>1, <1>6, <1>7, <1>8 DEF Engine
  <1> QED
    BY <1>9 DEF t

LEMMA InsertFields ==
  ASSUME TypeOK, NEW j \in Job, InsertTransition(j)
  PROVE  LET s == job[j]
             t == job'[j]
             ev == Head(s.events)
         IN  /\ s \in WriteState /\ s.pc = "insert" /\ ev \in Ev
             /\ log' = [log EXCEPT ![ev.valve] = Append(@, ev)]
             /\ UNCHANGED <<raw, preds, alerts, runs, dies>>
             /\ Len(s.events) = 1 => t = Off
             /\ Len(s.events) # 1 =>
                  /\ t.pc = "upsert" /\ t.events = Tail(s.events)
                  /\ t.states = s.states /\ t.base = s.base
                  /\ t.fresh = s.fresh /\ t.run = s.run
  <1> DEFINE s == job[j]
             ev == Head(s.events)
             e == Tail(s.events)
             t == [s EXCEPT !.pc = "upsert", !.events = e]
  <1>1. s \in WriteState /\ ev \in Ev /\ s.pc = "insert"
    BY WriteFields DEF InsertTransition
  <1>2. /\ log' = [log EXCEPT ![ev.valve] = Append(@, ev)]
        /\ UNCHANGED <<raw, preds, alerts, runs, dies>>
        /\ job'[j] = IF Len(s.events) = 1 THEN Off ELSE t
    BY DEF InsertTransition, TypeOK
  <1> HIDE DEF s, e
  <1>3. /\ t.pc = "upsert" /\ t.events = e /\ t.states = s.states
        /\ t.base = s.base /\ t.fresh = s.fresh /\ t.run = s.run
    BY <1>1 DEF WriteState
  <1> QED
    BY <1>1, <1>2, <1>3 DEF s, e

LEMMA EngineInsert ==
  ASSUME TypeOK, NEW j \in Job, InsertTransition(j), Engine(job[j], alerts)
  PROVE  Engine(job'[j], alerts')
  <1> DEFINE s == job[j]
             t == job'[j]
  <1>1. /\ s.pc = "insert" /\ alerts' = alerts
        /\ Len(s.events) = 1 => t = Off
        /\ Len(s.events) # 1 =>
             /\ t.pc = "upsert" /\ t.events = Tail(s.events)
             /\ t.states = s.states /\ t.base = s.base
    BY InsertFields
  <1> HIDE DEF s, t
  <1>2. Engine(s, alerts)
    BY DEF s
  <1>3. Engine(t, alerts)
    <2>1. CASE t = Off
      BY <2>1 DEF Engine, Off
    <2>2. CASE t # Off
      BY <1>1, <1>2, <2>2 DEF Engine
    <2> QED
      BY <2>1, <2>2
  <1> QED
    BY <1>1, <1>3 DEF t

\* The steps of a run outside the alert wiring, and the death of a run.
LEMMA OutsideFields ==
  ASSUME TypeOK, NEW j \in Job,
         \/ StartRun(j) \/ Abandon(j)
         \/ \E r \in Rec : \/ ReadWatermark(j, r) \/ SkipRecord(j, r)
                           \/ PersistRecord(j, r)
  PROVE  /\ job'[j].pc \in {"persist", "off"}
         /\ UNCHANGED <<alerts, log>>
         /\ dies' = dies => job[j].pc \in {"persist", "off"}
  <1>1. CASE StartRun(j)
    BY <1>1 DEF StartRun, TypeOK, Off
  <1>2. CASE Abandon(j)
    BY <1>2 DEF Abandon, TypeOK, Off
  <1>3. CASE \E r \in Rec : ReadWatermark(j, r)
    <2>1. PICK r \in Rec : ReadWatermark(j, r)
      BY <1>3
    <2>2. PICK s \in PersistState : job' = [job EXCEPT ![j] = s]
      BY <2>1, ReadWatermarkType
    <2> QED
      BY <2>1, <2>2, PersistFields DEF ReadWatermark, Persisting, TypeOK
  <1>4. CASE \E r \in Rec : SkipRecord(j, r) \/ PersistRecord(j, r)
    <2>1. PICK r \in Rec : SkipRecord(j, r) \/ PersistRecord(j, r)
      BY <1>4
    <2>2. PICK s \in PersistState : job' = [job EXCEPT ![j] = s]
      BY <2>1, PersistStepType
    <2> QED
      BY <2>1, <2>2, PersistFields
      DEF SkipRecord, PersistRecord, Persisting, TypeOK
  <1> QED
    BY <1>1, <1>2, <1>3, <1>4

\* The three reads of the alert wiring: the tables stay, the state goes on.
LEMMA LoadStatesFields ==
  ASSUME TypeOK, NEW j \in Job, LoadStates(j)
  PROVE  LET s == job[j]
             t == job'[j]
         IN  /\ s \in PersistState /\ s.pc = "persist" /\ s.todo = {}
             /\ UNCHANGED <<raw, preds, alerts, log, runs, dies>>
             /\ s.fresh = {} => t = Off
             /\ s.fresh # {} =>
                  /\ t.pc = "history" /\ t.run = s.run /\ t.fresh = s.fresh
                  /\ t.states = [v \in Valve |-> [row |-> alerts[v], cool |-> None]]
  BY ByPc DEF TypeOK, LoadStates

LEMMA LoadHistoryFields ==
  ASSUME TypeOK, NEW j \in Job, LoadHistory(j)
  PROVE  LET s == job[j]
             t == job'[j]
         IN  /\ s \in HistoryState /\ s.pc = "history"
             /\ UNCHANGED <<raw, preds, alerts, log, runs, dies>>
             /\ t.pc = "decide" /\ t.run = s.run /\ t.fresh = s.fresh
             /\ t.todo = s.fresh /\ t.states = s.states /\ t.events = <<>>
             /\ t.hist = [v \in Valve |-> History(Stored(v, s.run))]
  BY ByPc DEF TypeOK, LoadHistory

LEMMA ReadBaselineFields ==
  ASSUME TypeOK, NEW j \in Job, ReadBaseline(j)
  PROVE  LET s == job[j]
             t == job'[j]
         IN  /\ s \in DecideState /\ s.pc = "decide" /\ s.todo = {}
             /\ UNCHANGED <<raw, preds, alerts, log, runs, dies>>
             /\ s.events = <<>> => t = Off
             /\ s.events # <<>> =>
                  /\ t.pc = "upsert" /\ t.run = s.run /\ t.fresh = s.fresh
                  /\ t.states = s.states /\ t.events = s.events
                  /\ t.base = alerts
  BY ByPc DEF TypeOK, ReadBaseline

LEMMA EngineReads ==
  ASSUME TypeOK, NEW j \in Job, Engine(job[j], alerts),
         LoadStates(j) \/ LoadHistory(j) \/ ReadBaseline(j)
  PROVE  Engine(job'[j], alerts')
  <1> DEFINE s == job[j]
             t == job'[j]
  <1>1. ASSUME t = Off PROVE Engine(t, alerts')
    BY <1>1 DEF Engine, Off
  <1>2. CASE LoadStates(j)
    <2>1. /\ alerts' = alerts
          /\ t = Off \/ /\ t.pc = "history"
                        /\ t.states
                             = [v \in Valve |-> [row |-> alerts[v], cool |-> None]]
      BY <1>2, LoadStatesFields
    <2> HIDE DEF t
    <2>2. t # Off => StatusIn(t.states) = StatusOf(alerts)
      BY <2>1 DEF StatusIn, StatusOf
    <2> QED
      BY <1>1, <2>1, <2>2 DEF Engine, t
  <1>3. CASE LoadHistory(j)
    <2>1. /\ s \in HistoryState /\ s.pc = "history" /\ alerts' = alerts
          /\ t.pc = "decide" /\ t.states = s.states /\ t.events = <<>>
      BY <1>3, LoadHistoryFields
    <2>2. StatusIn(s.states) = StatusOf(alerts)
      BY <2>1 DEF Engine
    <2> HIDE DEF s, t
    <2>3. Leads(StatusOf(alerts), t.events, StatusIn(t.states))
      BY <2>1, <2>2, StatusType, LeadsNowhere
    <2> QED
      BY <2>1, <2>3 DEF Engine, t
  <1>4. CASE ReadBaseline(j)
    <2>1. /\ s.pc = "decide" /\ alerts' = alerts
          /\ t = Off \/ /\ t.pc = "upsert" /\ t.states = s.states
                        /\ t.events = s.events /\ t.base = alerts
      BY <1>4, ReadBaselineFields
    <2>2. Leads(StatusOf(alerts), s.events, StatusIn(s.states))
      BY <2>1 DEF Engine
    <2> HIDE DEF s, t
    <2> QED
      BY <1>1, <2>1, <2>2 DEF Engine, t
  <1> QED
    BY <1>2, <1>3, <1>4

LEMMA EngineNext ==
  ASSUME NEW p, Job = {p}, TInv, Engine(job[p], alerts), [Next]_vars
  PROVE  Engine(job'[p], alerts')
  <1>1. TypeOK /\ p \in Job
    BY DEF TInv
  <1>2. CASE UNCHANGED <<job, alerts>>
    BY <1>2
  <1>3. ASSUME NEW v \in Valve, NEW w \in Window, NEW s \in Level,
               WindowCompletes(v, w, s)
        PROVE  UNCHANGED <<job, alerts>>
    BY <1>3 DEF WindowCompletes
  <1>4. CASE \/ StartRun(p) \/ Abandon(p)
             \/ \E r \in Rec : \/ ReadWatermark(p, r) \/ SkipRecord(p, r)
                               \/ PersistRecord(p, r)
    BY <1>1, <1>4, OutsideFields DEF Engine
  <1>5. CASE \E r \in Rec : Decide(p, r)
    BY <1>1, <1>5, EngineDecide
  <1>6. CASE LoadStates(p) \/ LoadHistory(p) \/ ReadBaseline(p)
    BY <1>1, <1>6, EngineReads
  <1>7. CASE UpsertAlert(p)
    BY <1>1, <1>7, EngineUpsert
  <1>8. CASE InsertTransition(p)
    BY <1>1, <1>8, EngineInsert
  <1>9. CASE UNCHANGED vars
    BY <1>2, <1>9 DEF vars
  <1> QED
    BY <1>1, <1>2, <1>3, <1>4, <1>5, <1>6, <1>7, <1>8, <1>9 DEF Next, JobStep

-----------------------------------------------------------------------------
(* The log of a valve and its row, as long as no run has died.                *)

\* What the tables A and G hold of the events of the process s: the row sums up
\* the log, ahead of it by one event between the two transactions.
Logged(s, A, G) ==
  /\ s.pc # "insert" => \A v \in Valve : SumsUp(A[v], G[v])
  /\ s.pc = "insert" =>
       LET ev == Head(s.events)
       IN  /\ ev.from = LastTo(G[ev.valve])
           /\ SumsUp(A[ev.valve], Append(G[ev.valve], ev))
           /\ \A v \in Valve : v # ev.valve => SumsUp(A[v], G[v])

ChainedLog(L) ==
  \A i \in DOMAIN L : L[i].from = IF i = 1 THEN "closed" ELSE L[i - 1].to

LogInv(s, A, G) == Logged(s, A, G) /\ \A v \in Valve : ChainedLog(G[v])

LEMMA ChainAppend ==
  ASSUME NEW L \in Seq(Ev), ChainedLog(L), NEW e, e.from = LastTo(L)
  PROVE  ChainedLog(Append(L, e))
  <1> DEFINE n == Len(L)
             M == Append(L, e)
  <1>1. /\ n \in Nat /\ DOMAIN M = 1..n + 1 /\ DOMAIN L = 1..n /\ M[n + 1] = e
        /\ \A i \in 1..n : M[i] = L[i]
        /\ L = <<>> <=> n = 0
    OBVIOUS
  <1>2. e.from = IF n = 0 THEN "closed" ELSE L[n].to
    BY <1>1 DEF LastTo, n
  <1> HIDE DEF n, M
  <1>3. ASSUME NEW i \in 1..n + 1
        PROVE  M[i].from = IF i = 1 THEN "closed" ELSE M[i - 1].to
    <2>1. CASE i = n + 1
      BY <1>1, <1>2, <2>1
    <2>2. CASE i # n + 1
      <3>1. i \in 1..n /\ (i # 1 => i - 1 \in 1..n)
        BY <1>1, <2>2
      <3> QED
        BY <1>1, <3>1 DEF ChainedLog
    <2> QED
      BY <2>1, <2>2
  <1> QED
    BY <1>1, <1>3 DEF ChainedLog, M

\* Steps of which neither end is between the two transactions.
LEMMA LogInvKept ==
  ASSUME NEW s, NEW t, NEW A, NEW G, LogInv(s, A, G),
         s.pc # "insert", t.pc # "insert"
  PROVE  LogInv(t, A, G)
  BY DEF LogInv, Logged

LEMMA LogInvUpsert ==
  ASSUME TypeOK, NEW j \in Job, UpsertAlert(j), Engine(job[j], alerts),
         LogInv(job[j], alerts, log)
  PROVE  LogInv(job'[j], alerts', log')
  <1> DEFINE s == job[j]
             t == job'[j]
             ev == Head(s.events)
             row == FullStatePayload(s.base[ev.valve], ev)
  <1>1. /\ s.pc = "upsert" /\ ev \in Ev /\ t.pc = "insert" /\ t.events = s.events
        /\ alerts' = [alerts EXCEPT ![ev.valve] = row] /\ log' = log
    BY UpsertFields
  <1>2. /\ s.events \in Seq(Ev) /\ s.events # <<>> /\ ev.valve \in Valve
    BY WriteFields
  <1>3. s.base = alerts /\ Leads(StatusOf(alerts), s.events, StatusIn(s.states))
    BY <1>1 DEF Engine
  <1>4. Legal(ev) /\ ev.from = StatusOf(alerts)[ev.valve]
    BY <1>2, <1>3, StatusType, LeadsTail
  <1>5. /\ alerts[ev.valve] \in Row /\ log[ev.valve] \in Seq(Ev)
        /\ SumsUp(alerts[ev.valve], log[ev.valve])
        /\ ev.from = alerts[ev.valve].status
    BY <1>1, <1>2, <1>4 DEF TypeOK, LogInv, Logged, StatusOf
  <1>6. SumsUp(row, Append(log[ev.valve], ev))
    BY <1>1, <1>3, <1>4, <1>5, PayloadSumsUp
  <1>7. /\ alerts'[ev.valve] = row
        /\ \A v \in Valve : v # ev.valve => alerts'[v] = alerts[v]
    BY <1>1, <1>2 DEF TypeOK
  <1>8. ev.from = LastTo(log[ev.valve])
    BY <1>5 DEF SumsUp
  <1>9. \A v \in Valve : SumsUp(alerts[v], log[v]) /\ ChainedLog(log[v])
    BY <1>1 DEF LogInv, Logged
  <1>10. Head(t.events) = ev
    BY <1>1
  <1> HIDE DEF s, t, ev, row
  <1>11. LogInv(t, alerts', log')
    BY <1>1, <1>6, <1>7, <1>8, <1>9, <1>10 DEF LogInv, Logged
  <1> QED
    BY <1>11 DEF t

LEMMA LogInvInsert ==
  ASSUME TypeOK, NEW j \in Job, InsertTransition(j),
         LogInv(job[j], alerts, log)
  PROVE  LogInv(job'[j], alerts', log')
  <1> DEFINE s == job[j]
             t == job'[j]
             ev == Head(s.events)
  <1>1. /\ s.pc = "insert" /\ ev \in Ev /\ alerts' = alerts
        /\ log' = [log EXCEPT ![ev.valve] = Append(@, ev)]
        /\ t = Off \/ t.pc = "upsert"
    BY InsertFields
  <1>2. ev.valve \in Valve /\ log[ev.valve] \in Seq(Ev)
    BY WriteFields DEF TypeOK
  <1>3. /\ ev.from = LastTo(log[ev.valve])
        /\ SumsUp(alerts[ev.valve], Append(log[ev.valve], ev))
        /\ \A v \in Valve : v # ev.valve => SumsUp(alerts[v], log[v])
        /\ \A v \in Valve : ChainedLog(log[v])
    BY <1>1 DEF LogInv, Logged
  <1>4. ChainedLog(Append(log[ev.valve], ev))
    BY <1>2, <1>3, ChainAppend
  <1>5. t.pc # "insert"
    BY <1>1 DEF Off
  <1> HIDE DEF s, t, ev
  <1>6. /\ log'[ev.valve] = Append(log[ev.valve], ev)
        /\ \A v \in Valve : v # ev.valve => log'[v] = log[v]
    BY <1>1, <1>2 DEF TypeOK
  <1>7. LogInv(t, alerts', log')
    BY <1>1, <1>3, <1>4, <1>5, <1>6 DEF LogInv, Logged
  <1> QED
    BY <1>7 DEF t

LEMMA LogInvNext ==
  ASSUME NEW p, Job = {p}, TInv, Engine(job[p], alerts),
         LogInv(job[p], alerts, log), [Next]_vars, dies' = dies
  PROVE  LogInv(job'[p], alerts', log')
  <1> DEFINE s == job[p]
             t == job'[p]
  <1>1. TypeOK /\ p \in Job
    BY DEF TInv
  <1>2. CASE UNCHANGED <<job, alerts, log>>
    BY <1>2
  <1>3. ASSUME UNCHANGED <<alerts, log>>, s.pc # "insert", t.pc # "insert"
        PROVE  LogInv(t, alerts', log')
    BY <1>3, LogInvKept
  <1>4. ASSUME NEW v \in Valve, NEW w \in Window, NEW c \in Level,
               WindowCompletes(v, w, c)
        PROVE  UNCHANGED <<job, alerts, log>>
    BY <1>4 DEF WindowCompletes
  <1>5. CASE \/ StartRun(p) \/ Abandon(p)
             \/ \E r \in Rec : \/ ReadWatermark(p, r) \/ SkipRecord(p, r)
                               \/ PersistRecord(p, r)
    BY <1>1, <1>3, <1>5, OutsideFields
  <1>6. CASE \E r \in Rec : Decide(p, r)
    <2>1. PICK r \in Rec : Decide(p, r)
      BY <1>6
    <2>2. s.pc = "decide" /\ t.pc = "decide"
      BY <1>1, <2>1, DecideFields
    <2> QED
      BY <1>3, <2>1, <2>2 DEF Decide
  <1>7. CASE LoadStates(p)
    <2>1. UNCHANGED <<alerts, log>> /\ s.pc = "persist"
          /\ (t = Off \/ t.pc = "history")
      BY <1>1, <1>7, LoadStatesFields
    <2> QED
      BY <1>3, <2>1 DEF Off
  <1>8. CASE LoadHistory(p)
    BY <1>1, <1>3, <1>8, LoadHistoryFields
  <1>9. CASE ReadBaseline(p)
    <2>1. UNCHANGED <<alerts, log>> /\ s.pc = "decide"
          /\ (t = Off \/ t.pc = "upsert")
      BY <1>1, <1>9, ReadBaselineFields
    <2> QED
      BY <1>3, <2>1 DEF Off
  <1>10. CASE UpsertAlert(p)
    BY <1>1, <1>10, LogInvUpsert
  <1>11. CASE InsertTransition(p)
    BY <1>1, <1>11, LogInvInsert
  <1>12. CASE UNCHANGED vars
    BY <1>2, <1>12 DEF vars
  <1> QED
    BY <1>1, <1>2, <1>4, <1>5, <1>6, <1>7, <1>8, <1>9, <1>10, <1>11, <1>12
    DEF Next, JobStep

LInv(p) ==
  TInv /\ Engine(job[p], alerts) /\ (dies = 0 => LogInv(job[p], alerts, log))

\* Only a run that dies or whose wiring raises is counted as one.
LEMMA DyingCounted ==
  ASSUME [Next]_vars
  PROVE  dies' = dies \/ dies' = dies + 1
  <1>1. ASSUME NEW j \in Job, JobStep(j) PROVE dies' = dies
    <2>1. ASSUME NEW r \in Rec, \/ ReadWatermark(j, r) \/ SkipRecord(j, r)
                                \/ PersistRecord(j, r) \/ Decide(j, r)
          PROVE  dies' = dies
      BY <2>1 DEF ReadWatermark, SkipRecord, PersistRecord, Decide
    <2>2. CASE LoadStates(j) \/ LoadHistory(j) \/ ReadBaseline(j)
      BY <2>2 DEF LoadStates, LoadHistory, ReadBaseline
    <2>3. CASE UpsertAlert(j) \/ InsertTransition(j)
      BY <2>3 DEF UpsertAlert, InsertTransition
    <2> QED
      BY <1>1, <2>1, <2>2, <2>3 DEF JobStep
  <1>2. ASSUME NEW j \in Job, StartRun(j) \/ Abandon(j)
        PROVE  dies' = dies \/ dies' = dies + 1
    BY <1>2 DEF StartRun, Abandon
  <1>3. ASSUME NEW v \in Valve, NEW w \in Window, NEW s \in Level,
               WindowCompletes(v, w, s)
        PROVE  dies' = dies
    BY <1>3 DEF WindowCompletes
  <1> QED
    BY <1>1, <1>2, <1>3 DEF Next, vars

LEMMA LInvInvariant ==
  ASSUME NEW CONSTANT p, Job = {p}
  PROVE  Spec => []LInv(p)
  <1>1. ASSUME Init PROVE LInv(p)
    <2>1. TInv /\ job[p] = Off
      BY <1>1, TInvInit DEF Init
    <2>2. Engine(job[p], alerts)
      BY <2>1 DEF Engine, Off
    <2>3. \A v \in Valve : SumsUp(alerts[v], log[v]) /\ ChainedLog(log[v])
      <3>1. \A v \in Valve : alerts[v] = Blank /\ log[v] = <<>>
        BY <1>1 DEF Init
      <3> QED
        BY <3>1 DEF SumsUp, LastTo, Blank, ChainedLog
    <2>4. LogInv(job[p], alerts, log)
      BY <2>1, <2>3 DEF LogInv, Logged, Off
    <2> QED
      BY <2>1, <2>2, <2>4 DEF LInv
  <1>2. ASSUME LInv(p), [Next]_vars PROVE LInv(p)'
    <2>1. TInv /\ Engine(job[p], alerts)
      BY <1>2 DEF LInv
    <2>2. TInv' /\ Engine(job[p], alerts)'
      BY <1>2, <2>1, TInvNext, EngineNext
    <2>3. ASSUME dies' = 0 PROVE dies = 0 /\ dies' = dies
      <3>1. dies' = dies \/ dies' = dies + 1
        BY <1>2, DyingCounted
      <3> QED
        BY <2>1, <2>3, <3>1 DEF TInv, TypeOK
    <2>4. dies' = 0 => LogInv(job[p], alerts, log)'
      BY <1>2, <2>1, <2>3, LogInvNext DEF LInv
    <2> QED
      BY <2>2, <2>4 DEF LInv
  <1>3. Init => LInv(p)
    BY <1>1
  <1>4. LInv(p) /\ [Next]_vars => LInv(p)'
    BY <1>2
  <1> QED
    BY <1>3, <1>4, PTL DEF Spec

\* With one inference process at a time, and until the first run that dies or
\* whose wiring raises, the transitions of a valve are one unbroken history
\* (insert_transition): every K, N and Cooldown, windows in any order.
THEOREM LogChainedCorrect ==
  ASSUME NEW CONSTANT p, Job = {p}
  PROVE  Spec => [](dies = 0 => LogChained)
  <1>1. LInv(p) => (dies = 0 => LogChained)
    BY DEF LInv, LogInv, ChainedLog, LogChained
  <1> QED
    BY <1>1, LInvInvariant, PTL

\* Under the same conditions, between two runs the row of an alert is the sum of
\* the last episode of its log (_full_state_payload over the whole row).
THEOREM RowSumsUpLogCorrect ==
  ASSUME NEW CONSTANT p, Job = {p}
  PROVE  Spec => [](dies = 0 => RowSumsUpLog)
  <1>1. ASSUME LInv(p), dies = 0 PROVE RowSumsUpLog
    <2> SUFFICES ASSUME AtRest, NEW v \in Valve, log[v] # <<>>
                 PROVE  LET L == log[v] IN
                        /\ alerts[v].status = L[Len(L)].to
                        /\ alerts[v].n = Cardinality(AboveIn(v))
                        /\ \E i \in AboveIn(v) :
                             L[i].to = "open" /\ alerts[v].opened = L[i].window
                        /\ alerts[v].max \in {L[i].score : i \in Episode(v)}
                        /\ \A i \in Episode(v) : L[i].score <= alerts[v].max
                        /\ \E i \in AboveIn(v) :
                             /\ alerts[v].last = L[i].window
                             /\ \A k \in AboveIn(v) : k <= i
      BY DEF RowSumsUpLog
    <2>1. job[p] = Off
      BY DEF AtRest
    <2>2. SumsUp(alerts[v], log[v])
      BY <1>1, <2>1 DEF LInv, LogInv, Logged, Off
    <2>3. Episode(v) = EpisodeOf(log[v]) /\ AboveIn(v) = AboveOf(log[v])
      BY DEF Episode, AboveIn, EpisodeOf, AboveOf
    <2> QED
      BY <2>2, <2>3 DEF SumsUp, LastTo
  <1>2. LInv(p) => (dies = 0 => RowSumsUpLog)
    BY <1>1
  <1> QED
    BY <1>2, LInvInvariant, PTL

-----------------------------------------------------------------------------
(* The history the rule counts, as a later prediction joins it.               *)

LEMMA RankType ==
  ASSUME NEW P, IsFiniteSet(P), NEW q
  PROVE  /\ RankIn(q, P) \in Nat /\ RankIn(q, P) <= Cardinality(P)
         /\ Cardinality(P) \in Nat
  <1> DEFINE S == {x \in P : \/ x.window < q.window
                             \/ x.window = q.window /\ x.run <= q.run}
  <1>1. S \subseteq P /\ RankIn(q, P) = Cardinality(S)
    BY DEF RankIn
  <1> HIDE DEF S
  <1> QED
    BY <1>1, FS_Subset, FS_CardinalityType

\* What cuts a sequence to its last N values may cut it before as well.
LEMMA LastNAppend ==
  ASSUME NEW h \in Seq(BOOLEAN), NEW b \in BOOLEAN
  PROVE  LastN(Append(h, b)) = LastN(Append(LastN(h), b))
  <1>1. N \in Nat \ {0} /\ Len(h) \in Nat
    BY AlertsAssumption
  <1>2. CASE Len(h) <= N
    BY <1>2 DEF LastN
  <1>3. CASE ~(Len(h) <= N)
    <2> DEFINE k == Len(h) - N
               c == SubSeq(h, k + 1, Len(h))
               x == LastN(Append(h, b))
               y == LastN(Append(c, b))
    <2>1. k \in Nat \ {0} /\ LastN(h) = c
      BY <1>1, <1>3 DEF LastN
    <2>2. /\ c \in Seq(BOOLEAN) /\ Len(c) = N
          /\ \A i \in 1..N : c[i] = h[k + i]
      BY <1>1, <1>3
    <2>3. x = SubSeq(Append(h, b), k + 2, Len(h) + 1)
      BY <1>1, <1>3 DEF LastN
    <2>4. y = SubSeq(Append(c, b), 2, N + 1)
      <3> HIDE DEF c
      <3> QED
        BY <1>1, <2>2 DEF LastN
    <2>5. /\ x \in Seq(BOOLEAN) /\ Len(x) = N
          /\ \A i \in 1..N : x[i] = IF i = N THEN b ELSE h[k + 1 + i]
      <3> DEFINE a == Append(h, b)
                 m == Len(h)
      <3>1. /\ a \in Seq(BOOLEAN) /\ Len(a) = m + 1 /\ a[m + 1] = b
            /\ \A i \in 1..m : a[i] = h[i]
        BY <1>1
      <3>2. x = SubSeq(a, k + 2, m + 1) /\ m \in Nat /\ k = m - N /\ k >= 1
        BY <1>1, <1>3, <2>3
      <3> HIDE DEF c, a, x, k, m
      <3>3. /\ x \in Seq(BOOLEAN) /\ Len(x) = N
            /\ \A i \in 1..N : x[i] = a[k + 1 + i]
        BY <1>1, <3>1, <3>2
      <3>4. \A i \in 1..N : /\ i = N => k + 1 + i = m + 1
                            /\ i # N => k + 1 + i \in 1..m
        BY <1>1, <3>2
      <3> QED
        BY <3>1, <3>3, <3>4
    <2>6. /\ y \in Seq(BOOLEAN) /\ Len(y) = N
          /\ \A i \in 1..N : y[i] = IF i = N THEN b ELSE c[i + 1]
      <3> HIDE DEF c
      <3> QED
        BY <1>1, <2>2, <2>4
    <2> HIDE DEF x, y, c, k
    <2>7. \A i \in 1..N : x[i] = y[i]
      <3>1. ASSUME NEW i \in 1..N, i # N PROVE c[i + 1] = h[k + 1 + i]
        <4>1. i + 1 \in 1..N /\ k + (i + 1) = k + 1 + i
          BY <1>1, <2>1, <3>1
        <4> QED
          BY <2>2, <4>1
      <3> QED
        BY <2>5, <2>6, <3>1
    <2>8. x = y
      BY <2>5, <2>6, <2>7
    <2> QED
      BY <2>1, <2>8 DEF x, y
  <1> QED
    BY <1>2, <1>3

\* load_score_history before and after a prediction newer than all it counts:
\* the engine's own append gives the same history as the next read.
LEMMA HistoryAppend ==
  ASSUME NEW P \in SUBSET Pred, IsFiniteSet(P), NEW p \in Pred,
         \A q \in P : q.window < p.window
  PROVE  History(P \cup {p}) = LastN(Append(History(P), Above(p.score)))
  <1> DEFINE n == Cardinality(P)
             Q == P \cup {p}
             At(i) == CHOOSE q \in P : RankIn(q, P) = i
             Now(i) == CHOOSE q \in Q : RankIn(q, Q) = i
             h == [i \in 1..n |-> Above(At(i).score)]
             g == [i \in 1..n + 1 |-> Above(Now(i).score)]
  <1>1. \A q \in P : q.window \in Nat /\ q.window < p.window /\ p.window \in Nat
    BY DEF Pred, Window
  <1>2. n \in Nat /\ IsFiniteSet(Q) /\ Cardinality(Q) = n + 1 /\ p \notin P
    BY <1>1, FS_CardinalityType, FS_AddElement
  <1>3. \A q \in P : RankIn(q, Q) = RankIn(q, P) /\ RankIn(q, P) <= n
    <2> SUFFICES ASSUME NEW q \in P PROVE RankIn(q, Q) = RankIn(q, P)
      BY RankType
    <2>1. {x \in Q : \/ x.window < q.window
                     \/ x.window = q.window /\ x.run <= q.run}
            = {x \in P : \/ x.window < q.window
                         \/ x.window = q.window /\ x.run <= q.run}
      BY <1>1
    <2> QED
      BY <2>1 DEF RankIn
  <1>4. RankIn(p, Q) = n + 1
    <2>1. {x \in Q : \/ x.window < p.window
                     \/ x.window = p.window /\ x.run <= p.run} = Q
      BY <1>1 DEF Pred
    <2> QED
      BY <1>2, <2>1 DEF RankIn
  <1> HIDE DEF n
  <1>5. ASSUME NEW i \in 1..n
        PROVE  Now(i) = At(i)
    <2>1. i # n + 1
      BY <1>2
    <2>2. \A q : q \in Q /\ RankIn(q, Q) = i <=> q \in P /\ RankIn(q, P) = i
      BY <1>3, <1>4, <2>1
    <2> HIDE DEF Q
    <2> QED
      BY <2>2, Zenon
  <1>6. Now(n + 1) = p
    <2>1. \A q \in Q : RankIn(q, Q) = n + 1 => q = p
      <3>1. \A q \in P : RankIn(q, Q) \in Nat /\ RankIn(q, Q) <= n
        BY <1>2, <1>3, RankType
      <3> QED
        BY <1>2, <3>1
    <2>2. p \in Q
      OBVIOUS
    <2> HIDE DEF Q
    <2> QED
      BY <1>4, <2>1, <2>2
  <1>9. Above(p.score) \in BOOLEAN
    BY DEF Above
  <1>11. History(Q) = LastN(g) /\ History(P) = LastN(h)
    BY <1>2 DEF History, n
  <1> HIDE DEF At, Now
  <1>7. h \in Seq(BOOLEAN) /\ Len(h) = n
    <2>1. h \in [1..n -> BOOLEAN]
      BY DEF Above
    <2> HIDE DEF h
    <2> QED
      BY <1>2, <2>1
  <1>8. g = Append(h, Above(p.score))
    <2>1. g \in [1..n + 1 -> BOOLEAN]
      BY DEF Above
    <2>2. \A i \in 1..n : g[i] = h[i] /\ i \in 1..n + 1
      BY <1>2, <1>5
    <2>3. g[n + 1] = Above(p.score)
      BY <1>2, <1>6
    <2> HIDE DEF g, h
    <2>4. g \in Seq(BOOLEAN) /\ Len(g) = n + 1
      BY <1>2, <2>1
    <2>5. /\ Append(h, Above(p.score)) \in Seq(BOOLEAN)
          /\ Len(Append(h, Above(p.score))) = n + 1
          /\ \A i \in 1..n + 1 : Append(h, Above(p.score))[i]
                = IF i = n + 1 THEN Above(p.score) ELSE h[i]
      BY <1>2, <1>7, <1>9
    <2>6. \A i \in 1..n + 1 : g[i] = Append(h, Above(p.score))[i]
      BY <1>2, <2>2, <2>3, <2>5
    <2> QED
      BY <2>4, <2>5, <2>6
  <1> HIDE DEF g, h
  <1>10. LastN(Append(h, Above(p.score))) = LastN(Append(LastN(h), Above(p.score)))
    BY <1>7, <1>9, LastNAppend
  <1> QED
    BY <1>8, <1>10, <1>11

-----------------------------------------------------------------------------
(* Windows that complete in order are predicted in order, and what a run has   *)
(* predicted is newer than all it finds in the table.                          *)

AsPred(r, run) ==
  [valve |-> r.valve, window |-> r.window, score |-> r.score, run |-> run]
InTable(P, v, w) == \E q \in P : q.valve = v /\ q.window = w

RawGapless(R) ==
  \A v \in Valve, w \in Window :
    R[v][w] # Missing => \A x \in 1..w - 1 : R[v][x] # Missing
Gapless(P) == \A q \in P : \A w \in 1..q.window - 1 : InTable(P, q.valve, w)

\* A run that persists: below a record still to do every window is in the table
\* or to do as well, and its watermark is true.
Orderly(s, P) ==
  s.pc = "persist" =>
    /\ \A r \in s.todo : \A w \in 1..r.window - 1 :
         \/ InTable(P, r.valve, w)
         \/ \E q \in s.todo : q.valve = r.valve /\ q.window = w
    /\ \A v \in DOMAIN s.known : \A w \in s.known[v] : InTable(P, v, w)

\* The predictions of a run are its fresh records, newer than all others.
Batch(s, P, n) ==
  s # Off =>
    /\ s.run < n
    /\ \A r \in s.fresh : AsPred(r, s.run) \in P
    /\ \A q \in P : q.run = s.run => \E r \in s.fresh : q = AsPred(r, s.run)
    /\ \A r \in s.fresh, q \in P :
         q.run # s.run /\ q.valve = r.valve => q.window < r.window

\* The predictions of valve v the history of the process has counted.
Counted(s, P, v) ==
  {q \in P : q.valve = v /\ ~\E r \in s.todo : q = AsPred(r, s.run)}

\* The rule at work: records go in order, no cooldown holds back one to come, and
\* the status in memory is what the history calls for.
Rule(s, P) ==
  /\ s.pc = "history" => \A v \in Valve : s.states[v].cool = None
  /\ s.pc = "decide" =>
       /\ s.todo \subseteq s.fresh
       /\ \A q \in s.fresh \ s.todo, r \in s.todo : Before(q, r)
       /\ \A v \in Valve : s.hist[v] = History(Counted(s, P, v))
       /\ \A r \in s.todo : s.states[r.valve].cool <= r.window
       /\ \A r \in s.fresh \ s.todo :
            s.states[r.valve].row.status # "closed" <=> Qualified(s.hist[r.valve])
  /\ s.pc \in {"upsert", "insert"} =>
       \A r \in s.fresh :
         s.states[r.valve].row.status # "closed"
           <=> Qualified(History({q \in P : q.valve = r.valve}))

\* All of it: the process s, the table P, the raw files R and the runs so far.
Following(s, P, R, n) ==
  /\ RawGapless(R) /\ Gapless(P) /\ \A q \in P : q.run < n
  /\ Orderly(s, P) /\ Batch(s, P, n) /\ Rule(s, P)

FInv(p) ==
  IInv /\ Engine(job[p], alerts) /\ Following(job[p], preds, raw, runs)

\* run: the complete windows of a valve have no gap, so neither have its records.
LEMMA StartFollows ==
  ASSUME TypeOK, NEW j \in Job, StartRun(j), RawGapless(raw),
         \A q \in preds : q.run < runs
  PROVE  /\ Orderly(job'[j], preds) /\ Batch(job'[j], preds, runs')
         /\ Rule(job'[j], preds)
  <1> DEFINE R == {r \in Rec : r.score = raw[r.valve][r.window]}
             t == job'[j]
  <1>1. /\ t.pc = "persist" /\ t.run = runs /\ t.todo = R /\ t.known = <<>>
        /\ t.fresh = {} /\ runs' = runs + 1
    BY DEF StartRun, TypeOK
  <1>2. runs \in Nat /\ \A q \in preds : q.run \in Nat
    BY AlertsAssumption DEF TypeOK, Pred
  <1>3. ASSUME NEW r \in R, NEW w \in 1..r.window - 1
        PROVE  \E q \in R : q.valve = r.valve /\ q.window = w
    <2>1. r.valve \in Valve /\ r.window \in Window /\ r.score \in Level
      BY DEF Rec
    <2>2. w \in Window
      BY <2>1, AlertsAssumption DEF Window
    <2>3. raw[r.valve][r.window] # Missing
      BY <2>1 DEF Level, Missing
    <2>4. raw[r.valve][w] # Missing
      BY <2>1, <2>3 DEF RawGapless
    <2>5. raw[r.valve][w] \in Level
      BY <2>1, <2>2, <2>4 DEF TypeOK
    <2> DEFINE q == [valve |-> r.valve, window |-> w, score |-> raw[r.valve][w]]
    <2>6. q \in R
      BY <2>1, <2>2, <2>5 DEF Rec
    <2> QED
      BY <2>6
  <1>4. DOMAIN t.known = {}
    BY <1>1
  <1> HIDE DEF R, t
  <1>5. Orderly(t, preds)
    BY <1>1, <1>3, <1>4 DEF Orderly
  <1>6. Batch(t, preds, runs')
    BY <1>1, <1>2 DEF Batch
  <1>7. Rule(t, preds)
    BY <1>1 DEF Rule
  <1> QED
    BY <1>5, <1>6, <1>7 DEF t

\* The two steps of the persist loop that store nothing.
LEMMA ReadFollows ==
  ASSUME TypeOK, NEW j \in Job, NEW r \in Rec,
         ReadWatermark(j, r) \/ SkipRecord(j, r),
         Orderly(job[j], preds), Batch(job[j], preds, runs)
  PROVE  /\ Orderly(job'[j], preds) /\ Batch(job'[j], preds, runs)
         /\ Rule(job'[j], preds)
  <1> DEFINE s == job[j]
             t == job'[j]
  <1>1. s \in PersistState /\ s.pc = "persist" /\ r \in s.todo
    BY ByPc DEF TypeOK, ReadWatermark, SkipRecord, Persisting, IsFirst
  <1>2. CASE ReadWatermark(j, r)
    <2> DEFINE k == [v \in DOMAIN s.known \cup {r.valve} |->
                       IF v = r.valve THEN Watermark(v) ELSE s.known[v]]
    <2>1. t = [s EXCEPT !.known = k]
      BY <1>2 DEF ReadWatermark, TypeOK
    <2>2. \A v \in DOMAIN k : \A w \in k[v] : InTable(preds, v, w)
      <3>1. ASSUME NEW v \in DOMAIN k, NEW w \in k[v]
            PROVE  InTable(preds, v, w)
        <4>1. CASE v = r.valve
          BY <3>1, <4>1 DEF Watermark, InTable
        <4>2. CASE v # r.valve
          BY <1>1, <3>1, <4>2 DEF Orderly
        <4> QED
          BY <4>1, <4>2
      <3> QED
        BY <3>1
    <2> HIDE DEF s, k
    <2>3. /\ t.pc = "persist" /\ t.run = s.run /\ t.fresh = s.fresh
          /\ t.todo = s.todo /\ t.known = k /\ t # Off /\ s # Off
      BY <1>1, <2>1 DEF PersistState, Off
    <2> HIDE DEF t
    <2>4. Orderly(s, preds) /\ Batch(s, preds, runs)
      BY DEF s
    <2>5. Orderly(t, preds) /\ Batch(t, preds, runs) /\ Rule(t, preds)
      BY <1>1, <2>2, <2>3, <2>4 DEF Orderly, Batch, Rule
    <2> QED
      BY <2>5 DEF t
  <1>3. CASE SkipRecord(j, r)
    <2>1. t = [s EXCEPT !.todo = @ \ {r}]
      BY <1>3 DEF SkipRecord, TypeOK
    <2>2. InTable(preds, r.valve, r.window)
      BY <1>1, <1>3 DEF SkipRecord, Orderly
    <2> HIDE DEF s
    <2>3. /\ t.pc = "persist" /\ t.run = s.run /\ t.fresh = s.fresh
          /\ t.todo = s.todo \ {r} /\ t.known = s.known /\ t # Off /\ s # Off
      BY <1>1, <2>1 DEF PersistState, Off
    <2> HIDE DEF t
    <2>4. Orderly(s, preds) /\ Batch(s, preds, runs)
      BY DEF s
    <2>5. Orderly(t, preds) /\ Batch(t, preds, runs) /\ Rule(t, preds)
      BY <1>1, <2>2, <2>3, <2>4 DEF Orderly, Batch, Rule
    <2> QED
      BY <2>5 DEF t
  <1> QED
    BY <1>2, <1>3

\* insert_prediction: a window that was not in the table is the newest of its
\* valve in it.
LEMMA PersistFollows ==
  ASSUME IInv, NEW j \in Job, NEW r \in Rec, PersistRecord(j, r),
         Orderly(job[j], preds), Batch(job[j], preds, runs), Gapless(preds),
         \A q \in preds : q.run < runs
  PROVE  /\ Orderly(job'[j], preds') /\ Batch(job'[j], preds', runs)
         /\ Rule(job'[j], preds') /\ Gapless(preds')
         /\ \A q \in preds' : q.run < runs
  <1> DEFINE s == job[j]
             t == job'[j]
             p == AsPred(r, s.run)
  <1>1. /\ TypeOK /\ s \in PersistState /\ s.pc = "persist" /\ r \in s.todo
        /\ Covered(s) /\ r.valve \in DOMAIN s.known
        /\ r.window \notin s.known[r.valve]
    BY ByPc DEF IInv, TInv, TypeOK, PersistRecord, Persisting, IsFirst
  <1>16. IsFirst(r, s.todo) /\ s.todo \subseteq Rec
    BY <1>1, PersistFields DEF PersistRecord, Persisting
  <1>2. preds' = preds \cup {p}
    BY DEF PersistRecord, AsPred
  <1>3. t = [s EXCEPT !.todo = @ \ {r}, !.fresh = @ \cup {r}]
    BY DEF PersistRecord, IInv, TInv, TypeOK
  <1>4. p.valve = r.valve /\ p.window = r.window /\ p.run = s.run
    BY DEF AsPred
  <1>5. ~InTable(preds, r.valve, r.window)
    BY <1>1 DEF Covered, InTable
  <1>6. ASSUME NEW q \in preds, q.valve = r.valve
        PROVE  q.window < r.window
    <2>1. q.window \in Nat /\ r.window \in Nat /\ r.window >= 1
      BY <1>1, AlertsAssumption DEF TypeOK, Pred, Rec, Window
    <2>2. q.window # r.window
      BY <1>5, <1>6 DEF InTable
    <2>3. ~(r.window \in 1..q.window - 1)
      BY <1>5, <1>6 DEF Gapless
    <2> QED
      BY <2>1, <2>2, <2>3
  <1>7. \A v, w : InTable(preds, v, w) => InTable(preds', v, w)
    BY <1>2 DEF InTable
  <1>8. InTable(preds', r.valve, r.window)
    BY <1>2, <1>4 DEF InTable
  <1> HIDE DEF s, p
  <1>9. Orderly(s, preds) /\ Batch(s, preds, runs)
    BY DEF s
  <1>10. /\ t.pc = "persist" /\ t.run = s.run /\ t.fresh = s.fresh \cup {r}
         /\ t.todo = s.todo \ {r} /\ t.known = s.known /\ t # Off /\ s # Off
    <2> DEFINE T == s.todo \ {r}
               F == s.fresh \cup {r}
    <2>1. /\ t = [s EXCEPT !.todo = T, !.fresh = F]
          /\ s \in [pc : {"persist"}, run : Nat, todo : SUBSET Rec,
                     fresh : SUBSET Rec, known : KnownType]
      BY <1>1, <1>3 DEF PersistState, KnownType
    <2> HIDE DEF t, T, F
    <2>2. /\ t.pc = "persist" /\ t.run = s.run /\ t.fresh = F
          /\ t.todo = T /\ t.known = s.known
      BY <2>1
    <2>3. t # Off /\ s # Off
      BY <1>1, <2>2 DEF Off
    <2> QED
      BY <2>2, <2>3 DEF T, F
  <1> HIDE DEF t
  <1>11. Orderly(t, preds')
    <2>1. ASSUME NEW q \in t.todo, NEW w \in 1..q.window - 1
          PROVE  \/ InTable(preds', q.valve, w)
                 \/ \E x \in t.todo : x.valve = q.valve /\ x.window = w
      <3>1. \/ InTable(preds, q.valve, w)
            \/ \E x \in s.todo : x.valve = q.valve /\ x.window = w
        BY <1>1, <1>9, <1>10, <2>1 DEF Orderly
      <3> QED
        BY <1>7, <1>8, <1>10, <3>1
    <2>2. \A v \in DOMAIN t.known : \A w \in t.known[v] : InTable(preds', v, w)
      BY <1>1, <1>7, <1>9, <1>10 DEF Orderly
    <2> QED
      BY <2>1, <2>2 DEF Orderly
  <1>12. Batch(t, preds', runs)
    <2>1. s.run < runs /\ \A x \in s.fresh : AsPred(x, s.run) \in preds
      BY <1>9, <1>10 DEF Batch
    <2>2. \A x \in t.fresh : AsPred(x, t.run) \in preds'
      BY <1>2, <1>10, <2>1 DEF p
    <2>3. ASSUME NEW q \in preds', q.run = t.run
          PROVE  \E x \in t.fresh : q = AsPred(x, t.run)
      BY <1>2, <1>9, <1>10, <2>3 DEF Batch, p
    <2>4. ASSUME NEW x \in t.fresh, NEW q \in preds', q.run # t.run,
                 q.valve = x.valve
          PROVE  q.window < x.window
      <3>1. q \in preds /\ q.run # s.run
        BY <1>2, <1>4, <1>10, <2>4
      <3> QED
        BY <1>6, <1>9, <1>10, <2>4, <3>1 DEF Batch
    <2> QED
      BY <1>10, <2>1, <2>2, <2>3, <2>4 DEF Batch
  <1>13. Rule(t, preds')
    BY <1>10 DEF Rule
  <1>14. Gapless(preds')
    <2>1. ASSUME NEW w \in 1..r.window - 1
          PROVE  InTable(preds', r.valve, w)
      <3>1. \/ InTable(preds, r.valve, w)
            \/ \E x \in s.todo : x.valve = r.valve /\ x.window = w
        BY <1>1, <1>9 DEF Orderly
      <3>2. ASSUME NEW x \in s.todo, x.valve = r.valve
            PROVE  x.window # w
        <4>1. Before(r, x) /\ x \in Rec /\ r.valve \in Nat
          BY <1>1, <1>16, <3>2, AlertsAssumption DEF IsFirst, Rec
        <4>2. r.window <= x.window /\ x.window \in Nat /\ r.window \in Nat
          BY <3>2, <4>1, AlertsAssumption DEF Before, Rec, Window
        <4> QED
          BY <4>2
      <3> QED
        BY <1>7, <3>1, <3>2
    <2> QED
      BY <1>2, <1>4, <1>7, <2>1 DEF Gapless
  <1>15. \A q \in preds' : q.run < runs
    BY <1>2, <1>4, <1>9, <1>10 DEF Batch
  <1> QED
    BY <1>11, <1>12, <1>13, <1>14, <1>15 DEF t

\* The reads of the alert wiring: what load_score_history leaves out is what the
\* run is about to count.
LEMMA WiringFollows ==
  ASSUME TypeOK, NEW j \in Job, LoadStates(j) \/ LoadHistory(j) \/ ReadBaseline(j),
         Batch(job[j], preds, runs), Rule(job[j], preds)
  PROVE  /\ Orderly(job'[j], preds) /\ Batch(job'[j], preds, runs)
         /\ Rule(job'[j], preds)
  <1> DEFINE s == job[j]
             t == job'[j]
  <1>1. ASSUME t = Off
        PROVE  /\ Orderly(t, preds) /\ Batch(t, preds, runs) /\ Rule(t, preds)
    BY <1>1 DEF Orderly, Batch, Rule, Off
  <1>2. CASE LoadStates(j)
    <2>1. /\ s.pc = "persist"
          /\ t # Off =>
               /\ t.pc = "history" /\ t.run = s.run /\ t.fresh = s.fresh
               /\ t.states = [v \in Valve |-> [row |-> alerts[v], cool |-> None]]
      BY <1>2, LoadStatesFields
    <2>2. Batch(s, preds, runs) /\ s # Off
      BY <2>1 DEF Off
    <2> HIDE DEF s, t
    <2>3. t # Off => \A v \in Valve : t.states[v].cool = None
      BY <2>1
    <2> QED
      BY <1>1, <2>1, <2>2, <2>3 DEF Orderly, Batch, Rule, t
  <1>3. CASE LoadHistory(j)
    <2>1. /\ s \in HistoryState /\ s.pc = "history"
          /\ t.pc = "decide" /\ t.run = s.run /\ t.fresh = s.fresh
          /\ t.todo = s.fresh /\ t.states = s.states
          /\ t.hist = [v \in Valve |-> History(Stored(v, s.run))]
      BY <1>3, LoadHistoryFields
    <2>2. Batch(s, preds, runs) /\ Rule(s, preds) /\ s # Off /\ t # Off
      BY <2>1 DEF Off
    <2> HIDE DEF s, t
    <2>3. ASSUME NEW v \in Valve PROVE Counted(t, preds, v) = Stored(v, s.run)
      <3>1. \A q \in preds : q.run = s.run <=> \E r \in t.todo : q = AsPred(r, t.run)
        BY <2>1, <2>2 DEF Batch, AsPred
      <3> QED
        BY <3>1 DEF Counted, Stored
    <2>4. \A v \in Valve : t.hist[v] = History(Counted(t, preds, v))
      BY <2>1, <2>3
    <2>5. \A r \in t.todo : t.states[r.valve].cool <= r.window
      <3>1. \A v \in Valve : t.states[v].cool = None
        BY <2>1, <2>2 DEF Rule
      <3>2. t.todo \subseteq Rec
        BY <2>1 DEF HistoryState
      <3> QED
        BY <3>1, <3>2 DEF Rec, Window, None
    <2>6. Rule(t, preds)
      BY <2>1, <2>4, <2>5 DEF Rule
    <2>7. Orderly(t, preds) /\ Batch(t, preds, runs)
      BY <2>1, <2>2 DEF Orderly, Batch
    <2> QED
      BY <2>6, <2>7 DEF t
  <1>4. CASE ReadBaseline(j)
    <2>1. /\ s \in DecideState /\ s.pc = "decide" /\ s.todo = {}
          /\ t # Off => /\ t.pc = "upsert" /\ t.run = s.run /\ t.fresh = s.fresh
                        /\ t.states = s.states
      BY <1>4, ReadBaselineFields
    <2>2. Batch(s, preds, runs) /\ Rule(s, preds) /\ s # Off
      BY <2>1 DEF Off
    <2> HIDE DEF s, t
    <2>3. \A v : Counted(s, preds, v) = {q \in preds : q.valve = v}
      BY <2>1 DEF Counted
    <2>4. s.fresh \subseteq Rec
      BY <2>1 DEF DecideState
    <2>5. ASSUME NEW r \in s.fresh
          PROVE  s.states[r.valve].row.status # "closed"
                   <=> Qualified(History({q \in preds : q.valve = r.valve}))
      <3>1. r \in s.fresh \ s.todo /\ r.valve \in Valve
        BY <2>1, <2>4 DEF Rec
      <3>2. s.states[r.valve].row.status # "closed" <=> Qualified(s.hist[r.valve])
        BY <2>1, <2>2, <3>1 DEF Rule
      <3>3. s.hist[r.valve] = History({q \in preds : q.valve = r.valve})
        BY <2>1, <2>2, <2>3, <3>1 DEF Rule
      <3> QED
        BY <3>2, <3>3
    <2>6. t # Off => Rule(t, preds)
      BY <2>1, <2>5 DEF Rule
    <2>7. t # Off => Orderly(t, preds) /\ Batch(t, preds, runs)
      BY <2>1, <2>2 DEF Orderly, Batch
    <2> QED
      BY <1>1, <2>6, <2>7 DEF t
  <1> QED
    BY <1>2, <1>3, <1>4

\* persist_events: what the history calls for is not read again.
LEMMA WriteFollows ==
  ASSUME TypeOK, NEW j \in Job, UpsertAlert(j) \/ InsertTransition(j),
         Batch(job[j], preds, runs), Rule(job[j], preds)
  PROVE  /\ Orderly(job'[j], preds) /\ Batch(job'[j], preds, runs)
         /\ Rule(job'[j], preds)
  <1> DEFINE s == job[j]
             t == job'[j]
  <1>1. /\ s.pc \in {"upsert", "insert"}
        /\ t # Off => /\ t.pc \in {"upsert", "insert"} /\ t.run = s.run
                      /\ t.fresh = s.fresh /\ t.states = s.states
    <2>1. CASE UpsertAlert(j)
      BY <2>1, UpsertFields
    <2>2. CASE InsertTransition(j)
      BY <2>2, InsertFields
    <2> QED
      BY <2>1, <2>2
  <1>2. Batch(s, preds, runs) /\ Rule(s, preds) /\ s # Off
    BY <1>1 DEF Off
  <1>3. ASSUME t = Off
        PROVE  /\ Orderly(t, preds) /\ Batch(t, preds, runs) /\ Rule(t, preds)
    BY <1>3 DEF Orderly, Batch, Rule, Off
  <1> HIDE DEF s, t
  <1>4. t # Off => /\ Orderly(t, preds) /\ Batch(t, preds, runs)
                   /\ Rule(t, preds)
    BY <1>1, <1>2 DEF Orderly, Batch, Rule
  <1> QED
    BY <1>3, <1>4 DEF t

\* _handle_score_aggregation out of cooldown: the status in memory becomes the one
\* the history calls for, and a cooldown ends by the next window.
LEMMA TransitionFollows ==
  ASSUME Cooldown <= 1, NEW st \in [row : Row, cool : Nat], NEW h,
         NEW r \in Rec, st.cool <= r.window,
         NEW to, to = Transition(st, h, r)
  PROVE  /\ InMemory(st, to, r).row.status # "closed" <=> Qualified(h)
         /\ InMemory(st, to, r).cool <= r.window + 1
  <1>1. /\ r.window \in Nat /\ Cooldown \in Nat /\ st.row \in Row /\ st.cool \in Nat
        /\ st.row.status \in Status
    BY AlertsAssumption DEF Rec, Window, Row
  <1>2. ~(st.cool # None /\ r.window < st.cool)
    BY <1>1
  <1>3. /\ to = "none" => (st.row.status # "closed" <=> Qualified(h))
        /\ to # "none" => (to # "closed" <=> Qualified(h))
    BY <1>2 DEF Transition
  <1>4. /\ to \in {"none", "open", "sustained", "closed"}
        /\ to = "none" => InMemory(st, to, r) = st
        /\ to # "none" => InMemory(st, to, r).row.status = to
    BY TransitionLegal
  <1>5. InMemory(st, to, r).cool <= r.window + 1
    <2> DEFINE o == [st.row EXCEPT !.status = to, !.opened = r.window,
                                   !.last = r.window, !.max = r.score, !.n = 1]
               u == [st.row EXCEPT !.status = to, !.last = r.window,
                                   !.max = MaxOf(@, r.score), !.n = @ + 1]
               c == [st.row EXCEPT !.status = to, !.closed = r.window]
               k == r.window + Cooldown
    <2>1. /\ to = "open" => InMemory(st, to, r) = [st EXCEPT !.row = o]
          /\ to = "sustained" => InMemory(st, to, r) = [st EXCEPT !.row = u]
          /\ to = "closed" => InMemory(st, to, r)
                = [st EXCEPT !.row = c, !.cool = k]
      BY DEF InMemory
    <2>2. k <= r.window + 1 /\ st.cool <= r.window + 1
      BY <1>1
    <2> HIDE DEF o, u, c, k
    <2> QED
      BY <1>4, <2>1, <2>2
  <1> QED
    BY <1>3, <1>4, <1>5

LEMMA RecNumbers ==
  ASSUME NEW x \in Rec
  PROVE  x.valve \in Nat /\ x.window \in Nat
  <1>1. x.valve \in Valve /\ x.window \in 1..MaxWindow
    BY DEF Rec, Window
  <1>2. Valve \subseteq Nat /\ MaxWindow \in Nat
    BY AlertsAssumption
  <1>3. x.valve \in Nat
    BY <1>1, <1>2
  <1>4. x.window \in Nat
    BY <1>1
  <1> QED
    BY <1>3, <1>4

\* process, one record: the history the engine keeps is the one a later read of
\* the table would give, the record counted.
LEMMA DecideCounts ==
  ASSUME TInv, OnePredictionPerWindow, NEW j \in Job, NEW r \in Rec, Decide(j, r),
         Batch(job[j], preds, runs), Rule(job[j], preds)
  PROVE  \A v \in Valve : job'[j].hist[v] = History(Counted(job'[j], preds, v))
  <1> DEFINE s == job[j]
             t == job'[j]
             p == AsPred(r, s.run)
             P == Counted(s, preds, r.valve)
             h == LastN(Append(s.hist[r.valve], Above(r.score)))
  <1>1. /\ s \in DecideState /\ s.pc = "decide" /\ IsFirst(r, s.todo)
        /\ t.pc = "decide" /\ t.run = s.run /\ t.fresh = s.fresh
        /\ t.todo = s.todo \ {r}
        /\ t.hist = [s.hist EXCEPT ![r.valve] = h]
    BY DecideFields DEF TInv
  <1>2. /\ Batch(s, preds, runs) /\ Rule(s, preds) /\ s # Off
        /\ preds \subseteq Pred /\ IsFiniteSet(preds)
    BY <1>1 DEF Off, TInv, TypeOK
  <1>3. /\ p.valve = r.valve /\ p.window = r.window /\ p.run = s.run
        /\ p.score = r.score
    BY DEF AsPred
  <1>4. s.todo \subseteq Rec /\ s.fresh \subseteq Rec /\ s.hist \in [Valve -> Seq(BOOLEAN)]
    BY <1>1 DEF DecideState
  <1>5. \A x \in Rec : AsPred(x, s.run) = p => x = r
    BY DEF AsPred, Rec
  <1> HIDE DEF s, t, p, P, h
  <1>6. r \in s.todo /\ r \in s.fresh /\ p \in preds
    BY <1>1, <1>2 DEF Rule, IsFirst, Batch, p
  <1>7. ASSUME NEW q \in P PROVE q.window < r.window
    <2>1. /\ q \in preds /\ q.valve = r.valve
          /\ ~\E x \in s.todo : q = AsPred(x, s.run)
      BY DEF P, Counted
    <2>2. CASE q.run # s.run
      BY <1>2, <1>6, <2>1, <2>2 DEF Batch
    <2>3. CASE q.run = s.run
      <3>1. PICK x \in s.fresh : q = AsPred(x, s.run)
        BY <1>2, <2>1, <2>3 DEF Batch
      <3>2. x \in s.fresh \ s.todo /\ x.valve = r.valve /\ x.window = q.window
        BY <2>1, <3>1 DEF AsPred
      <3>3. Before(x, r)
        BY <1>1, <1>2, <1>6, <3>2 DEF Rule
      <3>4. x.window <= r.window /\ x.window \in Nat /\ r.window \in Nat
        <4>1. /\ x \in Rec /\ r.valve \in Nat
              /\ x.window \in Nat /\ r.window \in Nat
          BY <1>4, <3>2, RecNumbers
        <4> QED
          BY <3>2, <3>3, <4>1 DEF Before
      <3>5. q.window # r.window
        BY <1>3, <1>6, <2>1 DEF OnePredictionPerWindow, p
      <3> QED
        BY <3>2, <3>4, <3>5
    <2> QED
      BY <2>2, <2>3
  <1>8. Counted(t, preds, r.valve) = P \cup {p}
    <2>1. ASSUME NEW q \in preds, q.valve = r.valve
          PROVE  (~\E x \in t.todo : q = AsPred(x, t.run))
                   <=> q = p \/ ~\E x \in s.todo : q = AsPred(x, s.run)
      <3>1. CASE q = p
        BY <1>1, <1>4, <1>5, <3>1
      <3>2. CASE q # p
        <4>1. q # AsPred(r, s.run)
          BY <3>2 DEF p
        <4> QED
          BY <1>1, <3>2, <4>1
      <3> QED
        BY <3>1, <3>2
    <2>2. \A q : q \in Counted(t, preds, r.valve) <=> q \in P \cup {p}
      BY <1>3, <1>6, <2>1 DEF Counted, P
    <2> QED
      BY <2>2
  <1>9. ASSUME NEW v \in Valve, v # r.valve
        PROVE  Counted(t, preds, v) = Counted(s, preds, v)
    <2>1. ASSUME NEW q \in preds, q.valve = v
          PROVE  (~\E x \in t.todo : q = AsPred(x, t.run))
                   <=> ~\E x \in s.todo : q = AsPred(x, s.run)
      <3>1. q # AsPred(r, s.run)
        BY <1>9, <2>1 DEF AsPred
      <3> QED
        BY <1>1, <3>1
    <2>2. \A q : q \in Counted(t, preds, v) <=> q \in Counted(s, preds, v)
      BY <2>1 DEF Counted
    <2> QED
      BY <2>2
  <1>10. History(P \cup {p}) = h
    <2>1. P \in SUBSET Pred /\ IsFiniteSet(P) /\ p \in Pred
      <3>1. P \subseteq preds
        BY DEF P, Counted
      <3> QED
        BY <1>2, <1>6, <3>1, FS_Subset
    <2>2. \A q \in P : q.window < p.window
      BY <1>3, <1>7
    <2>3. s.hist[r.valve] = History(P)
      BY <1>1, <1>2 DEF Rule, Rec, P
    <2>4. History(P \cup {p}) = LastN(Append(History(P), Above(p.score)))
      BY <2>1, <2>2, HistoryAppend
    <2> QED
      BY <1>3, <2>3, <2>4 DEF h
  <1>11. r.valve \in Valve
    BY DEF Rec
  <1>12. ASSUME NEW v \in Valve PROVE t.hist[v] = History(Counted(t, preds, v))
    <2>1. CASE v = r.valve
      BY <1>1, <1>4, <1>8, <1>10, <1>11, <2>1
    <2>2. CASE v # r.valve
      <3>1. t.hist[v] = s.hist[v]
        BY <1>1, <1>4, <2>2
      <3> QED
        BY <1>1, <1>2, <1>9, <2>2, <3>1 DEF Rule
    <2> QED
      BY <2>1, <2>2
  <1> QED
    BY <1>12 DEF t

LEMMA DecideFollows ==
  ASSUME TInv, OnePredictionPerWindow, Cooldown <= 1, NEW j \in Job, NEW r \in Rec,
         Decide(j, r), Batch(job[j], preds, runs), Rule(job[j], preds)
  PROVE  /\ Orderly(job'[j], preds) /\ Batch(job'[j], preds, runs)
         /\ Rule(job'[j], preds)
  <1> DEFINE s == job[j]
             t == job'[j]
             st == s.states[r.valve]
             h == LastN(Append(s.hist[r.valve], Above(r.score)))
             to == Transition(st, h, r)
             new == InMemory(st, to, r)
  <1>1. /\ s \in DecideState /\ s.pc = "decide" /\ IsFirst(r, s.todo)
        /\ t.pc = "decide" /\ t.run = s.run /\ t.fresh = s.fresh
        /\ t.todo = s.todo \ {r}
        /\ t.hist = [s.hist EXCEPT ![r.valve] = h]
        /\ t.states = [s.states EXCEPT ![r.valve] = new]
    BY DecideFields DEF TInv
  <1>2. /\ Batch(s, preds, runs) /\ Rule(s, preds) /\ s # Off /\ t # Off
    BY <1>1 DEF Off
  <1>3. \A v \in Valve : t.hist[v] = History(Counted(t, preds, v))
    BY DecideCounts
  <1> HIDE DEF s, t
  <1>4. /\ s.todo \subseteq Rec /\ s.fresh \subseteq Rec /\ r.valve \in Valve
        /\ s.hist \in [Valve -> Seq(BOOLEAN)] /\ s.states \in States
    BY <1>1 DEF DecideState, Rec
  <1>5. /\ r \in s.todo /\ s.todo \subseteq s.fresh
    BY <1>1, <1>2 DEF IsFirst, Rule
  <1>6. /\ new.row.status # "closed" <=> Qualified(h)
        /\ new.cool <= r.window + 1 /\ new.cool \in Nat
    <2>1. st \in [row : Row, cool : Nat]
      BY <1>4 DEF States
    <2>2. st.cool <= r.window
      BY <1>1, <1>2, <1>5 DEF Rule
    <2>3. new.cool \in Nat
      BY <2>1, InMemoryType
    <2> HIDE DEF st, h
    <2> QED
      BY <2>1, <2>2, <2>3, TransitionFollows
  <1> HIDE DEF st, h, to, new
  <1>7. ASSUME NEW x \in t.todo, x.valve = r.valve
        PROVE  r.window + 1 <= x.window /\ r.window \in Nat /\ x.window \in Nat
    <2>1. Before(r, x) /\ x \in s.todo /\ x # r
      BY <1>1, <1>7 DEF IsFirst
    <2>2. /\ x \in Rec /\ r.valve \in Nat /\ r.window \in Nat /\ x.window \in Nat
      <3>1. x \in Rec
        BY <1>4, <2>1
      <3> QED
        BY <3>1, RecNumbers
    <2>3. r.window <= x.window
      BY <1>7, <2>1, <2>2 DEF Before
    <2>4. AsPred(r, s.run) \in preds /\ AsPred(x, s.run) \in preds
      BY <1>2, <1>5, <2>1 DEF Batch
    <2>5. x.window # r.window
      <3>1. x.window = r.window => AsPred(r, s.run) = AsPred(x, s.run)
        BY <1>7, <2>4 DEF OnePredictionPerWindow, AsPred
      <3>2. AsPred(r, s.run) = AsPred(x, s.run) => x = r
        BY <2>2 DEF AsPred, Rec
      <3> QED
        BY <2>1, <3>1, <3>2
    <2> QED
      BY <2>2, <2>3, <2>5
  <1>8. \A q \in t.fresh \ t.todo, x \in t.todo : Before(q, x)
    BY <1>1, <1>2 DEF Rule, IsFirst
  <1>9. ASSUME NEW x \in t.todo PROVE t.states[x.valve].cool <= x.window
    <2>1. x \in s.todo /\ x.valve \in Valve
      BY <1>1, <1>4 DEF Rec
    <2>2. CASE x.valve = r.valve
      <3>1. t.states[x.valve] = new
        BY <1>1, <1>4, <2>2 DEF States
      <3> QED
        BY <1>6, <1>7, <2>2, <3>1
    <2>3. CASE x.valve # r.valve
      <3>1. t.states[x.valve] = s.states[x.valve]
        BY <1>1, <1>4, <2>1, <2>3 DEF States
      <3> QED
        BY <1>1, <1>2, <2>1, <3>1 DEF Rule
    <2> QED
      BY <2>2, <2>3
  <1>10. ASSUME NEW x \in t.fresh \ t.todo
         PROVE  t.states[x.valve].row.status # "closed" <=> Qualified(t.hist[x.valve])
    <2>1. x.valve \in Valve /\ x \in s.fresh
      BY <1>1, <1>4 DEF Rec
    <2>2. CASE x.valve = r.valve
      <3>1. t.states[x.valve] = new /\ t.hist[x.valve] = h
        BY <1>1, <1>4, <2>2 DEF States
      <3> QED
        BY <1>6, <3>1
    <2>3. CASE x.valve # r.valve
      <3>1. /\ t.states[x.valve] = s.states[x.valve]
            /\ t.hist[x.valve] = s.hist[x.valve]
        BY <1>1, <1>4, <2>1, <2>3 DEF States
      <3>2. x \in s.fresh \ s.todo
        BY <1>1, <2>1, <2>3
      <3> QED
        BY <1>1, <1>2, <3>1, <3>2 DEF Rule
    <2> QED
      BY <2>2, <2>3
  <1>11. Rule(t, preds)
    BY <1>1, <1>3, <1>5, <1>8, <1>9, <1>10 DEF Rule
  <1>12. Orderly(t, preds) /\ Batch(t, preds, runs)
    BY <1>1, <1>2 DEF Orderly, Batch
  <1> QED
    BY <1>11, <1>12 DEF t

\* Windows that complete in order leave no gap in the raw files.
LEMMA RawFollows ==
  ASSUME TypeOK, InOrder, RawGapless(raw),
         NEW v \in Valve, NEW w \in Window, NEW s \in Level,
         WindowCompletes(v, w, s)
  PROVE  RawGapless(raw')
  <1>1. /\ raw' = [raw EXCEPT ![v][w] = s] /\ s # Missing
        /\ \A x \in 1..w - 1 : raw[v][x] # Missing
    BY DEF WindowCompletes, Level, Missing
  <1>2. ASSUME NEW u \in Valve, NEW x \in Window
        PROVE  raw'[u][x] = IF u = v /\ x = w THEN s ELSE raw[u][x]
    BY <1>1 DEF TypeOK
  <1>3. ASSUME NEW u \in Valve, NEW x \in Window, raw'[u][x] # Missing,
               NEW y \in 1..x - 1
        PROVE  raw'[u][y] # Missing
    <2>1. y \in Window
      BY AlertsAssumption DEF Window
    <2>2. raw[u][y] # Missing
      <3>1. CASE u = v /\ x = w
        BY <1>1, <3>1
      <3>2. CASE ~(u = v /\ x = w)
        <4>1. raw[u][x] # Missing
          BY <1>2, <1>3, <3>2
        <4> QED
          BY <4>1 DEF RawGapless
      <3> QED
        BY <3>1, <3>2
    <2> QED
      BY <1>1, <1>2, <2>1, <2>2
  <1> QED
    BY <1>3 DEF RawGapless

LEMMA FollowingNext ==
  ASSUME NEW p, Job = {p}, InOrder, Cooldown <= 1, IInv,
         Following(job[p], preds, raw, runs), [Next]_vars
  PROVE  Following(job'[p], preds', raw', runs')
  <1>1. /\ TypeOK /\ TInv /\ OnePredictionPerWindow /\ p \in Job
        /\ RawGapless(raw) /\ Gapless(preds) /\ \A q \in preds : q.run < runs
        /\ Orderly(job[p], preds) /\ Batch(job[p], preds, runs)
        /\ Rule(job[p], preds)
    BY DEF IInv, TInv, Following
  <1>2. CASE UNCHANGED vars
    BY <1>2 DEF vars
  <1>3. ASSUME NEW v \in Valve, NEW w \in Window, NEW s \in Level,
               WindowCompletes(v, w, s)
        PROVE  Following(job'[p], preds', raw', runs')
    <2>1. RawGapless(raw') /\ UNCHANGED <<preds, job, runs>>
      BY <1>1, <1>3, RawFollows DEF WindowCompletes
    <2> QED
      BY <1>1, <2>1 DEF Following
  <1>4. CASE StartRun(p)
    <2>1. /\ Orderly(job'[p], preds) /\ Batch(job'[p], preds, runs')
          /\ Rule(job'[p], preds)
      BY <1>1, <1>4, StartFollows
    <2>2. UNCHANGED <<raw, preds>> /\ runs' = runs + 1
      BY <1>4 DEF StartRun
    <2>3. \A q \in preds : q.run < runs'
      <3>1. runs \in Nat /\ \A q \in preds : q.run \in Nat
        BY <1>1, AlertsAssumption DEF TypeOK, Pred
      <3> QED
        BY <1>1, <2>2, <3>1
    <2> QED
      BY <1>1, <2>1, <2>2, <2>3 DEF Following
  <1>5. ASSUME UNCHANGED <<raw, preds, runs>>, Orderly(job'[p], preds),
               Batch(job'[p], preds, runs), Rule(job'[p], preds)
        PROVE  Following(job'[p], preds', raw', runs')
    BY <1>1, <1>5 DEF Following
  <1>6. ASSUME NEW r \in Rec, ReadWatermark(p, r) \/ SkipRecord(p, r)
        PROVE  Following(job'[p], preds', raw', runs')
    <2>1. UNCHANGED <<raw, preds, runs>>
      BY <1>6 DEF ReadWatermark, SkipRecord
    <2> QED
      BY <1>1, <1>5, <1>6, <2>1, ReadFollows
  <1>7. ASSUME NEW r \in Rec, PersistRecord(p, r)
        PROVE  Following(job'[p], preds', raw', runs')
    <2>1. UNCHANGED <<raw, runs>>
      BY <1>7 DEF PersistRecord
    <2> QED
      BY <1>1, <1>7, <2>1, PersistFollows DEF Following
  <1>8. ASSUME NEW r \in Rec, Decide(p, r)
        PROVE  Following(job'[p], preds', raw', runs')
    <2>1. UNCHANGED <<raw, preds, runs>>
      BY <1>8 DEF Decide
    <2> QED
      BY <1>1, <1>5, <1>8, <2>1, DecideFollows
  <1>9. CASE LoadStates(p) \/ LoadHistory(p) \/ ReadBaseline(p)
    <2>1. UNCHANGED <<raw, preds, runs>>
      BY <1>9 DEF LoadStates, LoadHistory, ReadBaseline
    <2> QED
      BY <1>1, <1>5, <1>9, <2>1, WiringFollows
  <1>10. CASE UpsertAlert(p) \/ InsertTransition(p)
    <2>1. UNCHANGED <<raw, preds, runs>>
      BY <1>10 DEF UpsertAlert, InsertTransition
    <2> QED
      BY <1>1, <1>5, <1>10, <2>1, WriteFollows
  <1>11. CASE Abandon(p)
    <2>1. job'[p] = Off /\ UNCHANGED <<raw, preds, runs>>
      BY <1>1, <1>11 DEF Abandon, TypeOK
    <2>2. /\ Orderly(Off, preds) /\ Batch(Off, preds, runs) /\ Rule(Off, preds)
      BY DEF Orderly, Batch, Rule, Off
    <2> QED
      BY <1>5, <2>1, <2>2
  <1> QED
    BY <1>1, <1>2, <1>3, <1>4, <1>6, <1>7, <1>8, <1>9, <1>10, <1>11
    DEF Next, JobStep

LEMMA FInvInvariant ==
  ASSUME NEW CONSTANT p, Job = {p}, InOrder, Cooldown <= 1
  PROVE  Spec => []FInv(p)
  <1>1. ASSUME Init PROVE FInv(p)
    <2>1. IInv /\ job[p] = Off /\ preds = {}
      BY <1>1, IInvInit DEF Init
    <2>2. Engine(Off, alerts)
      BY DEF Engine, Off
    <2>3. RawGapless(raw)
      BY <1>1 DEF Init, RawGapless
    <2>4. Following(Off, {}, raw, runs)
      BY <2>3 DEF Following, Gapless, Orderly, Batch, Rule, Off
    <2> QED
      BY <2>1, <2>2, <2>4 DEF FInv
  <1>2. ASSUME FInv(p), [Next]_vars PROVE FInv(p)'
    <2>1. IInv'
      BY <1>2, OnePredictionNext DEF FInv
    <2>2. Engine(job'[p], alerts')
      BY <1>2, EngineNext DEF FInv, IInv
    <2>3. Following(job'[p], preds', raw', runs')
      BY <1>2, FollowingNext DEF FInv
    <2> QED
      BY <2>1, <2>2, <2>3 DEF FInv
  <1>3. Init => FInv(p)
    BY <1>1
  <1>4. FInv(p) /\ [Next]_vars => FInv(p)'
    BY <1>2
  <1> QED
    BY <1>3, <1>4, PTL DEF Spec

LEMMA TailOfOne ==
  ASSUME NEW E \in Seq(Ev), Len(E) = 1
  PROVE  Tail(E) = <<>>
  <1>1. E # <<>>
    OBVIOUS
  <1>2. Tail(E) \in Seq(Ev) /\ Len(Tail(E)) = 0
    BY <1>1
  <1> DEFINE x == Tail(E)
  <1> HIDE DEF x
  <1>3. x \in Seq(Ev) /\ Len(x) = 0 => x = <<>>
    OBVIOUS
  <1> QED
    BY <1>2, <1>3 DEF x

\* A step that ends a run: either it had predicted nothing, or the statuses in
\* memory are those of the table.
LEMMA RunEnds ==
  ASSUME NEW p, Job = {p}, FInv(p), [Next]_vars, EndsRun(p),
         NEW r, r \in job[p].fresh
  PROVE  alerts'[r.valve].status # "closed"
           <=> Qualified(History(PredsOf(r.valve)))
  <1> DEFINE s == job[p]
             t == job'[p]
  <1>1. /\ TypeOK /\ p \in Job /\ t = Off /\ s # Off /\ dies' = dies
        /\ t.pc = "off" /\ r \in s.fresh
    BY DEF FInv, IInv, TInv, EndsRun, Off
  <1>2. Engine(s, alerts) /\ Rule(s, preds)
    BY DEF FInv, Following
  <1>3. ASSUME s.pc = "decide" \/ s.pc = "insert", s.fresh \subseteq Rec,
               s.states \in States, alerts' = alerts,
               s.pc = "decide" => s.todo = {} /\ s.events = <<>>,
               s.pc = "insert" => Tail(s.events) = <<>>
        PROVE  alerts'[r.valve].status # "closed"
                 <=> Qualified(History(PredsOf(r.valve)))
    <2>1. r.valve \in Valve
      BY <1>1, <1>3 DEF Rec
    <2> HIDE DEF s, t
    <2>2. Leads(StatusOf(alerts), <<>>, StatusIn(s.states))
      BY <1>2, <1>3 DEF Engine
    <2>3. StatusOf(alerts) = StatusIn(s.states)
      BY <1>1, <1>3, <2>2, StatusType, StatusInType, LeadsNowhere
    <2>4. alerts'[r.valve].status = s.states[r.valve].row.status
      BY <1>3, <2>1, <2>3 DEF StatusOf, StatusIn
    <2>5. CASE s.pc = "decide"
      <3>1. Counted(s, preds, r.valve) = PredsOf(r.valve)
        BY <1>3, <2>5 DEF Counted, PredsOf
      <3>2. s.hist[r.valve] = History(PredsOf(r.valve))
        BY <1>2, <2>1, <2>5, <3>1 DEF Rule
      <3>3. s.states[r.valve].row.status # "closed" <=> Qualified(s.hist[r.valve])
        BY <1>1, <1>2, <1>3, <2>5 DEF Rule
      <3> QED
        BY <2>4, <3>2, <3>3
    <2>6. CASE s.pc = "insert"
      BY <1>1, <1>2, <2>4, <2>6 DEF Rule, PredsOf
    <2> QED
      BY <1>3, <2>5, <2>6
  <1>4. CASE UNCHANGED vars
    BY <1>1, <1>4 DEF vars
  <1>5. ASSUME NEW v \in Valve, NEW w \in Window, NEW x \in Level,
               WindowCompletes(v, w, x)
        PROVE  FALSE
    BY <1>1, <1>5 DEF WindowCompletes
  <1>6. CASE StartRun(p)
    BY <1>1, <1>6 DEF StartRun
  <1>7. ASSUME NEW q \in Rec,
               ReadWatermark(p, q) \/ SkipRecord(p, q) \/ PersistRecord(p, q)
        PROVE  FALSE
    <2>1. PICK u \in PersistState : job' = [job EXCEPT ![p] = u]
      BY <1>1, <1>7, ReadWatermarkType, PersistStepType
    <2>2. t = u
      BY <1>1, <2>1 DEF TypeOK
    <2> QED
      BY <1>1, <2>2, PersistFields
  <1>8. ASSUME NEW q \in Rec, Decide(p, q) PROVE FALSE
    BY <1>1, <1>8, DecideFields
  <1>9. CASE LoadStates(p)
    BY <1>1, <1>9, LoadStatesFields
  <1>10. CASE LoadHistory(p)
    BY <1>1, <1>10, LoadHistoryFields
  <1>11. CASE ReadBaseline(p)
    <2>1. /\ s \in DecideState /\ s.pc = "decide" /\ s.todo = {}
          /\ s.events = <<>> /\ alerts' = alerts
      BY <1>1, <1>11, ReadBaselineFields
    <2>2. s.fresh \subseteq Rec /\ s.states \in States
      BY <2>1 DEF DecideState
    <2> QED
      BY <1>3, <2>1, <2>2
  <1>12. CASE UpsertAlert(p)
    BY <1>1, <1>12, UpsertFields
  <1>13. CASE InsertTransition(p)
    <2>1. /\ s \in WriteState /\ s.pc = "insert" /\ alerts' = alerts
          /\ Len(s.events) = 1
      BY <1>1, <1>13, InsertFields
    <2>2. s.fresh \subseteq Rec /\ s.states \in States /\ s.events \in Seq(Ev)
      BY <2>1 DEF WriteState
    <2>3. Tail(s.events) = <<>>
      BY <2>1, <2>2, TailOfOne
    <2> QED
      BY <1>3, <2>1, <2>2, <2>3
  <1>14. CASE Abandon(p)
    BY <1>1, <1>14 DEF Abandon, TypeOK
  <1> QED
    BY <1>1, <1>4, <1>5, <1>6, <1>7, <1>8, <1>9, <1>10, <1>11, <1>12, <1>13, <1>14
    DEF Next, JobStep

\* With one inference process at a time, windows that complete in order and a
\* cooldown no longer than the time between two windows (cooldown_seconds is 60,
\* a window 160 s), every run that comes to its end leaves each valve it has
\* predicted with an alert that stands exactly when the last N predictions of the
\* table hold K at or above the threshold, however many runs died before it: for
\* every number of valves and windows, every K and N.
THEOREM AlertsFollowCorrect ==
  ASSUME NEW CONSTANT p, Job = {p}, InOrder, Cooldown <= 1
  PROVE  Spec => AlertsFollowPredictions
  <1> DEFINE Ends ==
        \A j \in Job : EndsRun(j) =>
          \A v \in {r.valve : r \in job[j].fresh} :
            alerts'[v].status # "closed" <=> Qualified(History(PredsOf(v)))
  <1>1. ASSUME FInv(p), [Next]_vars PROVE Ends
    <2>1. ASSUME EndsRun(p), NEW v \in {r.valve : r \in job[p].fresh}
          PROVE  alerts'[v].status # "closed" <=> Qualified(History(PredsOf(v)))
      <3>1. PICK r \in job[p].fresh : v = r.valve
        BY <2>1
      <3> QED
        BY <1>1, <2>1, <3>1, RunEnds
    <2> QED
      BY <2>1
  <1>2. FInv(p) /\ [Next]_vars => [Ends]_vars
    BY <1>1
  <1>3. Spec => []FInv(p)
    BY FInvInvariant
  <1> QED
    BY <1>2, <1>3, PTL DEF Spec, AlertsFollowPredictions
=============================================================================
