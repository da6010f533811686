------------------------- MODULE StateHistoryProofs -------------------------
(* Proofs about module StateHistory, for any states, any length of the        *)
(* history and any number of crashes and redeliveries.                        *)
EXTENDS StateHistory, FiniteSetTheorems, WellFoundedInduction, TLAPS

Row == [state : State, entered : Nat, exited : Nat]

\* What the rows say of the machine.
RowsType ==
  /\ rows \in Seq(Row)
  /\ \A i \in DOMAIN rows :
       /\ rows[i].entered <= clock /\ rows[i].exited <= clock
       /\ dated => rows[i].entered \in due /\ rows[i].state = truth[rows[i].entered]

JobType ==
  /\ job \in {0} \cup due
  /\ job # 0 => /\ source = "offline"
                /\ \A u \in written : u <= job
                /\ job \in written => NextEvent(job) # {}

HistoryType ==
  /\ source \in {"realtime", "mqtt", "offline"}
  /\ dated \in BOOLEAN /\ (source # "mqtt" => dated)
  /\ truth \in Seq(State \cup {Down})
  /\ due \subseteq 1..clock /\ (\A t \in due : truth[t] \in State)
  /\ written \subseteq due
  /\ RowsType
  /\ pc \in {"idle", "close", "log"}
  /\ pc # "idle" => source = "realtime" /\ alive /\ active /\ clock \in due
  /\ sent \in Seq(Nat) /\ (\A i \in DOMAIN sent : sent[i] \in due)
  /\ next \in 1..(Len(sent) + 1)
  /\ JobType

-----------------------------------------------------------------------------
(* Least numbers *)

LEMMA LeastNat ==
  ASSUME NEW T \in SUBSET Nat, T # {}
  PROVE  \E x \in T : \A y \in T : x <= y
  <1>1. \E x \in T : \A y \in T : ~(<<y, x>> \in OpToRel(<, Nat))
    BY NatLessThanWellFounded, WFMin
  <1>2. PICK x \in T : \A y \in T : ~(<<y, x>> \in OpToRel(<, Nat))
    BY <1>1
  <1>3. ASSUME NEW y \in T
        PROVE  x <= y
    <2>1. x \in Nat /\ y \in Nat
      OBVIOUS
    <2>2. ~(y < x)
      BY <1>2, <2>1 DEF OpToRel
    <2> QED
      BY <2>1, <2>2
  <1> QED
    BY <1>3

LEMMA FirstIs ==
  ASSUME NEW T \in SUBSET Nat, T # {}
  PROVE  First(T) \in T
  BY LeastNat DEF First

LEMMA LeastIs ==
  ASSUME NEW T \in SUBSET Nat, NEW top \in Nat
  PROVE  Least(T, top) \in Nat /\ \A x \in T : Least(T, top) <= x
  <1> DEFINE U == T \cup {top}
  <1>1. \E x \in U : \A y \in U : x <= y
    BY LeastNat
  <1> QED
    BY <1>1 DEF Least

-----------------------------------------------------------------------------
(* The two writes *)

LEMMA LogRowType ==
  ASSUME RowsType, NEW s \in State, NEW e \in Nat, e <= clock, LogRow(s, e),
         dated => e \in due /\ s = truth[e],
         UNCHANGED <<truth, due, dated>>, truth \in Seq(State \cup {Down})
  PROVE  RowsType'
  <1> DEFINE r == [state |-> s, entered |-> e, exited |-> Open]
  <1>1. rows' = Append(rows, r) /\ r \in Row /\ rows \in Seq(Row)
    BY DEF LogRow, RowsType, Row, Open
  <1>2. r.entered = e /\ r.state = s /\ r.exited = 0 /\ clock \in Nat
    BY DEF Open, clock
  <1> HIDE DEF r
  <1>3. /\ rows' \in Seq(Row)
        /\ \A i \in DOMAIN rows' : (i \in DOMAIN rows /\ rows'[i] = rows[i]) \/ rows'[i] = r
    BY <1>1
  <1>4. clock' = clock
    BY DEF clock
  <1> QED
    BY <1>2, <1>3, <1>4 DEF RowsType

LEMMA CloseRowType ==
  ASSUME RowsType, NEW e \in Nat, e <= clock, CloseRow(e),
         UNCHANGED <<truth, due, dated>>
  PROVE  RowsType'
  <1>1. rows \in Seq(Row) /\ clock' = clock
    BY DEF RowsType, clock
  <1>2. /\ DOMAIN rows' = DOMAIN rows
        /\ \A i \in DOMAIN rows : rows'[i] = rows[i] \/ rows'[i] = [rows[i] EXCEPT !.exited = e]
    BY DEF CloseRow
  <1>3. \A i \in DOMAIN rows :
          /\ rows'[i] \in Row /\ rows'[i].state = rows[i].state
          /\ rows'[i].entered = rows[i].entered
          /\ rows'[i].exited = rows[i].exited \/ rows'[i].exited = e
    <2> TAKE i \in DOMAIN rows
    <2>1. rows[i] \in Row
      BY <1>1
    <2> QED
      BY <1>2, <2>1 DEF Row
  <1>4. rows' \in Seq(Row)
    <2>1. rows' = [i \in 1..Len(rows) |-> rows'[i]]
      BY <1>1 DEF CloseRow
    <2> QED
      BY <1>1, <1>3, <2>1
  <1> QED
    BY <1>1, <1>2, <1>3, <1>4 DEF RowsType

LEMMA RowsKept ==
  ASSUME RowsType, UNCHANGED <<rows, truth, due, dated>>
  PROVE  RowsType'
  BY DEF RowsType, clock
\* A slot more changes nothing of what is written.
LEMMA SlotType ==
  ASSUME HistoryType, NEW s \in State \cup {Down}, Enter(s),
         \/ due' = due
         \/ due' = due \cup {clock + 1} /\ s \in State,
         UNCHANGED <<rows, dated>>
  PROVE  /\ truth' \in Seq(State \cup {Down}) /\ clock' = clock + 1
         /\ truth'[clock'] = s
         /\ due' \subseteq 1..clock' /\ (\A t \in due' : truth'[t] \in State)
         /\ due \subseteq due' /\ RowsType'
  <1>1. truth \in Seq(State \cup {Down}) /\ truth' = Append(truth, s) /\ clock = Len(truth)
        /\ clock \in Nat
    BY DEF HistoryType, Enter, clock
  <1>2. /\ truth' \in Seq(State \cup {Down}) /\ clock' = clock + 1
        /\ truth'[clock + 1] = s /\ \A t \in 1..clock : truth'[t] = truth[t]
    BY <1>1 DEF clock
  <1>3. due \subseteq 1..clock /\ (\A t \in due : truth[t] \in State)
    BY DEF HistoryType
  <1>4. due' \subseteq 1..clock' /\ (\A t \in due' : truth'[t] \in State) /\ due \subseteq due'
    <2>1. \A t \in due : t \in 1..clock' /\ truth'[t] \in State
      BY <1>1, <1>2, <1>3
    <2>2. clock + 1 \in 1..clock' /\ (s \in State => truth'[clock + 1] \in State)
      BY <1>1, <1>2
    <2> QED
      BY <2>1, <2>2
  <1>5. RowsType'
    <2>1. rows \in Seq(Row) /\ \A i \in DOMAIN rows :
            /\ rows[i].entered \in Nat /\ rows[i].exited \in Nat
            /\ rows[i].entered <= clock /\ rows[i].exited <= clock
            /\ dated => rows[i].entered \in due /\ rows[i].state = truth[rows[i].entered]
      <3>1. \A x \in Row : x.entered \in Nat /\ x.exited \in Nat
        BY DEF Row
      <3> QED
        BY <3>1 DEF HistoryType, RowsType
    <2>2. \A i \in DOMAIN rows :
            /\ rows[i].entered <= clock' /\ rows[i].exited <= clock'
            /\ dated => rows[i].entered \in due' /\ rows[i].state = truth'[rows[i].entered]
      BY <1>1, <1>2, <1>3, <1>4, <2>1
    <2> QED
      BY <2>1, <2>2 DEF RowsType
  <1> QED
    BY <1>2, <1>4, <1>5

LEMMA TypeInit == Init => HistoryType
  <1> SUFFICES ASSUME Init PROVE HistoryType
    OBVIOUS
  <1>1. /\ source \in {"realtime", "mqtt", "offline"} /\ truth = <<>> /\ due = {} /\ rows = <<>>
        /\ written = {} /\ pc = "idle" /\ sent = <<>> /\ next = 1 /\ job = 0
    BY DEF Init
  <1>2. dated \in BOOLEAN /\ (source # "mqtt" => dated)
    BY DEF Init
  <1>3. RowsType /\ JobType
    BY <1>1 DEF RowsType, JobType
  <1>4. sent \in Seq(Nat) /\ DOMAIN sent = {} /\ Len(sent) = 0
    BY <1>1
  <1> QED
    BY <1>1, <1>2, <1>3, <1>4 DEF HistoryType, clock

LEMMA TypeStep == HistoryType /\ [Next]_vars => HistoryType'
  <1> SUFFICES ASSUME HistoryType, [Next]_vars
               PROVE  HistoryType'
    OBVIOUS
  <1>0. /\ RowsType /\ JobType /\ truth \in Seq(State \cup {Down}) /\ clock \in Nat
        /\ due \subseteq 1..clock /\ due \subseteq Nat /\ written \subseteq due
        /\ \A t \in due : truth[t] \in State
    BY DEF HistoryType, clock
  <1>1. ASSUME NEW s \in State, Scan(s)
        PROVE  HistoryType'
    <2>1. /\ source = "realtime" /\ alive /\ Enter(s)
          /\ due' = IF s = last THEN due ELSE due \cup {clock + 1}
          /\ pc' = IF s = last \/ ~active THEN "idle"
                   ELSE IF last = None THEN "log" ELSE "close"
          /\ UNCHANGED <<source, dated, rows, written, alive, active, sent, next, job>>
      BY <1>1 DEF Scan, table, mqtt
    <2>2. /\ truth' \in Seq(State \cup {Down}) /\ clock' = clock + 1
          /\ due' \subseteq 1..clock' /\ (\A t \in due' : truth'[t] \in State)
          /\ due \subseteq due' /\ RowsType'
      BY <2>1, SlotType
    <2>3. pc' \in {"idle", "close", "log"} /\ (pc' # "idle" => active /\ clock' \in due')
      BY <2>1, <2>2
    <2>4. JobType'
      BY <2>1, <1>0 DEF JobType
    <2>5. written' \subseteq due' /\ \A i \in DOMAIN sent' : sent'[i] \in due'
      BY <2>1, <2>2 DEF HistoryType
    <2> QED
      BY <2>1, <2>2, <2>3, <2>4, <2>5 DEF HistoryType
  <1>2. CASE Off
    <2>1. /\ source = "realtime" /\ ~alive /\ Enter(Down)
          /\ UNCHANGED <<source, dated, due, rows, written, alive, active, pc, sent, next, job>>
      BY <1>2 DEF Off, table, mqtt, bridge
    <2>2. /\ truth' \in Seq(State \cup {Down}) /\ clock' = clock + 1
          /\ due' \subseteq 1..clock' /\ (\A t \in due' : truth'[t] \in State)
          /\ due \subseteq due' /\ RowsType'
      BY <2>1, SlotType
    <2>3. JobType'
      BY <2>1, <1>0 DEF JobType
    <2> QED
      BY <2>1, <2>2, <2>3 DEF HistoryType
  <1>3. ASSUME NEW s \in State, PlcSlot(s)
        PROVE  HistoryType'
    <2> DEFINE new == clock = 0 \/ truth[clock] # s
    <2>1. /\ source \in {"mqtt", "offline"} /\ (source = "offline" => job = 0) /\ Enter(s)
          /\ due' = IF new THEN due \cup {clock + 1} ELSE due
          /\ sent' = IF new /\ source = "mqtt" THEN Append(sent, clock + 1) ELSE sent
          /\ UNCHANGED <<source, dated, rows, written, alive, active, pc, next, job>>
      BY <1>3 DEF PlcSlot, table, bridge
    <2> HIDE DEF new
    <2>2. /\ truth' \in Seq(State \cup {Down}) /\ clock' = clock + 1
          /\ due' \subseteq 1..clock' /\ (\A t \in due' : truth'[t] \in State)
          /\ due \subseteq due' /\ RowsType'
      BY <2>1, SlotType
    <2>3. job = 0
      BY <1>0, <2>1 DEF JobType
    <2>4. JobType'
      BY <2>1, <2>3 DEF JobType
    <2>5. /\ sent' \in Seq(Nat) /\ (\A i \in DOMAIN sent' : sent'[i] \in due')
          /\ next' \in 1..(Len(sent') + 1)
      <3>1. sent \in Seq(Nat) /\ (\A i \in DOMAIN sent : sent[i] \in due)
            /\ next \in 1..(Len(sent) + 1)
        BY DEF HistoryType
      <3>2. CASE new /\ source = "mqtt"
        <4>1. sent' = Append(sent, clock + 1) /\ clock + 1 \in due' /\ clock + 1 \in Nat
          BY <1>0, <2>1, <3>2
        <4>2. /\ sent' \in Seq(Nat) /\ Len(sent') = Len(sent) + 1
              /\ \A i \in DOMAIN sent' : (i \in DOMAIN sent /\ sent'[i] = sent[i])
                                       \/ sent'[i] = clock + 1
          BY <3>1, <4>1
        <4>3. \A i \in DOMAIN sent' : sent'[i] \in due'
          BY <2>2, <3>1, <4>1, <4>2
        <4>4. next' \in 1..(Len(sent') + 1)
          BY <2>1, <3>1, <4>2
        <4> QED
          BY <4>2, <4>3, <4>4
      <3>3. CASE ~(new /\ source = "mqtt")
        BY <2>1, <2>2, <3>1, <3>3
      <3> QED
        BY <3>2, <3>3
    <2>6. written' \subseteq due' /\ pc = "idle"
      BY <2>1, <2>2 DEF HistoryType
    <2> QED
      BY <2>1, <2>2, <2>4, <2>5, <2>6 DEF HistoryType
  <1>4. CASE BridgeClose
    <2>1. /\ pc = "close" /\ CloseRow(clock) /\ pc' = "log"
          /\ UNCHANGED <<source, dated, truth, due, written, alive, active, sent, next, job>>
      BY <1>4 DEF BridgeClose, machine, mqtt
    <2>2. RowsType'
      BY <1>0, <2>1, CloseRowType
    <2>3. JobType' /\ clock' = clock
      BY <1>0, <2>1 DEF JobType, NextEvent, clock
    <2> QED
      BY <2>1, <2>2, <2>3 DEF HistoryType
  <1>5. CASE BridgeLog
    <2>1. /\ pc = "log" /\ LogRow(truth[clock], clock) /\ pc' = "idle"
          /\ written' = written \cup {clock}
          /\ UNCHANGED <<source, dated, truth, due, alive, active, sent, next, job>>
      BY <1>5 DEF BridgeLog, machine, mqtt
    <2>2. clock \in due /\ source = "realtime"
      BY <2>1 DEF HistoryType
    <2>3. RowsType'
      BY <1>0, <2>1, <2>2, LogRowType
    <2>4. job = 0
      BY <1>0, <2>2 DEF JobType
    <2>5. JobType' /\ clock' = clock
      BY <2>1, <2>4 DEF JobType, clock
    <2> QED
      BY <2>1, <2>2, <2>3, <2>5 DEF HistoryType
  <1>6. CASE BridgeFails
    <2>1. /\ pc' = "idle"
          /\ UNCHANGED <<source, dated, truth, due, rows, written, alive, sent, next, job>>
      BY <1>6 DEF BridgeFails, machine, table, mqtt
    <2>2. RowsType' /\ JobType' /\ clock' = clock
      BY <1>0, <2>1, RowsKept DEF JobType, NextEvent, clock
    <2> QED
      BY <2>1, <2>2 DEF HistoryType
  <1>7. ASSUME NEW i \in 1..next, Receive(i),
               UNCHANGED <<source, dated, truth, due, alive, active, pc, sent, job>>
        PROVE  /\ source = "mqtt" /\ i \in DOMAIN sent /\ sent[i] \in due
               /\ next' \in 1..(Len(sent) + 1) /\ job = 0 /\ clock' = clock
    <2>1. /\ source = "mqtt" /\ i \in 1..Len(sent) /\ next \in 1..(Len(sent) + 1)
          /\ next' = IF i = next THEN next + 1 ELSE next
          /\ sent \in Seq(Nat) /\ (\A k \in DOMAIN sent : sent[k] \in due)
      BY <1>7 DEF Receive, HistoryType
    <2>2. job = 0
      BY <1>0, <2>1 DEF JobType
    <2> QED
      BY <1>7, <2>1, <2>2 DEF clock
  <1>8. ASSUME NEW i \in 1..next, StateMessage(i)
        PROVE  HistoryType'
    <2>1. /\ Receive(i) /\ LogRow(truth[sent[i]], IF dated THEN sent[i] ELSE clock)
          /\ written' = written \cup {sent[i]}
          /\ UNCHANGED <<source, dated, truth, due, alive, active, pc, sent, job>>
      BY <1>8 DEF StateMessage, machine, bridge
    <2>2. /\ source = "mqtt" /\ sent[i] \in due /\ next' \in 1..(Len(sent) + 1)
          /\ job = 0 /\ clock' = clock
      BY <1>7, <2>1
    <2>3. RowsType'
      <3> DEFINE e == IF dated THEN sent[i] ELSE clock
      <3>0. \A u \in due : u \in Nat /\ u <= clock
        BY <1>0
      <3>1. e \in Nat /\ e <= clock /\ (dated => e = sent[i] /\ e \in due)
        <4>1. CASE dated
          <5>1. e = sent[i]
            BY <4>1
          <5> HIDE DEF e
          <5> QED
            BY <2>2, <3>0, <5>1
        <4>2. CASE ~dated
          <5>1. e = clock
            BY <4>2
          <5> HIDE DEF e
          <5> QED
            BY <1>0, <4>2, <5>1
        <4> QED
          BY <4>1, <4>2
      <3>2. truth[sent[i]] \in State /\ (dated => truth[sent[i]] = truth[e])
        BY <1>0, <2>2
      <3>3. LogRow(truth[sent[i]], e)
        BY <2>1
      <3> HIDE DEF e
      <3> QED
        BY <1>0, <2>1, <3>1, <3>2, <3>3, LogRowType
    <2>4. JobType'
      BY <2>1, <2>2 DEF JobType
    <2> QED
      BY <2>1, <2>2, <2>3, <2>4 DEF HistoryType
  <1>9. ASSUME NEW i \in 1..next, StateMessageLost(i)
        PROVE  HistoryType'
    <2>1. /\ Receive(i)
          /\ UNCHANGED <<source, dated, truth, due, rows, written, alive, active, pc, sent, job>>
      BY <1>9 DEF StateMessageLost, machine, bridge, table
    <2>2. next' \in 1..(Len(sent) + 1) /\ job = 0 /\ clock' = clock
      BY <1>7, <2>1
    <2>3. RowsType' /\ JobType'
      BY <1>0, <2>1, <2>2, RowsKept DEF JobType
    <2> QED
      BY <2>1, <2>2, <2>3 DEF HistoryType
  <1>10. ASSUME NEW replace \in BOOLEAN, StartJob(replace)
         PROVE  HistoryType'
    <2>1. /\ source = "offline" /\ due # {} /\ rows' = <<>> /\ written' = {}
          /\ job' = First(due)
          /\ UNCHANGED <<source, dated, truth, due, alive, active, pc, sent, next>>
      BY <1>10 DEF StartJob, machine, bridge, mqtt
    <2>2. job' \in due /\ clock' = clock
      BY <1>0, <2>1, FirstIs DEF clock
    <2>3. RowsType'
      BY <2>1 DEF RowsType
    <2>4. JobType'
      BY <2>1, <2>2 DEF JobType
    <2> QED
      BY <2>1, <2>2, <2>3, <2>4 DEF HistoryType
  <1>11. CASE JobLog
    <2>1. /\ job # 0 /\ job \notin written /\ LogRow(truth[job], job)
          /\ written' = written \cup {job}
          /\ job' = IF NextEvent(job) = {} THEN 0 ELSE job
          /\ UNCHANGED <<source, dated, truth, due, alive, active, pc, sent, next>>
      BY <1>11 DEF JobLog, machine, bridge, mqtt
    <2>2. /\ job \in due /\ job \in Nat /\ job <= clock /\ source = "offline"
          /\ \A u \in written : u <= job
      BY <1>0, <2>1 DEF JobType
    <2>3. RowsType'
      BY <1>0, <2>1, <2>2, LogRowType
    <2>4. JobType'
      <3>1. NextEvent(job)' = {u \in due : u > job'}
        BY <2>1 DEF NextEvent
      <3> QED
        BY <2>1, <2>2, <3>1 DEF JobType, NextEvent
    <2>5. clock' = clock
      BY <2>1 DEF clock
    <2> QED
      BY <2>1, <2>2, <2>3, <2>4, <2>5 DEF HistoryType
  <1>12. CASE JobClose
    <2> DEFINE e == First(NextEvent(job))
    <2>1. /\ job # 0 /\ job \in written /\ CloseRow(e) /\ job' = e
          /\ UNCHANGED <<source, dated, truth, due, written, alive, active, pc, sent, next>>
      BY <1>12 DEF JobClose, machine, bridge, mqtt
    <2>2. /\ job \in Nat /\ source = "offline" /\ NextEvent(job) # {}
          /\ \A u \in written : u <= job /\ u \in Nat
      BY <1>0, <2>1 DEF JobType
    <2>3. e \in due /\ e > job /\ e \in Nat /\ e <= clock
      <3>1. NextEvent(job) \in SUBSET Nat
        BY <1>0 DEF NextEvent
      <3>2. e \in NextEvent(job)
        BY <2>2, <3>1, FirstIs
      <3> HIDE DEF e
      <3>3. e \in due /\ e > job
        BY <3>2 DEF NextEvent
      <3>4. \A u \in due : u \in Nat /\ u <= clock
        BY <1>0
      <3> QED
        BY <3>3, <3>4
    <2> HIDE DEF e
    <2>4. RowsType'
      BY <1>0, <2>1, <2>3, CloseRowType
    <2>5. /\ job' \notin written /\ \A u \in written : u <= job'
      BY <2>1, <2>2, <2>3
    <2>6. JobType' /\ clock' = clock
      BY <2>1, <2>2, <2>3, <2>5 DEF JobType, clock
    <2> QED
      BY <2>1, <2>4, <2>6 DEF HistoryType
  <1>13. CASE Crash
    <2>1. /\ pc' = "idle" /\ job' = 0
          /\ UNCHANGED <<source, dated, truth, due, rows, written, sent, next>>
      BY <1>13 DEF Crash, machine, table, mqtt
    <2>2. RowsType' /\ JobType' /\ clock' = clock
      BY <1>0, <2>1, RowsKept DEF JobType, clock
    <2> QED
      BY <2>1, <2>2 DEF HistoryType
  <1>14. CASE Restart
    <2>1. /\ ~alive
          /\ UNCHANGED <<source, dated, truth, due, rows, written, pc, sent, next, job>>
      BY <1>14 DEF Restart, machine, table, mqtt
    <2>2. RowsType' /\ JobType' /\ clock' = clock /\ pc = "idle"
      BY <1>0, <2>1, RowsKept DEF JobType, NextEvent, clock, HistoryType
    <2> QED
      BY <2>1, <2>2 DEF HistoryType
  <1>15. CASE UNCHANGED vars
    <2>1. UNCHANGED <<source, dated, truth, due, rows, written, alive, active, pc, sent, next, job>>
      BY <1>15 DEF vars, machine, table, bridge, mqtt
    <2>2. RowsType' /\ JobType' /\ clock' = clock
      BY <1>0, <2>1, RowsKept DEF JobType, NextEvent, clock
    <2> QED
      BY <2>1, <2>2 DEF HistoryType
  <1> QED
    BY <1>1, <1>2, <1>3, <1>4, <1>5, <1>6, <1>8, <1>9, <1>10, <1>11, <1>12, <1>13, <1>14,
       <1>15 DEF Next

\* The table, the bridge and the backfill keep their shapes: a row is entered at a
\* slot that was due, and the backfill is never past a row that it wrote.
THEOREM HistoryTypeInvariant == Spec => []HistoryType
  BY TypeInit, TypeStep, PTL DEF Spec

\* Every variable keeps its shape: of dated rows each is of a slot that was due and
\* states the machine's state in it, in whatever order rows were written.
THEOREM TypeCorrect == Spec => []TypeInvariant
  <1>1. HistoryType => TypeInvariant
    <2> SUFFICES ASSUME HistoryType PROVE TypeInvariant
      OBVIOUS
    <2>1. clock \in Nat
      BY DEF HistoryType, clock
    <2>2. ASSUME NEW i \in DOMAIN rows
          PROVE  /\ rows[i].state \in State /\ rows[i].exited \in 0..clock
                 /\ dated => rows[i].entered \in due /\ rows[i].state = truth[rows[i].entered]
      <3>1. rows[i] \in Row
        BY DEF HistoryType, RowsType
      <3> QED
        BY <2>1, <3>1 DEF HistoryType, RowsType, Row
    <2> QED
      BY <2>2 DEF TypeInvariant, HistoryType, JobType
  <1> QED
    BY <1>1, HistoryTypeInvariant, PTL

-----------------------------------------------------------------------------
(* The reader                                                                 *)

LEMMA LaterTotal ==
  ASSUME RowsType, NEW i \in DOMAIN rows, NEW j \in DOMAIN rows, i # j
  PROVE  /\ rows[i].entered \in Nat /\ rows[i].exited \in Nat /\ i \in Nat
         /\ Later(i, j) \/ Later(j, i)
         /\ ~(Later(i, j) /\ Later(j, i))
  <1>1. rows[i] \in Row /\ rows[j] \in Row /\ i \in Nat /\ j \in Nat
    BY DEF RowsType
  <1> QED
    BY <1>1 DEF Later, Row

\* The segment of a row ends before any later row of the window begins.
LEMMA SegmentEndIs ==
  ASSUME RowsType, NEW a, NEW b \in Nat, NEW i \in DOMAIN rows,
         NEW j \in InWindow(a, b), Later(j, i)
  PROVE  SegmentEnd(i, a, b) \in Nat /\ SegmentEnd(i, a, b) <= rows[j].entered
  <1> DEFINE nexts == {rows[k].entered : k \in {x \in InWindow(a, b) : Later(x, i)}}
             exits == IF rows[i].exited = Open THEN {} ELSE {rows[i].exited}
  <1>1. \A k \in DOMAIN rows : rows[k].entered \in Nat /\ rows[k].exited \in Nat
    <2>1. \A x \in Row : x.entered \in Nat /\ x.exited \in Nat
      BY DEF Row
    <2> QED
      BY <2>1 DEF RowsType
  <1>2. InWindow(a, b) \subseteq DOMAIN rows
    BY DEF InWindow
  <1>3. nexts \cup exits \in SUBSET Nat /\ rows[j].entered \in nexts
    BY <1>1, <1>2
  <1>4. SegmentEnd(i, a, b) = Least(nexts \cup exits, b)
    BY DEF SegmentEnd
  <1> HIDE DEF nexts, exits
  <1> QED
    BY <1>3, <1>4, LeastIs

\* However many rows are open, duplicated or out of order, the clipping of
\* _compute_oee_window counts no slot of a window twice.
THEOREM NoSlotTwiceCorrect == Spec => []NoSlotTwice
  <1>1. HistoryType => NoSlotTwice
    <2> SUFFICES ASSUME HistoryType, NEW w \in Windows, NEW t \in w[1]..(w[2] - 1)
                 PROVE  Cardinality(Attribution(w[1], w[2], t)) <= 1
      BY DEF NoSlotTwice
    <2> DEFINE A == Attribution(w[1], w[2], t)
    <2>1. RowsType /\ clock \in Nat /\ w[1] \in Nat /\ w[2] \in Nat /\ t \in Nat
      BY DEF HistoryType, clock, Windows
    <2>2. \A i \in A : /\ i \in InWindow(w[1], w[2]) /\ i \in DOMAIN rows
                       /\ rows[i].entered <= t /\ t < SegmentEnd(i, w[1], w[2])
      BY DEF Attribution, InWindow, Segment
    <2>3. ASSUME NEW i \in A, NEW j \in A, Later(j, i)
          PROVE  FALSE
      <3>1. /\ SegmentEnd(i, w[1], w[2]) \in Nat
            /\ SegmentEnd(i, w[1], w[2]) <= rows[j].entered
        BY <2>1, <2>2, <2>3, SegmentEndIs
      <3>2. rows[j] \in Row
        BY <2>1, <2>2 DEF RowsType
      <3> QED
        BY <2>1, <2>2, <3>1, <3>2 DEF Row
    <2>4. \A i, j \in A : i = j
      BY <2>1, <2>2, <2>3, LaterTotal
    <2> HIDE DEF A
    <2>5. A = {} \/ \E i : A = {i}
      BY <2>4
    <2>6. Cardinality(A) <= 1
      <3>1. CASE A = {}
        <4>1. Cardinality({}) = 0
          BY FS_EmptySet
        <4> QED
          BY <3>1, <4>1
      <3>2. ASSUME NEW i, A = {i}
            PROVE  Cardinality(A) = 1
        <4>1. Cardinality({i}) = 1
          BY FS_Singleton
        <4> QED
          BY <3>2, <4>1
      <3> QED
        BY <2>5, <3>1, <3>2
    <2> QED
      BY <2>6 DEF A
  <1> QED
    BY <1>1, HistoryTypeInvariant, PTL

-----------------------------------------------------------------------------
(* Open rows                                                                  *)

\* One open row is the newest.
LEMMA Newest ==
  ASSUME RowsType, clock \in Nat, OpenRows # {}
  PROVE  \E i \in OpenRows : \A j \in OpenRows \ {i} : Later(i, j)
  <1>1. rows \in Seq(Row) /\ \A i \in OpenRows : /\ i \in 1..Len(rows) /\ rows[i].entered \in Nat
                                               /\ rows[i].entered <= clock
    <2>1. \A x \in Row : x.entered \in Nat
      BY DEF Row
    <2> QED
      BY <2>1 DEF RowsType, OpenRows
  <1> DEFINE ages == {clock - rows[i].entered : i \in OpenRows}
  <1>2. ages \in SUBSET Nat /\ ages # {}
    BY <1>1
  <1>3. PICK m \in ages : \A x \in ages : m <= x
    <2> HIDE DEF ages
    <2> QED
      BY <1>2, LeastNat
  <1> DEFINE backs == {Len(rows) - i : i \in {x \in OpenRows : clock - rows[x].entered = m}}
  <1>4. backs \in SUBSET Nat /\ backs # {}
    BY <1>1, <1>3
  <1>5. PICK n \in backs : \A x \in backs : n <= x
    <2> HIDE DEF ages, backs
    <2> QED
      BY <1>4, LeastNat
  <1>6. PICK i \in OpenRows : clock - rows[i].entered = m /\ n = Len(rows) - i
    BY <1>5
  <1>7. ASSUME NEW j \in OpenRows \ {i}
        PROVE  Later(i, j)
    <2>1. m <= clock - rows[j].entered
      BY <1>3
    <2>2. clock - rows[j].entered = m => n <= Len(rows) - j
      BY <1>5
    <2> HIDE DEF ages, backs
    <2> QED
      BY <1>1, <1>6, <2>1, <2>2 DEF Later
  <1> QED
    BY <1>7

LEMMA OpenFinite ==
  ASSUME RowsType
  PROVE  IsFiniteSet(OpenRows) /\ Cardinality(OpenRows) \in Nat
  <1>1. IsFiniteSet(1..Len(rows)) /\ OpenRows \in SUBSET (1..Len(rows))
    BY FS_Interval DEF RowsType, OpenRows
  <1> QED
    BY <1>1, FS_Subset, FS_CardinalityType

LEMMA OpenAfterLog ==
  ASSUME RowsType, NEW s, NEW e, LogRow(s, e)
  PROVE  Cardinality(OpenRows') = Cardinality(OpenRows) + 1
  <1> DEFINE n == Len(rows) + 1
  <1>1. /\ rows \in Seq(Row) /\ rows' = Append(rows, [state |-> s, entered |-> e, exited |-> Open])
    BY DEF RowsType, LogRow
  <1>2. /\ DOMAIN rows = 1..Len(rows) /\ DOMAIN rows' = 1..n /\ n \in Nat /\ Len(rows) \in Nat
        /\ rows'[n].exited = Open /\ \A i \in 1..Len(rows) : rows'[i] = rows[i]
    BY <1>1
  <1>3. OpenRows' = OpenRows \cup {n} /\ n \notin OpenRows
    BY <1>2 DEF OpenRows
  <1> QED
    BY <1>3, OpenFinite, FS_AddElement

LEMMA OpenAfterClose ==
  ASSUME RowsType, clock \in Nat, NEW e \in Nat, e # Open, CloseRow(e)
  PROVE  Cardinality(OpenRows') = IF OpenRows = {} THEN 0 ELSE Cardinality(OpenRows) - 1
  <1>0. rows \in Seq(Row)
    BY DEF RowsType
  <1>1. CASE OpenRows = {}
    <2>1. \A i \in DOMAIN rows' : rows'[i] = rows[i] /\ i \in DOMAIN rows
      BY <1>1 DEF CloseRow
    <2>2. OpenRows' = {}
      BY <1>1, <2>1 DEF OpenRows
    <2> QED
      BY <1>1, <2>2, FS_EmptySet
  <1>2. CASE OpenRows # {}
    <2>1. PICK i \in OpenRows : \A j \in OpenRows \ {i} : Later(i, j)
      BY <1>2, Newest
    <2>2. ASSUME NEW j \in OpenRows \ {i}
          PROVE  ~\A k \in OpenRows \ {j} : Later(j, k)
      <3>1. i \in DOMAIN rows /\ j \in DOMAIN rows /\ i # j /\ Later(i, j)
        BY <2>1 DEF OpenRows
      <3>2. ~Later(j, i)
        BY <3>1, LaterTotal
      <3> QED
        BY <3>2
    <2>3. /\ DOMAIN rows' = DOMAIN rows
          /\ \A j \in DOMAIN rows : j # i => rows'[j] = rows[j]
          /\ rows'[i] = [rows[i] EXCEPT !.exited = e]
      BY <2>1, <2>2 DEF CloseRow, OpenRows
    <2>4. rows'[i].exited # Open
      <3>1. rows[i] \in Row
        BY <1>0, <2>1 DEF OpenRows
      <3> QED
        BY <2>3, <3>1 DEF Row
    <2>5. OpenRows' = OpenRows \ {i}
      BY <2>3, <2>4 DEF OpenRows
    <2> QED
      BY <1>2, <2>1, <2>5, OpenFinite, FS_RemoveElement
  <1> QED
    BY <1>1, <1>2

\* The rows open while the bridge and the backfill are between their writes.
OpenInv ==
  /\ crashes \in Nat /\ last \in State \cup {None}
  /\ pc = "close" => last # None
  /\ source = "realtime" =>
       Cardinality(OpenRows) <= crashes + (IF last # None /\ pc # "log" THEN 1 ELSE 0)
  /\ source = "offline" =>
       Cardinality(OpenRows) <= (IF job # 0 /\ job \notin written THEN 0 ELSE 1)

LEMMA OpenInit == Init => OpenInv
  <1> SUFFICES ASSUME Init PROVE OpenInv
    OBVIOUS
  <1>1. /\ rows = <<>> /\ crashes = 0 /\ last = None /\ pc = "idle" /\ job = 0
    BY DEF Init
  <1>2. OpenRows = {}
    BY <1>1 DEF OpenRows
  <1>3. Cardinality(OpenRows) = 0
    BY <1>2, FS_EmptySet
  <1> QED
    BY <1>1, <1>3 DEF OpenInv

LEMMA OpenStep == HistoryType /\ OpenInv /\ [Next]_vars => OpenInv'
  <1> SUFFICES ASSUME HistoryType, OpenInv, [Next]_vars
               PROVE  OpenInv'
    OBVIOUS
  <1>0. /\ RowsType /\ JobType /\ clock \in Nat /\ due \subseteq 1..clock
        /\ crashes \in Nat /\ last \in State \cup {None} /\ None \notin State
        /\ (\A t \in due : truth[t] \in State) /\ Cardinality(OpenRows) \in Nat
    BY OpenFinite, StateHistoryAssumption DEF HistoryType, OpenInv, clock, None
  <1>1. ASSUME NEW s \in State, Scan(s)
        PROVE  OpenInv'
    <2>1. /\ source = "realtime" /\ pc = "idle"
          /\ pc' = IF s = last \/ ~active THEN "idle"
                   ELSE IF last = None THEN "log" ELSE "close"
          /\ UNCHANGED <<source, rows, last, crashes>>
      BY <1>1 DEF Scan, table
    <2>2. OpenRows' = OpenRows
      BY <2>1 DEF OpenRows
    <2> QED
      BY <1>0, <2>1, <2>2 DEF OpenInv
  <1>2. ASSUME UNCHANGED <<source, rows, written, last, pc, job, crashes>>
        PROVE  OpenInv'
    <2>1. OpenRows' = OpenRows
      BY <1>2 DEF OpenRows
    <2> QED
      BY <1>2, <2>1 DEF OpenInv
  <1>3. CASE Off \/ \E s \in State : PlcSlot(s)
    BY <1>2, <1>3 DEF Off, PlcSlot, table, bridge
  <1>4. CASE BridgeClose
    <2>1. /\ pc = "close" /\ CloseRow(clock) /\ pc' = "log" /\ source = "realtime"
          /\ clock \in due /\ UNCHANGED <<source, last, crashes>>
      BY <1>4 DEF BridgeClose, HistoryType
    <2>2. clock # Open
      BY <1>0, <2>1 DEF Open
    <2>3. Cardinality(OpenRows') = IF OpenRows = {} THEN 0 ELSE Cardinality(OpenRows) - 1
      BY <1>0, <2>1, <2>2, OpenAfterClose
    <2>4. Cardinality(OpenRows) <= crashes + 1
      BY <1>0, <2>1 DEF OpenInv
    <2>5. Cardinality(OpenRows') <= crashes
      BY <1>0, <2>3, <2>4
    <2> QED
      BY <1>0, <2>1, <2>5 DEF OpenInv
  <1>5. CASE BridgeLog
    <2>1. /\ pc = "log" /\ LogRow(truth[clock], clock) /\ pc' = "idle" /\ source = "realtime"
          /\ clock \in due /\ last' = truth[clock] /\ UNCHANGED <<source, crashes>>
      BY <1>5 DEF BridgeLog, HistoryType
    <2>2. Cardinality(OpenRows') = Cardinality(OpenRows) + 1
      BY <1>0, <2>1, OpenAfterLog
    <2>3. Cardinality(OpenRows) <= crashes
      BY <1>0, <2>1 DEF OpenInv
    <2>4. last' \in State /\ last' # None
      BY <1>0, <2>1
    <2> QED
      BY <1>0, <2>1, <2>2, <2>3, <2>4 DEF OpenInv
  <1>6. CASE BridgeFails
    <2>1. /\ pc # "idle" /\ pc' = "idle" /\ source = "realtime"
          /\ UNCHANGED <<source, rows, last, crashes>>
      BY <1>6 DEF BridgeFails, table, HistoryType
    <2>2. OpenRows' = OpenRows
      BY <2>1 DEF OpenRows
    <2>3. Cardinality(OpenRows) <= crashes + (IF last # None THEN 1 ELSE 0)
      BY <1>0, <2>1 DEF OpenInv
    <2> QED
      BY <1>0, <2>1, <2>2, <2>3 DEF OpenInv
  <1>7. ASSUME NEW i \in 1..next, StateMessage(i)
        PROVE  OpenInv'
    <2>1. source = "mqtt" /\ UNCHANGED <<source, last, pc, crashes>>
      BY <1>7 DEF StateMessage, Receive, bridge
    <2> QED
      BY <1>0, <2>1 DEF OpenInv
  <1>8. ASSUME NEW i \in 1..next, StateMessageLost(i)
        PROVE  OpenInv'
    BY <1>2, <1>8 DEF StateMessageLost, table, bridge
  <1>9. ASSUME NEW replace \in BOOLEAN, StartJob(replace)
        PROVE  OpenInv'
    <2>1. source = "offline" /\ rows' = <<>> /\ UNCHANGED <<source, last, pc, crashes>>
      BY <1>9 DEF StartJob, bridge
    <2>2. OpenRows' = {}
      BY <2>1 DEF OpenRows
    <2>3. Cardinality(OpenRows') = 0
      BY <2>2, FS_EmptySet
    <2> QED
      BY <1>0, <2>1, <2>3 DEF OpenInv
  <1>10. CASE JobLog
    <2>1. /\ job # 0 /\ job \notin written /\ LogRow(truth[job], job)
          /\ written' = written \cup {job}
          /\ job' \in {0, job} /\ UNCHANGED <<source, last, pc, crashes>>
      BY <1>10 DEF JobLog, bridge
    <2>2. source = "offline" /\ Cardinality(OpenRows) <= 0
      BY <1>0, <2>1 DEF JobType, OpenInv
    <2>3. Cardinality(OpenRows') = Cardinality(OpenRows) + 1
      BY <1>0, <2>1, OpenAfterLog
    <2>4. job' = 0 \/ job' \in written'
      BY <2>1
    <2> QED
      BY <1>0, <2>1, <2>2, <2>3, <2>4 DEF OpenInv
  <1>11. CASE JobClose
    <2> DEFINE e == First(NextEvent(job))
    <2>1. /\ job # 0 /\ job \in written /\ CloseRow(e) /\ job' = e
          /\ UNCHANGED <<source, written, last, pc, crashes>>
      BY <1>11 DEF JobClose, bridge
    <2>a. NextEvent(job) \in SUBSET due /\ NextEvent(job) \in SUBSET Nat
      <3>1. due \in SUBSET Nat
        BY <1>0
      <3> QED
        BY <3>1 DEF NextEvent
    <2>2. /\ source = "offline" /\ NextEvent(job) # {}
      <3> HIDE DEF e
      <3>1. job # 0 /\ job \in written /\ JobType
        BY <1>0, <2>1
      <3>2. source = "offline" /\ (job \in written => NextEvent(job) # {})
        <4> HIDE DEF OpenInv
        <4> QED
          BY <3>1, Zenon DEF JobType
      <3> QED
        BY <3>1, <3>2
    <2>3. e \in due
      BY <2>a, <2>2, FirstIs
    <2> HIDE DEF e
    <2>4. e \in Nat /\ e # Open
      BY <1>0, <2>3 DEF Open
    <2>5. Cardinality(OpenRows') = IF OpenRows = {} THEN 0 ELSE Cardinality(OpenRows) - 1
      BY <1>0, <2>1, <2>4, OpenAfterClose
    <2>6. Cardinality(OpenRows) <= 1
      BY <1>0, <2>1, <2>2 DEF OpenInv
    <2>7. Cardinality(OpenRows') = 0
      <3>1. OpenRows # {} => Cardinality(OpenRows) # 0
        BY <1>0, OpenFinite, FS_EmptySet
      <3> QED
        BY <1>0, <2>5, <2>6, <3>1
    <2>8. crashes' \in Nat /\ last' \in State \cup {None} /\ (pc' = "close" => last' # None)
      BY <1>0, <2>1 DEF OpenInv
    <2>9. source' # "realtime"
      BY <2>1, <2>2
    <2>10. Cardinality(OpenRows') <= (IF job' # 0 /\ job' \notin written' THEN 0 ELSE 1)
      <3> HIDE DEF OpenRows
      <3>1. CASE job' # 0 /\ job' \notin written'
        BY <2>7, <3>1
      <3>2. CASE ~(job' # 0 /\ job' \notin written')
        BY <2>7, <3>2
      <3> QED
        BY <3>1, <3>2
    <2> QED
      BY <2>8, <2>9, <2>10 DEF OpenInv
  <1>12. CASE Crash
    <2>1. /\ crashes' = crashes + 1 /\ last' = None /\ pc' = "idle" /\ job' = 0
          /\ UNCHANGED <<source, rows>>
      BY <1>12 DEF Crash, table
    <2>2. OpenRows' = OpenRows
      BY <2>1 DEF OpenRows
    <2>3. /\ source = "realtime" => Cardinality(OpenRows) <= crashes + 1
          /\ source = "offline" => Cardinality(OpenRows) <= 1
      BY <1>0 DEF OpenInv
    <2> QED
      BY <1>0, <2>1, <2>2, <2>3 DEF OpenInv
  <1>13. CASE Restart
    BY <1>2, <1>13 DEF Restart, table
  <1>14. CASE UNCHANGED vars
    BY <1>2, <1>14 DEF vars, table, bridge
  <1> QED
    BY <1>1, <1>3, <1>4, <1>5, <1>6, <1>7, <1>8, <1>9, <1>10, <1>11, <1>12, <1>13, <1>14
    DEF Next

\* The realtime bridge, which closes and appends in two transactions and may fail
\* or crash between them, leaves at most one row open per process it ran in; the
\* backfill at most one.
THEOREM OpenRowsCorrect == Spec => []OpenRowsPerProcess
  <1>1. HistoryType /\ OpenInv => OpenRowsPerProcess
    <2> SUFFICES ASSUME HistoryType, OpenInv PROVE OpenRowsPerProcess
      OBVIOUS
    <2>1. Cardinality(OpenRows) \in Nat /\ crashes \in Nat
      BY OpenFinite DEF HistoryType, OpenInv
    <2> QED
      BY <2>1 DEF OpenInv, OpenRowsPerProcess
  <1> QED
    BY <1>1, OpenInit, OpenStep, HistoryTypeInvariant, PTL DEF Spec

-----------------------------------------------------------------------------
(* What the reader of machine_state_history is told is true: RecordedTrue, for  *)
(* any states, history, crashes and redeliveries.  Which open row a close picks *)
(* does not matter: it ends at a slot that was due, and the clipping never      *)
(* follows a row past the entry of a later one.                                 *)

\* c is the last of the slots up to t.
Governs(slots, c, t) == c \in slots /\ c <= t /\ \A d \in slots : d <= t => d <= c

\* A slot is in the state of the due slot that governs it; under the bridge, if
\* that one was written.
Recorded ==
  \A t \in 1..clock : truth[t] # Down =>
    \E c \in due : /\ Governs(due, c, t)
                   /\ (source = "realtime" => c \in written) => truth[t] = truth[c]

\* The written slots are the entries of the rows, and a closed row ends at a later
\* slot that was due.
RowsTell ==
  dated => /\ written = {rows[i].entered : i \in DOMAIN rows}
           /\ \A i \in DOMAIN rows :
                rows[i].exited # Open =>
                  rows[i].exited \in due /\ rows[i].entered < rows[i].exited

\* What the bridge remembers is the state it last wrote, if nothing failed since.
BridgeTells ==
  source = "realtime" =>
    /\ pc # "idle" => clock \notin written
    /\ last # None =>
         due # {} /\ \A c \in written : Governs(due, c, clock) => truth[c] = last

TruthInv == Recorded /\ RowsTell /\ BridgeTells

-----------------------------------------------------------------------------
(* The reader                                                                 *)

LEMMA LeastOf ==
  ASSUME NEW T \in SUBSET Nat, NEW top \in Nat
  PROVE  Least(T, top) \in T \cup {top}
  <1> DEFINE U == T \cup {top}
  <1>1. \E x \in U : \A y \in U : x <= y
    BY LeastNat
  <1> QED
    BY <1>1 DEF Least

LEMMA GreatestNat ==
  ASSUME NEW n \in Nat, NEW T \in SUBSET (0..n), T # {}
  PROVE  \E x \in T : \A y \in T : y <= x
  <1> DEFINE U == {n - x : x \in T}
  <1>1. U \in SUBSET Nat /\ U # {}
    <2>1. \A x \in T : x \in 0..n /\ n - x \in Nat
      OBVIOUS
    <2> QED
      BY <2>1
  <1>2. PICK m \in U : \A y \in U : m <= y
    <2> HIDE DEF U
    <2> QED
      BY <1>1, LeastNat
  <1>3. PICK x \in T : m = n - x
    BY <1>2
  <1>4. ASSUME NEW y \in T
        PROVE  y <= x
    <2>1. m <= n - y
      BY <1>2
    <2> QED
      BY <1>3, <2>1
  <1> QED
    BY <1>4

LEMMA GoverningIs ==
  ASSUME due \subseteq Nat, NEW t \in Nat, NEW c \in due, Governs(due, c, t)
  PROVE  Governing(t) = c
  <1>1. \A d \in due : (d <= t /\ \A x \in due : x <= t => x <= d) => d = c
    BY DEF Governs
  <1> QED
    BY <1>1 DEF Governing, Governs

\* The last row entered at c has slot t in its segment in every window around t.
LEMMA GovernedAttributed ==
  ASSUME HistoryType, RowsTell, dated,
         NEW a \in Nat, NEW b \in Nat, NEW t \in a..(b - 1),
         NEW c \in written, Governs(due, c, t)
  PROVE  \E i \in Attribution(a, b, t) : rows[i].entered = c
  <1>1. /\ RowsType /\ due \subseteq Nat /\ t \in Nat /\ c \in Nat /\ c <= t /\ t < b /\ a <= t
        /\ rows \in Seq(Row) /\ written \subseteq due
    BY DEF HistoryType, RowsType, Governs
  <1>2. \A i \in DOMAIN rows :
          /\ rows[i].entered \in due /\ rows[i].entered \in Nat /\ rows[i].exited \in Nat
          /\ rows[i].exited # Open => rows[i].exited \in due /\ rows[i].entered < rows[i].exited
    <2>1. \A x \in Row : x.entered \in Nat /\ x.exited \in Nat
      BY DEF Row
    <2> QED
      BY <1>1, <2>1 DEF RowsType, RowsTell
  <1>3. \A d \in due : d > c => d > t
    BY <1>1 DEF Governs
  <1> DEFINE R == {i \in DOMAIN rows : rows[i].entered = c}
  <1>4. R # {} /\ Len(rows) \in Nat /\ R \in SUBSET (0..Len(rows))
    <2>1. R # {}
      BY DEF RowsTell
    <2>2. Len(rows) \in Nat /\ DOMAIN rows = 1..Len(rows)
      BY <1>1
    <2> QED
      BY <2>1, <2>2
  <1>5. PICK i \in R : \A j \in R : j <= i
    <2> HIDE DEF R
    <2> QED
      BY <1>4, GreatestNat
  <1>6. i \in DOMAIN rows /\ rows[i].entered = c
    BY <1>5
  <1>7. rows[i].exited # Open => rows[i].exited > t
    BY <1>2, <1>3, <1>6
  <1>8. i \in InWindow(a, b)
    BY <1>1, <1>2, <1>6, <1>7 DEF InWindow, Overlaps
  <1>9. ASSUME NEW j \in InWindow(a, b), Later(j, i)
        PROVE  rows[j].entered > t
    <2>1. j \in DOMAIN rows /\ j \in Nat /\ i \in Nat
      BY <1>1, <1>6, <1>9 DEF InWindow
    <2>2. rows[j].entered # c
      BY <1>1, <1>5, <1>6, <1>9, <2>1 DEF Later
    <2>3. rows[j].entered > c
      BY <1>1, <1>2, <1>6, <1>9, <2>1, <2>2 DEF Later
    <2> QED
      BY <1>2, <1>3, <2>1, <2>3
  <1> DEFINE nexts == {rows[k].entered : k \in {x \in InWindow(a, b) : Later(x, i)}}
             exits == IF rows[i].exited = Open THEN {} ELSE {rows[i].exited}
  <1>10. \A x \in nexts \cup exits : x \in Nat /\ x > t
    BY <1>2, <1>6, <1>7, <1>9 DEF InWindow
  <1>11. SegmentEnd(i, a, b) = Least(nexts \cup exits, b)
    BY DEF SegmentEnd
  <1> HIDE DEF nexts, exits
  <1>12. SegmentEnd(i, a, b) \in Nat /\ t < SegmentEnd(i, a, b)
    <2>1. nexts \cup exits \in SUBSET Nat
      BY <1>10
    <2>2. SegmentEnd(i, a, b) \in (nexts \cup exits) \cup {b}
      BY <1>11, <2>1, LeastOf
    <2> QED
      BY <1>1, <1>10, <2>2
  <1>13. i \in Attribution(a, b, t)
    BY <1>1, <1>6, <1>8, <1>12 DEF Attribution, Segment
  <1> QED
    BY <1>6, <1>13

\* No two rows have a slot in their segments.
LEMMA AttributedOnce ==
  ASSUME RowsType, NEW a \in Nat, NEW b \in Nat, NEW t \in Nat,
         NEW i \in Attribution(a, b, t), NEW j \in Attribution(a, b, t)
  PROVE  i = j
  <1>1. \A k \in Attribution(a, b, t) :
          /\ k \in InWindow(a, b) /\ k \in DOMAIN rows /\ rows[k].entered \in Nat
          /\ rows[k].entered <= t /\ t < SegmentEnd(k, a, b)
    <2>1. \A x \in Row : x.entered \in Nat
      BY DEF Row
    <2> QED
      BY <2>1 DEF RowsType, Attribution, InWindow, Segment
  <1>2. ASSUME NEW k \in Attribution(a, b, t), NEW l \in Attribution(a, b, t), Later(l, k)
        PROVE  FALSE
    <2>1. SegmentEnd(k, a, b) \in Nat /\ SegmentEnd(k, a, b) <= rows[l].entered
      BY <1>1, <1>2, SegmentEndIs
    <2> QED
      BY <1>1, <2>1
  <1> QED
    BY <1>1, <1>2, LaterTotal

LEMMA TruthTold == HistoryType /\ TruthInv => RecordedTrue
  <1> SUFFICES ASSUME HistoryType, TruthInv, dated, NEW w \in Windows,
                      NEW t \in w[1]..(w[2] - 1),
                      truth[t] # Down, Governing(t) \in written
               PROVE  /\ Attribution(w[1], w[2], t) # {}
                      /\ \A i \in Attribution(w[1], w[2], t) : rows[i].state = truth[t]
    BY DEF RecordedTrue
  <1>1. /\ RowsType /\ clock \in Nat /\ w[1] \in Nat /\ w[2] \in Nat /\ t \in Nat /\ t \in 1..clock
        /\ due \subseteq Nat
    BY DEF HistoryType, clock, Windows
  <1>2. PICK c \in due : /\ Governs(due, c, t)
                         /\ (source = "realtime" => c \in written) => truth[t] = truth[c]
    BY <1>1 DEF TruthInv, Recorded
  <1>3. Governing(t) = c
    BY <1>1, <1>2, GoverningIs
  <1>4. c \in written /\ truth[t] = truth[c]
    BY <1>2, <1>3
  <1>5. PICK i \in Attribution(w[1], w[2], t) : rows[i].entered = c
    BY <1>1, <1>2, <1>4, GovernedAttributed DEF TruthInv
  <1>6. rows[i].state = truth[t]
    <2>1. i \in DOMAIN rows
      BY DEF Attribution, InWindow
    <2> QED
      BY <1>1, <1>4, <1>5, <2>1 DEF RowsType
  <1>7. \A j \in Attribution(w[1], w[2], t) : j = i
    BY <1>1, AttributedOnce
  <1> QED
    BY <1>5, <1>6, <1>7

-----------------------------------------------------------------------------
(* The invariant                                                              *)

LEMMA TruthInit == Init => TruthInv
  <1> SUFFICES ASSUME Init PROVE TruthInv
    OBVIOUS
  <1>1. /\ truth = <<>> /\ rows = <<>> /\ written = {} /\ pc = "idle" /\ last = None
    BY DEF Init
  <1>2. clock = 0 /\ DOMAIN rows = {}
    BY <1>1 DEF clock
  <1> QED
    BY <1>1, <1>2 DEF TruthInv, Recorded, RowsTell, BridgeTells

\* The due slots up to a slot have a last one.
LEMMA GovernsSome ==
  ASSUME due \subseteq 1..clock, clock \in Nat, due # {}
  PROVE  \E c \in due : Governs(due, c, clock)
  <1>1. due \in SUBSET (0..clock)
    OBVIOUS
  <1>2. PICK c \in due : \A d \in due : d <= c
    BY <1>1, GreatestNat
  <1> QED
    BY <1>2 DEF Governs

\* Nothing is entered in the log of the machine.
LEMMA RecordedKept ==
  ASSUME Recorded, UNCHANGED <<truth, due, source>>,
         source = "realtime" => written \subseteq written'
                                /\ \A c \in written' \ written : c = clock,
         due \subseteq 1..clock, clock \in Nat
  PROVE  Recorded'
  <1>1. clock' = clock
    BY DEF clock
  <1>2. ASSUME NEW t \in 1..clock, truth[t] # Down
        PROVE  \E c \in due : /\ Governs(due, c, t)
                              /\ (source = "realtime" => c \in written') => truth[t] = truth[c]
    <2>1. PICK c \in due : /\ Governs(due, c, t)
                           /\ (source = "realtime" => c \in written) => truth[t] = truth[c]
      BY <1>2 DEF Recorded
    <2>2. CASE source = "realtime" /\ c \in written' \ written
      <3>1. c = clock /\ c <= t
        BY <2>1, <2>2 DEF Governs
      <3>2. t = c
        BY <3>1
      <3> QED
        BY <2>1, <3>2
    <2>3. CASE ~(source = "realtime" /\ c \in written' \ written)
      BY <2>1, <2>3
    <2> QED
      BY <2>2, <2>3
  <1> QED
    BY <1>1, <1>2 DEF Recorded, Governs

\* One slot more: the state is new, or that of the last due slot.
LEMMA RecordedSlot ==
  ASSUME HistoryType, Recorded, NEW s \in State \cup {Down}, Enter(s),
         UNCHANGED <<source, written>>,
         \/ due' = due /\ s = Down
         \/ due' = due \cup {clock + 1} /\ s \in State
         \/ /\ due' = due
            /\ \E c \in due : /\ Governs(due, c, clock)
                              /\ (source = "realtime" => c \in written) => s = truth[c]
  PROVE  Recorded'
  <1>0. /\ truth \in Seq(State \cup {Down}) /\ truth' = Append(truth, s) /\ clock = Len(truth)
        /\ clock \in Nat /\ due \subseteq 1..clock
    BY DEF HistoryType, Enter, clock
  <1>1. clock' = clock + 1
    BY <1>0 DEF clock
  <1>2. truth'[clock + 1] = s /\ \A t \in 1..clock : truth'[t] = truth[t]
    BY <1>0
  <1>3. due \subseteq due' /\ \A d \in due' : d \in due \/ d = clock + 1
    OBVIOUS
  <1>4. ASSUME NEW t \in 1..clock, truth'[t] # Down
        PROVE  \E c \in due' : /\ Governs(due', c, t)
                               /\ (source = "realtime" => c \in written) => truth'[t] = truth'[c]
    <2>1. truth[t] # Down
      BY <1>2, <1>4
    <2>2. PICK c \in due : /\ Governs(due, c, t)
                           /\ (source = "realtime" => c \in written) => truth[t] = truth[c]
      BY <2>1 DEF Recorded
    <2>3. Governs(due', c, t)
      BY <1>0, <1>3, <2>2 DEF Governs
    <2>4. truth'[c] = truth[c] /\ truth'[t] = truth[t]
      BY <1>0, <1>2
    <2> QED
      BY <1>3, <2>2, <2>3, <2>4
  <1>5. ASSUME s # Down
        PROVE  \E c \in due' : /\ Governs(due', c, clock + 1)
                               /\ (source = "realtime" => c \in written) => s = truth'[c]
    <2>1. CASE due' = due \cup {clock + 1}
      <3>1. Governs(due', clock + 1, clock + 1)
        BY <1>0, <2>1 DEF Governs
      <3> QED
        BY <1>2, <2>1, <3>1
    <2>2. CASE due' = due /\ \E c \in due : /\ Governs(due, c, clock)
                                            /\ (source = "realtime" => c \in written) => s = truth[c]
      <3>1. PICK c \in due : /\ Governs(due, c, clock)
                             /\ (source = "realtime" => c \in written) => s = truth[c]
        BY <2>2
      <3>2. Governs(due', c, clock + 1)
        BY <1>0, <2>2, <3>1 DEF Governs
      <3>3. truth'[c] = truth[c]
        BY <1>0, <1>2
      <3> QED
        BY <2>2, <3>1, <3>2, <3>3
    <2> QED
      BY <1>5, <2>1, <2>2
  <1>6. \A t \in 1..clock' : t \in 1..clock \/ t = clock + 1
    BY <1>0, <1>1
  <1> QED
    BY <1>2, <1>4, <1>5, <1>6 DEF Recorded

LEMMA RowsTellLog ==
  ASSUME RowsType, RowsTell, NEW s, NEW e \in Nat, LogRow(s, e),
         written' = written \cup {e}, UNCHANGED <<due, dated>>
  PROVE  RowsTell'
  <1> DEFINE n == Len(rows) + 1
             r == [state |-> s, entered |-> e, exited |-> Open]
  <1>1. rows \in Seq(Row) /\ rows' = Append(rows, r)
    BY DEF RowsType, LogRow
  <1>2. /\ DOMAIN rows = 1..Len(rows) /\ DOMAIN rows' = 1..n /\ Len(rows) \in Nat
        /\ rows'[n] = r /\ \A i \in 1..Len(rows) : rows'[i] = rows[i]
    BY <1>1
  <1>3. r.entered = e /\ r.exited = Open
    OBVIOUS
  <1> HIDE DEF r
  <1>4. \A i \in DOMAIN rows' : (i \in DOMAIN rows /\ rows'[i] = rows[i]) \/ i = n
    BY <1>2
  <1>5. dated => written' = {rows'[i].entered : i \in DOMAIN rows'}
    <2> SUFFICES ASSUME dated
                 PROVE  written \cup {e} = {rows'[i].entered : i \in DOMAIN rows'}
      OBVIOUS
    <2>1. written = {rows[i].entered : i \in DOMAIN rows}
      BY DEF RowsTell
    <2>2. \A i \in DOMAIN rows : i \in DOMAIN rows' /\ rows'[i] = rows[i]
      BY <1>2
    <2>3. n \in DOMAIN rows' /\ rows'[n].entered = e
      BY <1>2, <1>3
    <2> HIDE DEF n
    <2> QED
      BY <1>4, <2>1, <2>2, <2>3
  <1>6. ASSUME dated, NEW i \in DOMAIN rows', rows'[i].exited # Open
        PROVE  rows'[i].exited \in due' /\ rows'[i].entered < rows'[i].exited
    BY <1>2, <1>3, <1>4, <1>6 DEF RowsTell
  <1> QED
    BY <1>5, <1>6 DEF RowsTell

LEMMA RowsTellClose ==
  ASSUME RowsType, RowsTell, NEW e \in due, \A u \in written : u < e, CloseRow(e),
         UNCHANGED <<due, dated, written>>
  PROVE  RowsTell'
  <1>1. /\ DOMAIN rows' = DOMAIN rows /\ rows \in Seq(Row)
        /\ \A i \in DOMAIN rows : rows'[i] = rows[i] \/ rows'[i] = [rows[i] EXCEPT !.exited = e]
    BY DEF CloseRow, RowsType
  <1>2. \A i \in DOMAIN rows :
          /\ rows'[i].entered = rows[i].entered
          /\ rows'[i].exited = rows[i].exited \/ rows'[i].exited = e
    <2> TAKE i \in DOMAIN rows
    <2>1. rows[i] \in Row
      BY <1>1
    <2> QED
      BY <1>1, <2>1 DEF Row
  <1>3. dated => \A i \in DOMAIN rows : rows[i].entered \in written
    BY DEF RowsTell
  <1> QED
    BY <1>1, <1>2, <1>3 DEF RowsTell

LEMMA TruthStep == HistoryType /\ OpenInv /\ TruthInv /\ [Next]_vars => TruthInv'
  <1> SUFFICES ASSUME HistoryType, OpenInv, TruthInv, [Next]_vars
               PROVE  TruthInv'
    OBVIOUS
  <1>0. /\ RowsType /\ JobType /\ clock \in Nat /\ due \subseteq 1..clock /\ written \subseteq due
        /\ Recorded /\ RowsTell /\ BridgeTells /\ None \notin State
        /\ source \in {"realtime", "mqtt", "offline"} /\ (source # "mqtt" => dated)
    BY StateHistoryAssumption DEF HistoryType, TruthInv, clock, None
  \* Nothing that the table tells changes.
  <1>a. ASSUME UNCHANGED <<rows, written, dated>>, due \subseteq due'
        PROVE  RowsTell'
    BY <1>0, <1>a DEF RowsTell
  <1>b. ASSUME source # "realtime", source' = source
        PROVE  BridgeTells'
    BY <1>b DEF BridgeTells
  <1>c. ASSUME UNCHANGED <<source, truth, due, written, last>>,
               pc' = pc \/ pc' = "idle"
        PROVE  BridgeTells'
    <2>1. clock' = clock
      BY <1>c DEF clock
    <2> QED
      BY <1>0, <1>c, <2>1 DEF BridgeTells, Governs
  <1>1. ASSUME NEW s \in State, Scan(s)
        PROVE  TruthInv'
    <2>1. /\ source = "realtime" /\ pc = "idle" /\ Enter(s)
          /\ due' = IF s = last THEN due ELSE due \cup {clock + 1}
          /\ pc' = IF s = last \/ ~active THEN "idle"
                   ELSE IF last = None THEN "log" ELSE "close"
          /\ UNCHANGED <<source, dated, rows, written, last>>
      BY <1>1 DEF Scan, table
    <2>2. /\ truth \in Seq(State \cup {Down}) /\ truth' = Append(truth, s) /\ clock = Len(truth)
      BY <2>1 DEF HistoryType, Enter, clock
    <2>3. /\ clock' = clock + 1
          /\ truth'[clock + 1] = s /\ \A t \in 1..clock : truth'[t] = truth[t]
      BY <2>2 DEF clock
    <2>4. RowsTell'
      BY <1>a, <2>1
    <2>5. CASE s = last
      <3>1. last # None /\ due' = due /\ pc' = "idle"
        BY <1>0, <2>1, <2>5
      <3>2. PICK c \in due : Governs(due, c, clock)
        BY <1>0, <2>1, <3>1, GovernsSome DEF BridgeTells
      <3>3. c \in written => s = truth[c]
        BY <1>0, <2>1, <2>5, <3>1, <3>2 DEF BridgeTells
      <3>4. Recorded'
        BY <1>0, <2>1, <3>1, <3>2, <3>3, RecordedSlot
      <3>5. ASSUME NEW d \in written, Governs(due', d, clock + 1)
            PROVE  truth'[d] = last
        <4>1. d \in 1..clock /\ Governs(due, d, clock)
          BY <1>0, <3>1, <3>5 DEF Governs
        <4> QED
          BY <1>0, <2>1, <2>3, <3>1, <4>1 DEF BridgeTells
      <3>6. BridgeTells'
        BY <1>0, <2>1, <2>3, <3>1, <3>2, <3>5 DEF BridgeTells
      <3> QED
        BY <2>4, <3>4, <3>6 DEF TruthInv
    <2>6. CASE s # last
      <3>1. due' = due \cup {clock + 1}
        BY <2>1, <2>6
      <3>2. Recorded'
        BY <1>0, <2>1, <3>1, RecordedSlot
      <3>3. clock + 1 \notin written
        BY <1>0
      <3>4. \A d \in written : ~Governs(due', d, clock + 1)
        BY <1>0, <3>1 DEF Governs
      <3>5. BridgeTells'
        BY <2>1, <2>3, <3>1, <3>3, <3>4 DEF BridgeTells
      <3> QED
        BY <2>4, <3>2, <3>5 DEF TruthInv
    <2> QED
      BY <2>5, <2>6
  <1>2. CASE Off
    <2>1. /\ Enter(Down) /\ ~alive /\ source = "realtime"
          /\ UNCHANGED <<source, dated, due, rows, written, last, pc>>
      BY <1>2 DEF Off, table, bridge
    <2>2. /\ truth \in Seq(State \cup {Down}) /\ truth' = Append(truth, Down)
          /\ clock = Len(truth)
      BY <2>1 DEF HistoryType, Enter, clock
    <2>3. clock' = clock + 1 /\ \A t \in 1..clock : truth'[t] = truth[t]
      BY <2>2 DEF clock
    <2>4. Recorded'
      BY <1>0, <2>1, RecordedSlot
    <2>5. pc = "idle"
      BY <2>1 DEF HistoryType
    <2>6. ASSUME NEW d \in written, Governs(due', d, clock + 1), last # None
          PROVE  truth'[d] = last
      <3>1. d \in 1..clock /\ Governs(due, d, clock)
        BY <1>0, <2>1, <2>6 DEF Governs
      <3> QED
        BY <1>0, <2>1, <2>3, <2>6, <3>1 DEF BridgeTells
    <2>7. BridgeTells'
      BY <1>0, <2>1, <2>3, <2>5, <2>6 DEF BridgeTells
    <2> QED
      BY <1>a, <2>1, <2>4, <2>7 DEF TruthInv
  <1>3. ASSUME NEW s \in State, PlcSlot(s)
        PROVE  TruthInv'
    <2> DEFINE new == clock = 0 \/ truth[clock] # s
    <2>1. /\ source \in {"mqtt", "offline"} /\ Enter(s)
          /\ due' = IF new THEN due \cup {clock + 1} ELSE due
          /\ UNCHANGED <<source, dated, rows, written>>
      BY <1>3 DEF PlcSlot, table
    <2>2. Recorded'
      <3>1. CASE new
        BY <1>0, <2>1, <3>1, RecordedSlot
      <3>2. CASE ~new
        <4>1. clock \in 1..clock /\ truth[clock] = s /\ s # Down /\ due' = due
          BY <1>0, <2>1, <3>2, StateHistoryAssumption
        <4>2. PICK c \in due : Governs(due, c, clock) /\ truth[clock] = truth[c]
          BY <1>0, <2>1, <4>1 DEF Recorded
        <4> HIDE DEF new
        <4> QED
          BY <1>0, <2>1, <4>1, <4>2, RecordedSlot
      <3> QED
        BY <3>1, <3>2
    <2>3. due \subseteq due'
      BY <2>1
    <2> QED
      BY <1>a, <1>b, <2>1, <2>2, <2>3 DEF TruthInv
  <1>4. CASE BridgeClose
    <2>1. /\ pc = "close" /\ CloseRow(clock) /\ pc' = "log" /\ source = "realtime"
          /\ clock \in due /\ UNCHANGED <<source, dated, truth, due, written, last>>
      BY <1>4 DEF BridgeClose, machine, HistoryType
    <2>2. \A u \in written : u < clock
      BY <1>0, <2>1 DEF BridgeTells
    <2>3. RowsTell'
      BY <1>0, <2>1, <2>2, RowsTellClose
    <2>4. Recorded'
      BY <1>0, <2>1, RecordedKept
    <2>5. clock' = clock
      BY <2>1 DEF clock
    <2>6. BridgeTells'
      BY <1>0, <2>1, <2>5 DEF BridgeTells, Governs
    <2> QED
      BY <2>3, <2>4, <2>6 DEF TruthInv
  <1>5. CASE BridgeLog
    <2>1. /\ pc = "log" /\ LogRow(truth[clock], clock) /\ pc' = "idle" /\ source = "realtime"
          /\ written' = written \cup {clock} /\ last' = truth[clock]
          /\ clock \in due /\ UNCHANGED <<source, dated, truth, due>>
      BY <1>5 DEF BridgeLog, machine, HistoryType
    <2>2. RowsTell'
      BY <1>0, <2>1, RowsTellLog
    <2>3. Recorded'
      BY <1>0, <2>1, RecordedKept
    <2>4. clock' = clock
      BY <2>1 DEF clock
    <2>5. \A c \in written' : Governs(due', c, clock) => c = clock
      BY <1>0, <2>1 DEF Governs
    <2>6. BridgeTells'
      BY <2>1, <2>4, <2>5 DEF BridgeTells
    <2> QED
      BY <2>2, <2>3, <2>6 DEF TruthInv
  <1>6. CASE BridgeFails
    <2>1. pc' = "idle" /\ UNCHANGED <<source, dated, truth, due, rows, written, last>>
      BY <1>6 DEF BridgeFails, machine, table
    <2> QED
      BY <1>0, <1>a, <1>c, <2>1, RecordedKept DEF TruthInv
  <1>7. ASSUME NEW i \in 1..next, StateMessage(i)
        PROVE  TruthInv'
    <2>1. /\ source = "mqtt" /\ i <= Len(sent)
          /\ LogRow(truth[sent[i]], IF dated THEN sent[i] ELSE clock)
          /\ written' = written \cup {sent[i]}
          /\ UNCHANGED <<source, dated, truth, due>>
      BY <1>7 DEF StateMessage, Receive, machine
    <2>2. sent[i] \in due
      BY <2>1 DEF HistoryType
    <2>3. RowsTell'
      <3>1. CASE dated
        <4>1. (IF dated THEN sent[i] ELSE clock) = sent[i]
          BY <3>1
        <4>2. LogRow(truth[sent[i]], sent[i])
          BY <2>1, <4>1
        <4>3. sent[i] \in Nat
          <5>1. \A u \in due : u \in Nat
            BY <1>0
          <5> QED
            BY <2>2, <5>1
        <4> QED
          BY <1>0, <2>1, <4>2, <4>3, RowsTellLog
      <3>2. CASE ~dated
        BY <2>1, <3>2 DEF RowsTell
      <3> QED
        BY <3>1, <3>2
    <2> QED
      BY <1>0, <1>b, <2>1, <2>3, RecordedKept DEF TruthInv
  <1>8. ASSUME NEW i \in 1..next, StateMessageLost(i)
        PROVE  TruthInv'
    <2>1. source = "mqtt" /\ UNCHANGED <<source, dated, truth, due, rows, written>>
      BY <1>8 DEF StateMessageLost, Receive, machine, table
    <2> QED
      BY <1>0, <1>a, <1>b, <2>1, RecordedKept DEF TruthInv
  <1>9. ASSUME NEW replace \in BOOLEAN, StartJob(replace)
        PROVE  TruthInv'
    <2>1. /\ source = "offline" /\ rows' = <<>> /\ written' = {}
          /\ UNCHANGED <<source, dated, truth, due>>
      BY <1>9 DEF StartJob, machine
    <2>2. RowsTell'
      BY <2>1 DEF RowsTell
    <2> QED
      BY <1>0, <1>b, <2>1, <2>2, RecordedKept DEF TruthInv
  <1>10. CASE JobLog
    <2>1. /\ job # 0 /\ LogRow(truth[job], job) /\ written' = written \cup {job}
          /\ UNCHANGED <<source, dated, truth, due>>
      BY <1>10 DEF JobLog, machine
    <2>2. source = "offline" /\ job \in Nat
      BY <1>0, <2>1 DEF JobType
    <2> QED
      BY <1>0, <1>b, <2>1, <2>2, RecordedKept, RowsTellLog DEF TruthInv
  <1>11. CASE JobClose
    <2> DEFINE e == First(NextEvent(job))
    <2>1. /\ job # 0 /\ job \in written /\ CloseRow(e)
          /\ UNCHANGED <<source, dated, truth, due, written>>
      BY <1>11 DEF JobClose, machine
    <2> HIDE DEF e
    <2>2. source = "offline" /\ NextEvent(job) # {} /\ \A u \in written : u <= job
      <3>1. job # 0 /\ job \in written /\ JobType
        BY <1>0, <2>1
      <3> QED
        BY <3>1, Zenon DEF JobType
    <2>3. NextEvent(job) \in SUBSET Nat
      <3>1. due \in SUBSET Nat
        BY <1>0
      <3> QED
        BY <3>1 DEF NextEvent
    <2>4. e \in due /\ e > job
      BY <2>2, <2>3, FirstIs DEF e, NextEvent
    <2>5. \A u \in written : u < e
      BY <1>0, <2>1, <2>2, <2>4
    <2>6. RowsTell'
      BY <1>0, <2>1, <2>4, <2>5, RowsTellClose
    <2> QED
      BY <1>0, <1>b, <2>1, <2>2, <2>6, RecordedKept DEF TruthInv
  <1>12. CASE Crash
    <2>1. pc' = "idle" /\ last' = None /\ UNCHANGED <<source, dated, truth, due, rows, written>>
      BY <1>12 DEF Crash, machine, table
    <2>2. BridgeTells'
      BY <2>1 DEF BridgeTells
    <2> QED
      BY <1>0, <1>a, <2>1, <2>2, RecordedKept DEF TruthInv
  <1>13. CASE Restart \/ UNCHANGED vars
    <2>1. UNCHANGED <<source, dated, truth, due, rows, written, last, pc>>
      BY <1>13 DEF Restart, machine, table, vars, bridge
    <2> QED
      BY <1>0, <1>a, <1>c, <2>1, RecordedKept DEF TruthInv
  <1> QED
    BY <1>1, <1>2, <1>3, <1>4, <1>5, <1>6, <1>7, <1>8, <1>9, <1>10, <1>11, <1>12, <1>13
    DEF Next

\* In every window a slot whose state was written is attributed to that state and
\* to no other, whoever writes the table, wherever processes crash between their
\* writes and whatever is redelivered (StorageBridge, handle_state_payload,
\* state_history_backfill.py, _compute_oee_window).
THEOREM RecordedTrueCorrect == Spec => []RecordedTrue
  <1>1. HistoryType /\ TruthInv => RecordedTrue
    BY TruthTold
  <1>2. HistoryType /\ OpenInv /\ TruthInv /\ [Next]_vars => TruthInv'
    BY TruthStep
  <1> QED
    BY <1>1, <1>2, TruthInit, OpenInit, OpenStep, HistoryTypeInvariant, PTL DEF Spec
=============================================================================
