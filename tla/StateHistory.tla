---------------------------- MODULE StateHistory ----------------------------
(***************************************************************************)
(* machine_state_history, its three writers and the reader of the OEE.     *)
(*   realtime  StorageBridge (plcsim/realtime.py): closes the open row and *)
(*             appends the new one in two transactions, gives up for good  *)
(*             at the first error                                          *)
(*   mqtt      IngestConsumer.handle_state_payload: appends an open row    *)
(*             per message and never closes one; messages are redelivered  *)
(*   offline   state_history_backfill.py over the events of a frozen run   *)
(* The reader is the clipping loop of _compute_oee_window (api.py).        *)
(*                                                                         *)
(* A deployment has one writer, chosen by Init.  Time is a sequence of     *)
(* slots; slot t is the time from t to t + 1, and the machine is in one    *)
(* state during a slot (the writers look once per scan).                   *)
(***************************************************************************)
EXTENDS Integers, Sequences, FiniteSets

CONSTANTS
  State,       \* OMAC states
  MaxTime,     \* bound: slots
  MaxCrash,    \* bound: crashes of a process
  MaxDup       \* bound: redeliveries

Down == "down"
None == Down
Open == 0

ASSUME StateHistoryAssumption ==
  /\ State # {} /\ Down \notin State
  /\ MaxTime \in Nat /\ MaxCrash \in Nat /\ MaxDup \in Nat

VARIABLES
  source,    \* which writer is deployed
  dated,     \* the PLC puts a timestamp in its messages
  truth,     \* the machine's state in every slot so far, Down when it was off
  due,       \* slots at which a writer had a state to write
  written,   \* history: the due slots that have a row
  rows,      \* the table: [state, entered, exited], by id
  alive,     \* the writer's process runs
  active,    \* _active / _INGEST_STORAGE: the process still tries the database
  last,      \* _last_code
  pc,        \* realtime: what on_state has still to write
  sent,      \* slots announced by MQTT messages
  next,      \* first message not delivered yet
  job,       \* offline: next event to write, 0 when no job runs
  crashes, dups   \* bounds

machine == <<truth, due>>
table == <<rows, written>>
bridge == <<alive, active, last, pc>>
mqtt == <<sent, next, dups>>
vars == <<source, dated, machine, table, bridge, mqtt, job, crashes>>

clock == Len(truth)

Init ==
  /\ source \in {"realtime", "mqtt", "offline"}
  /\ dated \in IF source = "mqtt" THEN BOOLEAN ELSE {TRUE}
  /\ truth = <<>> /\ due = {}
  /\ rows = <<>> /\ written = {}
  /\ alive = TRUE /\ last = None /\ pc = "idle"
  /\ active \in IF source = "mqtt" THEN BOOLEAN ELSE {TRUE}
  /\ sent = <<>> /\ next = 1 /\ dups = 0
  /\ job = 0 /\ crashes = 0

----------------------------------------------------------------------------
(* Storage *)

\* log_machine_state_history: an open row.
LogRow(s, t) == rows' = Append(rows, [state |-> s, entered |-> t, exited |-> Open])

Later(i, j) == \/ rows[i].entered > rows[j].entered
               \/ rows[i].entered = rows[j].entered /\ i > j

OpenRows == {i \in DOMAIN rows : rows[i].exited = Open}

\* close_machine_state_history: the newest open row.
CloseRow(t) ==
  rows' = [i \in DOMAIN rows |->
             IF i \in OpenRows /\ \A j \in OpenRows \ {i} : Later(i, j)
             THEN [rows[i] EXCEPT !.exited = t] ELSE rows[i]]

----------------------------------------------------------------------------
(* The machine *)

Enter(s) ==
  /\ clock < MaxTime
  /\ truth' = Append(truth, s)

\* Mutant: the open row is not closed.
ScanNoClose(s) ==
  /\ source = "realtime" /\ alive /\ pc = "idle"
  /\ Enter(s)
  /\ due' = IF s = last THEN due ELSE due \cup {clock + 1}
  /\ pc' = IF s = last \/ ~active THEN "idle" ELSE "log"
  /\ UNCHANGED <<source, dated, table, alive, active, last, mqtt, job, crashes>>

\* One slot of a simulator with a bridge: _update_machine_tags, on_state.
Scan(s) ==
  /\ source = "realtime" /\ alive /\ pc = "idle"
  /\ Enter(s)
  /\ due' = IF s = last THEN due ELSE due \cup {clock + 1}
  /\ pc' = IF s = last \/ ~active THEN "idle"
           ELSE IF last = None THEN "log" ELSE "close"
  /\ UNCHANGED <<source, dated, table, alive, active, last, mqtt, job, crashes>>

\* The simulator is the machine: while it is down there is no state.
Off ==
  /\ source = "realtime" /\ ~alive
  /\ Enter(Down)
  /\ UNCHANGED <<source, dated, due, table, bridge, mqtt, job, crashes>>

\* A PLC of its own, or the run that is later frozen in work/.
PlcSlot(s) ==
  /\ \/ source = "mqtt"
     \/ source = "offline" /\ job = 0 /\ crashes = 0 /\ rows = <<>>
  /\ Enter(s)
  /\ LET new == clock = 0 \/ truth[clock] # s
     IN /\ due' = IF new THEN due \cup {clock + 1} ELSE due
        /\ sent' = IF new /\ source = "mqtt" THEN Append(sent, clock + 1) ELSE sent
  /\ UNCHANGED <<source, dated, table, bridge, next, dups, job, crashes>>

----------------------------------------------------------------------------
(* realtime: on_state writes *)

BridgeClose ==
  /\ pc = "close"
  /\ CloseRow(clock)
  /\ pc' = "log"
  /\ UNCHANGED <<source, dated, machine, written, alive, active, last, mqtt, job,
                 crashes>>

BridgeLog ==
  /\ pc = "log"
  /\ LogRow(truth[clock], clock)
  /\ written' = written \cup {clock}
  /\ last' = truth[clock] /\ pc' = "idle"
  /\ UNCHANGED <<source, dated, machine, alive, active, mqtt, job, crashes>>

\* Mutant: the bridge is disabled and goes on.
BridgeFailsMidway ==
  /\ pc # "idle"
  /\ active' = FALSE
  /\ UNCHANGED <<source, dated, machine, table, alive, last, pc, mqtt, job, crashes>>

\* Any error, the first connection included, disables the bridge.
BridgeFails ==
  /\ pc # "idle"
  /\ active' = FALSE /\ pc' = "idle"
  /\ UNCHANGED <<source, dated, machine, table, alive, last, mqtt, job, crashes>>

----------------------------------------------------------------------------
(* mqtt: one message; first deliveries are in order, redeliveries are not *)

Receive(i) ==
  /\ source = "mqtt" /\ alive /\ i \in 1..next /\ i <= Len(sent)
  /\ dups' = IF i < next THEN dups + 1 ELSE dups
  /\ dups' <= MaxDup
  /\ next' = IF i = next THEN next + 1 ELSE next

StateMessage(i) ==
  /\ Receive(i) /\ active
  /\ LogRow(truth[sent[i]], IF dated THEN sent[i] ELSE clock)
  /\ written' = written \cup {sent[i]}
  /\ UNCHANGED <<source, dated, machine, bridge, sent, job, crashes>>

\* No storage (the first attempt of a process decides for its whole life), or
\* the write fails: the message is consumed all the same.
StateMessageLost(i) ==
  /\ Receive(i)
  /\ UNCHANGED <<source, dated, machine, table, bridge, sent, job, crashes>>

----------------------------------------------------------------------------
(* offline *)

NextEvent(t) == {u \in due : u > t}
First(S) == CHOOSE t \in S : \A u \in S : t <= u

\* backfill: refused on a table with rows, unless --replace empties it.
StartJob(replace) ==
  /\ source = "offline" /\ job = 0 /\ due # {}
  /\ rows = <<>> \/ replace
  /\ rows' = <<>> /\ written' = {}
  /\ job' = First(due)
  /\ UNCHANGED <<source, dated, machine, bridge, mqtt, crashes>>

JobLog ==
  /\ job # 0 /\ job \notin written
  /\ LogRow(truth[job], job)
  /\ written' = written \cup {job}
  /\ job' = IF NextEvent(job) = {} THEN 0 ELSE job
  /\ UNCHANGED <<source, dated, machine, bridge, mqtt, crashes>>

\* exited_ts is the entry of the next event; the last row stays open.
JobClose ==
  /\ job # 0 /\ job \in written
  /\ CloseRow(First(NextEvent(job)))
  /\ job' = First(NextEvent(job))
  /\ UNCHANGED <<source, dated, machine, written, bridge, mqtt, crashes>>

----------------------------------------------------------------------------
(* Processes *)

Crash ==
  /\ crashes < MaxCrash /\ crashes' = crashes + 1
  /\ alive /\ (source = "offline" => job # 0)
  /\ alive' = (source = "offline") /\ job' = 0
  /\ pc' = "idle" /\ last' = None
  /\ UNCHANGED <<source, dated, machine, table, active, mqtt>>

Restart ==
  /\ ~alive
  /\ alive' = TRUE
  /\ active' \in IF source = "mqtt" THEN BOOLEAN ELSE {TRUE}
  /\ UNCHANGED <<source, dated, machine, table, last, pc, mqtt, job, crashes>>

Next ==
  \/ \E s \in State : Scan(s) \/ PlcSlot(s)
  \/ Off
  \/ BridgeClose \/ BridgeLog \/ BridgeFails
  \/ \E i \in 1..next : StateMessage(i) \/ StateMessageLost(i)
  \/ \E replace \in BOOLEAN : StartJob(replace)
  \/ JobLog \/ JobClose
  \/ Crash \/ Restart

Spec == Init /\ [][Next]_vars

----------------------------------------------------------------------------
(* The reader: _compute_oee_window on the window of the slots a..b-1 *)

\* Mutant: the rows entered in the window.
EntersIn(r, a, b) == a <= r.entered /\ r.entered < b

\* get_machine_state_history: the rows that overlap [a, b).
Overlaps(r, a, b) == r.entered < b /\ (r.exited = Open \/ r.exited > a)
InWindow(a, b) == {i \in DOMAIN rows : Overlaps(rows[i], a, b)}

Least(S, top) == CHOOSE x \in S \cup {top} : \A y \in S \cup {top} : x <= y

\* Mutant: up to the exit, whatever row follows.
ExitOrWindow(i, a, b) ==
  Least(IF rows[i].exited = Open THEN {} ELSE {rows[i].exited}, b)

\* The end of row i: the window's, its exit, or the entry of the next row.
SegmentEnd(i, a, b) ==
  LET nexts == {rows[j].entered : j \in {k \in InWindow(a, b) : Later(k, i)}}
      exits == IF rows[i].exited = Open THEN {} ELSE {rows[i].exited}
  IN Least(nexts \cup exits, b)

Segment(i, a, b) ==
  {t \in a..(b - 1) : rows[i].entered <= t /\ t < SegmentEnd(i, a, b)}

\* The rows to which the reader attributes slot t.
Attribution(a, b, t) == {i \in InWindow(a, b) : t \in Segment(i, a, b)}

Windows == {w \in (1..clock) \X (2..clock + 1) : w[1] < w[2]}

----------------------------------------------------------------------------
(* Properties *)

\* Every variable keeps its shape; ids are in the order of writing and a row
\* is written for a slot that was due, except by undated messages.
TypeInvariant ==
  /\ truth \in Seq(State \cup {Down}) /\ due \subseteq 1..clock
  /\ written \subseteq due
  /\ \A i \in DOMAIN rows :
       /\ rows[i].state \in State /\ rows[i].exited \in 0..clock
       /\ dated => rows[i].entered \in due /\ rows[i].state = truth[rows[i].entered]
  /\ pc \in {"idle", "close", "log"} /\ (pc # "idle" => alive /\ active)
  /\ next \in 1..(Len(sent) + 1) /\ job \in {0} \cup due

\* The entry that governs slot t: the last due one.
Governing(t) == CHOOSE c \in due : c <= t /\ \A d \in due : d <= t => d <= c

\* In every window, a slot whose state was written when it was entered is
\* attributed to that state and to no other: in spite of crashes between the
\* two transactions of the bridge, of rows a former process left open, of
\* messages redelivered after later ones, and while a backfill is at work.
RecordedTrue ==
  dated =>
    \A w \in Windows : \A t \in w[1]..(w[2] - 1) :
      (truth[t] # Down /\ Governing(t) \in written) =>
        /\ Attribution(w[1], w[2], t) # {}
        /\ \A i \in Attribution(w[1], w[2], t) : rows[i].state = truth[t]

\* No slot is counted twice: the seconds by state of a window never add up to
\* more than the window, however many rows are open or duplicated.
NoSlotTwice ==
  \A w \in Windows : \A t \in w[1]..(w[2] - 1) :
    Cardinality(Attribution(w[1], w[2], t)) <= 1

\* The bridge leaves at most one row open per process it ran in; a complete
\* backfill leaves the last one.
OpenRowsPerProcess ==
  /\ source = "realtime" => Cardinality(OpenRows) <= 1 + crashes
  /\ source = "offline" => Cardinality(OpenRows) <= 1
=============================================================================
