------------------------------ MODULE Backfill ------------------------------
(***************************************************************************)
(* The live path from the raw files to the table cycles: the heartbeat of  *)
(* pipeline/live_supervisor.py and the incremental backfill of             *)
(* pipeline/cycles_backfill.py with its ingest_ts cursor, reading files    *)
(* the consumer keeps appending to (module RawLog).                        *)
(*                                                                         *)
(* The supervisor's backfill and one launched by hand are two processes on *)
(* the same cursor and table.  Everything belongs to one run_id, which is  *)
(* part of every cursor key and of every key of cycles.                    *)
(*                                                                         *)
(* Abstractions.  A row is its event and its ingest_ts; KeyOf gives its    *)
(* (valve_id, cycle_id) and ValveOf the valve of a key.  Inference is its  *)
(* exit code.  A chunk is any part of the pending rows of at most          *)
(* ChunkRows: the sort order is not read.                                  *)
(***************************************************************************)
EXTENDS RawLog, Integers, FiniteSets

CONSTANTS
  Key,         \* (valve_id, cycle_id) pairs
  KeyOf,       \* [Event -> Key]
  Valve, ValveOf, \* [Key -> Valve]
  ValveFilters,\* values of --valve a backfill by hand may be given
  AllValves,   \* no --valve
  ChunkRows,   \* BULK_INSERT_CHUNK_ROWS
  MaxTime,     \* bound: ingest_ts
  MaxManual,   \* bound: backfills launched by hand
  MaxFail,     \* bound: backfills that die
  MaxRestart   \* bound: supervisor launches

ASSUME BackfillAssumption ==
  /\ KeyOf \in [Event -> Key] /\ ValveOf \in [Key -> Valve]
  /\ AllValves \notin Valve /\ ValveFilters \subseteq Valve \cup {AllValves}
  /\ ChunkRows \in Nat \ {0}
  /\ {MaxTime, MaxManual, MaxFail, MaxRestart} \subseteq Nat

VARIABLES
  cycles,   \* the rows of table cycles
  cursor,   \* [Date -> ingest_ts or NoCursor], the KV machine_state
  job,      \* [Job -> state of a backfill process]
  sup,      \* supervisor: "stopped", "beat", "backfill", "inference", "waiting"
  liveDate, \* the supervisor's --date
  manuals, fails, restarts  \* counters of the bounds

supVars == <<sup, liveDate, restarts>>
vars == <<file, cycles, cursor, job, supVars, manuals, fails>>

Job == {"live", "manual"}
NoCursor == -1          \* no cursor: every ingest_ts is at or after it
Mark == Nat \cup {NoCursor}

RowKey(r) == KeyOf[r.event]
Keys(R) == {RowKey(r) : r \in R}

Off == [pc |-> "off"]   \* no process
\* Mutant: the process does not know its date.
BusyUndated(pc, d, R, m) == [pc |-> pc, rows |-> R, mark |-> m]

\* A process that read the file of date d and has still to handle the rows R.
Busy(pc, d, R, m) == [pc |-> pc, date |-> d, rows |-> R, mark |-> m]

-----------------------------------------------------------------------------
Init ==
  /\ LogInit
  /\ cycles = {} /\ cursor = [d \in Date |-> NoCursor]
  /\ job = [j \in Job |-> Off]
  /\ sup = "stopped" /\ liveDate \in Date
  /\ manuals = 0 /\ fails = 0 /\ restarts = 0

\* The consumer flushes a batch of rows to the file of one date.
Arrive(d) ==
  /\ \E E \in SUBSET Event : \E ts \in [E -> 0..MaxTime] :
       AppendRows(d, {[event |-> e, ts |-> ts[e]] : e \in E})
  /\ UNCHANGED <<cycles, cursor, job, supVars, manuals, fails>>

-----------------------------------------------------------------------------
\* load_cycles: no file (NoRawDataError) or a key twice in it (RawFormatError).
HasDuplicates(d) == \E r, s \in file[d] : r # s /\ RowKey(r) = RowKey(s)
Unreadable(d) == file[d] = {} \/ HasDuplicates(d)

\* load_cycles: the rows of the file as it is now, of one valve if asked.
Frame(d, v) == {r \in file[d] : v \in {AllValves, ValveOf[RowKey(r)]}}

Load(j, d, v) ==
  /\ job[j].pc = "off"
  /\ ~Unreadable(d)
  /\ job' = [job EXCEPT ![j] = Busy("loaded", d, Frame(d, v), NoCursor)]

\* Mutant: a strict comparison.
PendingAfter(R, c) == {r \in R : r.ts > c}

\* _filter_with_cursor: rows that arrived at the cursor or after it.
Pending(R, c) == {r \in R : r.ts >= c}

\* max() of the pending ingest_ts; nothing for an empty frame.
IsAdvance(m, R) ==
  IF R = {} THEN m = NoCursor
            ELSE m \in {r.ts : r \in R} /\ \A r \in R : r.ts <= m

\* _insert_cycles, up to the first chunk: cursor, filter and its new value.
ReadCursor(j) ==
  /\ job[j].pc = "loaded"
  /\ LET R == Pending(job[j].rows, cursor[job[j].date])
     IN \E m \in {r.ts : r \in R} \cup {NoCursor} :
          /\ IsAdvance(m, R)
          /\ job' = [job EXCEPT ![j] = Busy("inserting", job[j].date, R, m)]
  /\ UNCHANGED <<file, cycles, cursor, supVars, manuals, fails>>

\* bulk_insert of one chunk: ON CONFLICT (run_id, valve_id, cycle_id) DO NOTHING.
InsertChunk(j) ==
  /\ job[j].pc = "inserting"
  /\ \E chunk \in SUBSET job[j].rows :
       /\ chunk # {} /\ Cardinality(chunk) <= ChunkRows
       /\ cycles' = cycles \cup {r \in chunk : RowKey(r) \notin Keys(cycles)}
       /\ job' = [job EXCEPT ![j].rows = @ \ chunk]
  /\ UNCHANGED <<file, cursor, supVars, manuals, fails>>

\* Mutant: the cursor does not wait for the chunks.
AnyTime(j) == TRUE

AllInserted(j) == job[j].rows = {}

\* _write_cursor, after the last chunk; the process ends with exit code 0.
WriteCursor(j) ==
  /\ job[j].pc = "inserting" /\ AllInserted(j)
  /\ cursor' = IF job[j].mark = NoCursor THEN cursor
               ELSE [cursor EXCEPT ![job[j].date] = job[j].mark]
  /\ job' = [job EXCEPT ![j] = Off]
  /\ sup' = IF j = "live" THEN "inference" ELSE sup
  /\ UNCHANGED <<file, cycles, liveDate, restarts, manuals, fails>>

\* The process dies (database gone, kill): run_once returns its exit code.
JobFails(j) ==
  /\ job[j].pc # "off" /\ fails < MaxFail
  /\ fails' = fails + 1
  /\ job' = [job EXCEPT ![j] = Off]
  /\ sup' = IF j = "live" THEN "stopped" ELSE sup
  /\ UNCHANGED <<file, cycles, cursor, liveDate, restarts, manuals>>

\* An operator runs python -m pipeline.cycles_backfill --dates d [--valve v].
ManualBackfill(d, v) ==
  /\ manuals < MaxManual
  /\ manuals' = manuals + 1
  /\ Load("manual", d, v)
  /\ UNCHANGED <<file, cycles, cursor, supVars, fails>>

-----------------------------------------------------------------------------
\* An operator launches the supervisor for one date.
Launch(d) ==
  /\ sup = "stopped" /\ restarts < MaxRestart
  /\ restarts' = restarts + 1
  /\ sup' = "beat" /\ liveDate' = d
  /\ UNCHANGED <<file, cycles, cursor, job, manuals, fails>>

\* run_once, first half: the backfill subprocess starts.
BeatBackfill ==
  /\ sup = "beat"
  /\ Load("live", liveDate, AllValves)
  /\ sup' = "backfill"
  /\ UNCHANGED <<file, cycles, cursor, liveDate, restarts, manuals, fails>>

\* run_once: the backfill exits with 2, the heartbeat ends.
BeatRefused ==
  /\ sup = "beat" /\ Unreadable(liveDate)
  /\ sup' = "stopped"
  /\ UNCHANGED <<file, cycles, cursor, job, liveDate, restarts, manuals, fails>>

\* run_once, second half: inference of the same date, then the wait of run.
BeatInference ==
  /\ sup = "inference"
  /\ sup' \in {"waiting", "stopped"}
  /\ UNCHANGED <<file, cycles, cursor, job, liveDate, restarts, manuals, fails>>

\* run: the interval elapsed, or the stop event was set.
WaitOver ==
  /\ sup = "waiting"
  /\ sup' \in {"beat", "stopped"}
  /\ UNCHANGED <<file, cycles, cursor, job, liveDate, restarts, manuals, fails>>

-----------------------------------------------------------------------------
JobStep(j) == ReadCursor(j) \/ InsertChunk(j) \/ WriteCursor(j)
Heartbeat == BeatBackfill \/ BeatRefused \/ BeatInference \/ WaitOver

Next ==
  \/ \E d \in Date : Arrive(d) \/ Launch(d)
  \/ \E d \in Date : \E v \in ValveFilters : ManualBackfill(d, v)
  \/ \E j \in Job : JobStep(j) \/ JobFails(j)
  \/ Heartbeat

Spec == Init /\ [][Next]_vars

\* The supervisor and its subprocess are scheduled; nothing is assumed of
\* operators, arrivals and failures.
FairSpec == Spec /\ WF_vars(Heartbeat) /\ WF_vars(JobStep("live"))

-----------------------------------------------------------------------------
JobState ==
  {Off} \cup [pc : {"loaded", "inserting"}, date : Date, rows : SUBSET Row,
              mark : Mark]

TypeOK ==
  /\ file \in [Date -> SUBSET Row]
  /\ cycles \subseteq Row
  /\ cursor \in [Date -> Mark]
  /\ job \in [Job -> JobState]
  /\ sup \in {"stopped", "beat", "backfill", "inference", "waiting"}
  /\ liveDate \in Date
  /\ manuals \in Nat /\ fails \in Nat /\ restarts \in Nat

Covered(r) == RowKey(r) \in Keys(cycles)

\* "Nessuna riga confermata viene saltata": a row the cursor has passed, that no
\* later backfill will look at again, is in the table, whatever failed,
\* restarted or ran side by side, and however late the row was flushed.
NoRowSkipped ==
  \A d \in Date : \A r \in file[d] :
    r.ts < cursor[d] => Covered(r)

\* A row of the supervisor's date reaches the table unless the heartbeat ends.
EventuallyInCycles ==
  \A e \in Event :
    (e \in Stored /\ DateOf[e] = liveDate)
      ~> (KeyOf[e] \in Keys(cycles) \/ sup = "stopped")
=============================================================================
