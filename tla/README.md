# FillerStack in TLA+

FillerStack is a simulated can-filling line and the data chain behind it: a
virtual PLC with 35 valves, an OPC UA server, a Node-RED edge flow, an MQTT
consumer that stores valve cycles in Parquet, a heartbeat that loads them into
PostgreSQL, scores windows of 50 cycles, opens and closes alerts, and a read
API with a dashboard. This directory holds TLA+ modules of its concurrent and
fault-exposed parts, TLC configurations that check them on small instances, and
TLAPS proofs for every instance.

## 1. The system

```
PlcScan -> realtime loop -> OPC UA server -> Node-RED -> MQTT broker -> ingest consumer
                 |                                                         |
                 v                                                         v
      machine_state_history                                   raw Parquet files, one per date
                                                                  |               |
                    dashboard <- API <- alerts, predictions <- inference     backfill -> cycles -> rollups
                                                       ^------ live supervisor ------^
```

| Component (source) | State it keeps | Operations | Talks to | Hard behaviours | What makes it correct |
|---|---|---|---|---|---|
| PLC and machine controller (`plcsim/plc.py`) | per-valve phase, counters, encoder; machine state | `scan`, `_transition`, `_abort_active`, stop and speed set-points | plant physics, realtime loop | several end conditions in one scan; machine stops in any phase | every started cycle is closed once, with the reason the phase order gives |
| Realtime loop, command layer, storage bridge (`plcsim/realtime.py`) | command queue, bounded change log, last state code | `submit_command`, `_iterate`, `on_state` | PLC, OPC UA server, database | threads and a queue; change log at its limit; restart with an open state row | commands run once, in order; one open state row |
| OPC UA server (`plcsim/opcua_server.py`) | node values, fault parameters | pre-write hook, `_handle_client_write`, `_publish_tick`, auto-reset | realtime loop, edge clients | awaits between the writes of one cycle; hook before the value is stored | a pulse command runs once; a fault set is the fault removed |
| Edge flow (`edge/flows/main.json`) | per-valve watermark, tag store | notification handler, envelope | OPC UA server, broker | reconnects, epoch reset, notifications out of order | each cycle id published at most once per epoch, with its own values |
| MQTT ingest consumer (`pipeline/ingest.py`) | dedup set, buffer, failure counts, dedup store | message callback, `_flush_locked`, `_tick`, `_shutdown`, `rebuild_dedup` | broker, raw files | two threads, QoS 1 redelivery, failing writes, kills | one row per event, nothing acknowledged is lost but a bounded window |
| Raw Parquet store (`pipeline/ingest.py`) | one file per date | atomic append by rewriting | consumer, backfill, inference | read while it grows | only grows, arrival-ordered, one row per event |
| Live supervisor (`pipeline/live_supervisor.py`) | date of the launch | heartbeat: backfill, then inference, then wait | both subprocesses | error exit, restart, a date fixed at launch | the chain reaches the tables as long as it beats |
| Cycles backfill (`pipeline/cycles_backfill.py`, `cycles_storage.py`) | cursor per (run, date), table `cycles` | load, filter by cursor, chunked insert, cursor write | raw files, database | dies between chunks; a second backfill; the file grows | the cursor never passes a row that is not in the table |
| Inference (`pipeline/inference.py`, `features.py`) | table `predictions` | `run`: watermark, insert, alert wiring | raw files, database, alert engine | dies anywhere; windows completing out of order; two processes | one prediction per window, every window predicted |
| Alert engine (`pipeline/alert.py`, `storage.py`) | score history, states; `alerts`, `alert_transitions` | `process`, `load_states`, `load_score_history`, `persist_events` | predictions, API | rebuilt from the tables at each heartbeat; two transactions per event | the alert is what K of the last N predictions say; row and log agree |
| State history (`storage.py`, `realtime.py`, `ingest.py`, `state_history_backfill.py`) | `machine_state_history` | log, close, current | realtime bridge, consumer, API | three writers, restart with an open row, redelivery | a recorded time gets its true state, none is counted twice |
| Rollups (`cycle_rollup.py`, `decision_rollup.py`) | hourly buckets, coverage, fingerprints | coverage, incremental fill, freshness | cycles, API | late cycles behind the last bucket | a covered bucket equals its cycles |
| Decision, read API, OEE (`decision.py`, `api.py`) | memories of the process, kept baseline | counting routes, verdict routes, interval clipping | tables | several statements per answer beside the fills; memories and their keys | an answer counts what a scan of `cycles` would; an hour keeps its verdict |
| Fault engine, scenarios (`scenario.py`) | registry of injected faults, plant channels, ground truth | inject, remove, countdown, apply ahead of the next cycle | OPC UA server, plant, realtime loop | expiry against removal; an aborted cycle has no record | a removed fault leaves no residue; the ground truth says what was in force |

Raw replay, ML training, the dashboard, the site and the one-shot operator
scripts hold no interleaved state and are not modelled. The physics of plant and
sensors is a choice of pulses in module `Filler`; `run.py` runs the loop of
`Filler` without commands.

## 2. Modules

| Module | Models | Status |
|---|---|---|
| `RawLog` | the contract of the raw files | abstract specification |
| `Ingest` | `IngestConsumer` on valve-cycle messages | checked, proved but for liveness |
| `Backfill` | supervisor and incremental backfill; EXTENDS `RawLog` | checked, proved but for liveness |
| `Alerts` | inference run, K-of-N rule and its persistence | checked, proved but for liveness |
| `Filler` | machine controller, virtual PLC, realtime loop, command queue | checked, proved but for liveness |
| `Faults` | fault engine, as a value with its methods | used by `Opcua` |
| `Opcua` | change log, OPC UA server, monitored items, edge flow; EXTENDS `Faults` | checked, proved |
| `StateHistory` | `machine_state_history`, three writers, one reader | checked, proved |
| `Decision` | the policy of `decision.py`, pure definitions | used by `Verdict`, lemmas proved |
| `Rollup` | hourly buckets, their fill, OEE counts | checked through `Readings` |
| `Verdict` | decision table, verdict routes; EXTENDS `Rollup`, `Decision` | checked through `Readings`, proved |
| `Readings` | the other counting routes; EXTENDS `Verdict` | checked, proved |
| `MC*` | instances for TLC | |
| `*Proofs` | theorems | |

### Ingest

The broker is the queue of a persistent session whose head is in flight;
`ConnectionLost` delivers it again, `Ack` forgets it. The network thread is
`hand` (the stamped record between `inject_ingest_ts` and the lock) and
`handled` (callback returned, PUBACK not sent). `lock` says which thread is
inside `_flush_locked`; a flush is `SwapOut`, then `WritePartition` or
`WriteFails` per date with `AppendDedupStore` between, then `FlushDone`: a
kill or a message can fall between any two. `sizing` is the main thread inside
`_buffer_size_locked`, called by `_tick` at `ingest.py:698` without the lock.
`Die` is what a process loses; `lost` and `degraded` are history variables.

`RawLog` is what `Ingest` promises and `Backfill` reads: `AppendRows` adds rows
of new events whose `ingest_ts` is not before that of any row already there.

### Backfill

A process is `off`, `loaded` (has read the file) or `inserting` (has read the
cursor, and holds the pending rows and the cursor value to write). File, cursor,
every chunk and the cursor write are separate steps because the consumer, the
other backfill and a death fall between them. The supervisor's `sup` follows
`run_once` and `run`: it goes to `inference` only after its backfill ended well
and to `stopped` on any non-zero exit code.

### Alerts

A valve's window is its index and a score one of three levels (below
`threshold_close`, between the thresholds, at `threshold_open` or above). A job
is one `python -m pipeline.inference`: `persist` (records in
`predict_frame` order, watermark per valve, `insert_prediction`), `history`
(states loaded, history not yet), `decide` (`process`, record by record),
`upsert` and `insert` (the two transactions of each event in
`persist_events`). `Abandon` is a kill, or an exception in the wiring, which
`inference.py:377-381` turns into a warning: both drop the rest of the run.

### Filler

One unit of time is one scan. `Iterate` is an iteration of `_iterate`: it takes a
command if there is one (`SubmitCommand` is the thread of the OPC UA server),
applies it to the template, steps the machine controller, and scans or jumps.
`Scan` follows `plc.py` in its order: interlock and `_abort_active`, due timers,
end conditions of FILLING and TAIL, windows of the carousel. `valve` holds the PLC's
arrays as one record per valve; its `due` is the array that lets the vectorised scan
skip a valve. The physics is a number of pulses up to `MaxPulses` on a valve that can
flow: restriction, dropout, glitch and pressure change that number only. `Reference` is
`ValveController.step`, the scalar semantics the vectorised scan claims to keep.

### Faults and Opcua

`Faults` is the engine as a value and its methods as operators: `Inject`, `Remove`,
the countdown at the close of a record and the severity of the next cycle. Severities
are levels; `Ms` levels of a delay are a millisecond, and `Applied` is the `int()` with
which a delay reaches the plant (`scenario.py:354`, `scenario.py:367`), while
`GroundTruth` keeps the fraction (`scenario.py:562`). `Opcua` puts the engine behind the
write hook (`WriteParam`, `ForceOn`, `ForceOff`); `Commanded` turns `FaultSeverity` into
whole milliseconds. `equipped` says whether `serve` was given a scenario: without one
there is no engine, a write is accepted and nothing is injected
(`opcua_server.py:523-527`).

The rest follows a closed cycle. `CloseCycle` writes tags to the snapshot and to the
change log, whose oldest entries are lost when it is full; `Drain` takes the log;
`WriteNode` is one await of the publishing task, so that anything falls between the
tags of a block, and `FailWrite` the write that raises, is logged and not tried again
(`opcua_server.py:564`). A monitored item of the edge's subscription keeps the last value
of its tag (`Sample`) until `PublishItems`, the publish of the subscription (0.1 s), puts
what changed on the channel: a burst of blocks leaves one value per tag. `Notify` is
one notification at the edge, which keeps a tag store and, when `LastCycleId` is above
the watermark, builds an envelope from the store; ids jumped over are the GAP
warning of the flow (`gaps`). `RestartServe` starts a new epoch whose ids begin again;
`LoseLink`, `EdgeLink` and `Deploy` are the edge's reconnection, its initial values and
the loss of its context. `since` is the first id the watermark took from this process.

### StateHistory

Slots of time, and the machine's true state in each. A deployment has one writer:
the bridge, which closes and appends in two transactions and is disabled for good by
its first error; the MQTT handler, which only appends and consumes a message it cannot
store; the offline backfill, refused on a table with rows unless it replaces them.
`Segment` and `Attribution` are the clipping loop of `_compute_oee_window`.

### Rollup, Verdict, Readings and Decision

`Rollup` has the table `cycles`, to which cycles come in any order, and the fill
of `cycle_rollup_hour`: `FillBegin` fixes the hours, `FillPiece` is one INSERT ... SELECT
with a snapshot of its own, `FillCommit` makes the transaction visible, `FillAbort` rolls
it back. An OEE request is coverage, extent, buckets, edges and answer, one SQL
statement a step; a series of points goes through `_memoria_risposta` first. `Verdict` adds
`decision_rollup_hour` (fill, freshness, and the routes that serve from it or compute)
under a policy that may change; `Readings` adds quality, progression, profile and
baseline with their memories. `Decision` is pure: `Grade` compares each hour with mean and deviation
of the useful hours of the policy's healthy window (`Sane`), taken over the whole series, by exact
integers (`n * x` against the sum, squares against the spread) on means and rates rounded to
thousandths as the code rounds them; regime, signals, estimate grid, verdict and the walk over the hours
work on the graded series. `behind`, `late`, `stale`, `twice` and `torn` are history
variables or fields: they mark what the code declares stale or what section 5 lists.

## 3. Runs

| Run | Asks | Result |
|---|---|---|
| `ingest_safety` | exactly-once storage with a dedup store, arrival order, loss window, orderly stop, refinement of `RawLog` | holds |
| `ingest_live` | every message ends on disk or in the loss window, through unreadable startups and rejected payloads | holds |
| `ingest_tick` | "il consumer non si ferma mai" | violated: a new date key during the unlocked iteration raises in the main thread |
| `backfill` | cursor safety and progress, with a manual backfill beside the supervisor's | holds |
| `backfill_valve` | the same cursor with `--valve` | violated: rows of the other valves are passed |
| `alerts_safety` | one prediction per window; alerts follow predictions through dying runs | holds |
| `alerts_log` | log chained, row equals the sum of its episode, late windows predicted | holds |
| `alerts_die` | "le finestre già predette sono state processate" | violated: a run that dies after the inserts leaves them unprocessed |
| `filler` | cycles accounted for, stop interlock, good means full, one zone, one window, vectorised scan against its reference, the loop ends | holds |
| `opcua` | an envelope is its cycle, once; every cycle is published or reported as a gap; channels, ground truth and ForceFault follow the registry | holds |
| `state_history` | a recorded slot gets its true state in every window, none twice; open rows | holds |
| `rollup` | counts of every answer between two scans of `cycles`; a served verdict is the computed one; an hour has one verdict once the healthy window is behind | holds |

Every configuration sets `CHECK_DEADLOCK FALSE`: with its bounds used up a model
stops, and the supervisor may stop for good.

Bounds. Ingest: three PUBLISH packets over three events on two dates give a
duplicate, a pair on one date and a new date key; `FlushRecords = 2` makes both
the threshold flush and the tick flush happen; one stop and one kill meet every
other step; two clock values order rows. Backfill: two rows on one date and one
on another, chunks of one row, one death, one manual backfill, two launches;
three `ingest_ts` values let rows lie before, at and after a cursor. Alerts: 2 of
3 over five windows with four runs of which two die, so that history is cut,
crosses runs and is rebuilt from the table; 1 of 2 over four windows in any
order gives open, sustained, closed and reopened. With the operating values
(5 of 150, windows 160 s apart, cooldown 60 s) a cooldown never reaches the
next window, and it lives in memory only: `alerts_safety` therefore uses a
cooldown of one window, which suppresses nothing. `alerts_log` uses two, so
that the suppressed branch is taken as well.

Filler: two valves half a rotation apart, rotation of 8 scans with a zone of 6, a day of
Idle, Starting, Running, Stopping, Stopped whose Running begins inside a valve's
zone, and a horizon of 22 scans: nearly three rotations, so a valve is stopped in any
phase, restarts in the same window, and reaches the next one; two commands are a
stop and a start at any time. One pulse a scan against a target of 3 gives full,
encoder-limited and tolerance cases; a ramp of 2 gives overfilled cans.
Opcua: the exposed valve, another, and one of the scenario; a change log of 3 overflows
with the second block; three cycles give a cycle, its successor and one after a
scrap; five inputs are, for instance, three cycles, a restart and a lost link, or two
cycles in a burst and a failed write. The scenario's delay grows half a millisecond a cycle
(`Ms = 2`), so that truncation shows at every other one; severities of half a millisecond and
one and a half are rounded both ways and to the minimum of one. `equipped` is both.
StateHistory: two states (symmetric), five slots, one crash and one redelivery: a row
left open, one after it and a gap, or a redelivery two rows behind.
Rollup: hours of two ticks, so that an instant is on the hour or within; up to
six cycles over six hours, late ones included. `Scopes` puts OEE, verdict, quality, profile,
progression and baseline requests each alone beside one or two fills (three OEE scopes, two of
them with the second fill that summarises an hour taken for empty): routes
share nothing but the tables and the fills, so two routes at once add no reads or
writes of either. `Sigmas = 1` instead of three lets three useful hours of the healthy window put one
beyond the threshold; the two policies have windows that overlap and end inside the run, and a scope without
requests has a regime that begins and ends (`WalkScope`). A span of 8 in steps of 3 gives a series of up to three points.

Fairness. `Ingest`: both threads are scheduled and the service is restarted
(weak fairness of callback, flush, tick, shutdown and start); the network does
not lose every PUBACK and the disk does not refuse every write (strong
fairness of `Ack` and of `WritePartition` per date); `_tick` calls `flush` every
second, and `flush_seconds` elapses again and again, hence strong fairness of
`TickFlush`, which needs the lock.
`Backfill`: the supervisor and its own subprocess are scheduled; nothing is
assumed of arrivals, operators, failures or launches, and the property allows
the heartbeat to end. `Alerts`: runs are started and go on unless they die.
`run` of the supervisor returns on a non-zero exit code, so after a kill this
assumes that the service is launched again; a wiring exception exits with 0.
`Filler`: the loop runs on a thread of its own and never waits for a command (weak
fairness of `Iterate`); nobody has to send one. The other modules claim no liveness.

## 4. Theorems

All are proved for every value of the constants under the modules' ASSUMEs
(`IngestAssumption` and so on; TLC evaluates them in every run).

- `IngestProofs`. `IInv` joins the types, who may hold the lock and a record
  (`NetInv`), what a flush in progress holds (`FlushInv`) and `Contents`: file and
  memory of a date are ordered by `ingest_ts` and hold rows of that date, an
  id of `seen` is stored or held and conversely, an id has one row in files and
  memory together. The last is why `NoDuplicateOnDisk` alone is not inductive: a
  write moves rows from memory to a file. From it: `NoDuplicateOnDisk`,
  `SeenIsKept`, `DiskBeforeMemory`, `OrderlyStopKeepsAll`, and `Refinement` (`Ingest`
  implements `RawLog`) when no startup fails to read the files. `LossWindow` needs
  `SizeInv` besides: what is acknowledged and of a date without a failing write stays below
  `FlushRecords`, because the callback that reaches the threshold flushes before its own PUBACK,
  and during a flush the buffer of such a date is empty.
- `BackfillProofs`. The invariant says that a loaded frame is a snapshot (rows not
  in it are not older than any row in it), and that a cursor value about to be
  written is the time of a row of the file all of whose predecessors are in
  the table or still pending. `NoRowSkipped` follows when no backfill has a
  valve filter; `backfill_valve` shows the condition is needed.
- `AlertsProofs`. `TypeCorrect` includes that a score history never exceeds N and
  that a writing process has an event to write; `OnePredictionPerWindow` needs
  that the records still to persist are different windows and that a watermark
  already read covers those of them that are stored. It assumes a single
  inference process: two of them read the watermark before either inserts, and
  the `ON CONFLICT` on a random `prediction_id` cannot help. So do the three that follow.
  `LogChained` and `RowSumsUpLog` rest on `Engine` (the events a process has still
  to write lead from the statuses of the table to those it holds in memory) and `LogInv` (the
  log is chained and each row sums up its last episode, one event ahead between the two
  transactions); `LogInv` holds until the first run that dies, which `dies = 0` says, because
  those two transactions may be torn. `AlertsFollowPredictions` holds whatever runs
  died: `FInv` says that what has been decided follows the stored predictions
  up to the record under way. It needs windows in order (`InOrder`) and a cooldown that never
  reaches the next window (`Cooldown <= 1`): `cooldown_seconds` is 60, a window 160 s.
- `FillerProofs`. `FillerInv` says of every valve: its counters balance (`Account`), what is
  commanded open is FILLING, a can in TAIL ended by its target or the encoder
  (`Ended`), and `due` is the time its phase really ends (`Timed`); of the machine,
  that its phase contains the clock (`MachineAt`); and that no valve works a can
  unless the last scan saw Running. `Timed` is what makes the rest inductive: a valve is
  skipped until `due`, so a bound on FILLING needs the time it was entered, and an IDLE
  valve with a past must be behind its window for `OneCyclePerWindow`. Several lemmas
  follow one valve through the stages of a scan. `FillerAssumption` asks for
  `EncoderLimit < SafetyLimit`, as the shipped parameters have it.
  `ScanFollowsReference` compares a vectorised scan with the
  scalar step, so it needs that a valve left out of the candidates would not have
  moved: its `due` is the time at which the reference would act (`DueTimes`), and the next
  try of an idle valve is not after its next entry into the zone (`NoMiss`). The
  latter rests on lemmas on division that place the windows of the carousel.
- `OpcuaProofs`. `RegistryInv`: the channels of a valve are a function of its registry
  entry, through inject, remove and countdown, and healthy without an engine. With it,
  `ForceMeansFault` survives each accepted and refused write. `TruthInv` adds what the
  scenario has injected into a valve of its own: the severity due for the next cycle in whole
  milliseconds, or less after a scrapped one, because ramps only rise and division
  is monotone (`AppliedMonotone`); hence `GroundTruthTrue`. For `PublishedOnce`: the ids of
  log, task and channel never go down, an item holds the current value of its node
  (`StreamInv`), and all that is published of this process is behind what is still to arrive
  (`PublishedInv`); a restart empties log, task, items and channel, and the edge's epoch reset lowers the
  watermark only then. For `EveryCycleAccounted`: the id of the last record is on its
  way out, written, or its write failed (`RecordInv`); whatever the watermark has passed
  since its first id is published or reported, and a linked edge has the id of the
  node or will have it (`AccountInv`). For `EnvelopeIsItsCycle`: since unchanged tags
  do not travel, what an id means depends on all changes before it, so `CarryInv` replays them,
  from the store of the edge through channel, items, task and log to the snapshot.
  `BoundInv` bounds counter and log.
- `StateHistoryProofs`. `HistoryType` adds to the types that the backfill is never past a row
  it wrote. `NoSlotTwice` needs no more: two rows of one window are comparable by
  `Later`, and the earlier ends where the later begins. `OpenInv` counts the open
  rows at every point between the two transactions of the bridge.
  For `RecordedTrue` it does not matter which open row a close picks:
  a closed row ends at a later slot that was due (`RowsTell`), and the clipping never follows a
  row past the entry of a later one. The rest is that a slot is in the state of the last
  due slot before it (`Recorded`), which holds for the bridge because it remembers the
  state it last wrote unless a write failed (`BridgeTells`).
- `VerdictProofs`. The walk of `Decision` is a recursive function; `WalksExist` and `WalksAgree`
  show by a least counterexample that there is exactly one function that takes every
  step. From them `WalkSeen` (a row does not depend on the hours after it in the grid) and `WalkCut`
  (nor on the graded series after it): signal, estimate and trailing window look back only.
  Grading does look ahead, into the healthy window; `GradedHours` and `GradedCut` say that cutting a
  series behind that window leaves its grades, with which `OneHourOneVerdict` follows.
  `ServedInv` has two halves. One holds always: a row is a whole hour below
  the one of the last cycle with no more cycles than the table has (`CoreInv`), the decision
  table is the grid of one run under one policy, which a fill about to commit
  replaces whole with no older one, and a request that found the prints
  fresh was made under every policy the table can still come to have (`VerdictInv`). This gives
  `TypeInvariant` and, with `WalkCut` and `GradedCut`, `OneHourOneVerdict`. The other holds until a late
  cycle: the hours between two rows are what `cycles` has, all series begin at the first row
  (`CalmInv`), and table, fill, request and answer tell what the rows tell now
  (`VerdictCalm`), because a series between two rows no longer changes. This gives
  `ServedVerdict`. No bound on cycles, hours, fills or requests is used.

- `ReadingsProofs`. `BracketedCorrect`, over `ServedInv` and three more parts. `BehindInv`: the
  bucket of an hour between the first and the last counts all its cycles, unless the hour is
  in `behind`, that is, unless cycles came after the bucket was read. `OeeInv` says of an OEE
  request, at every statement, what its coverage, extent, buckets, edges and heads tell
  between the cycles there were when it came (`had`) and those there are now, and the same of
  what the memory keeps. `ViewsInv` says of a request of the other routes that the cycles of a window
  outside the pieces still to be read (`Awaits`) are counted, no fewer than `had` has and no more
  than there are now (`Tallied`), that the pieces do not overlap, that the buckets
  come first and are whole hours of the coverage (`RowsAhead`), and that an interval is made of its
  windows for what had come (`WholeOk`); then of its counts, of the remembered
  progressions and of the kept baseline that they are bracketed. The sums are folds: `SumsExist` and what
  follows rebuild, from a least counterexample, that a sum is additive, monotone and that
  the buckets of disjoint hours count the cycles of their union. A bound on the number of cycles,
  hours, fills and requests is not used; the grain must be whole hours and the arguments
  of a request integers (`ReadingsAssumption`).

Model-checked only: the liveness properties `EventuallyStored`, `EventuallyInCycles`,
`EventuallyPredicted` and `ReachesHorizon`, since liveness is out of the prover's reach. Every
invariant and every other property of the passing runs has a theorem.

## 5. Assumptions and limits

- The consumer's clock never steps back; a step back would put a row behind the
  cursor. One `machine_id`, one `run_id`, one supervisor.
- `NoDuplicateOnDisk` excludes startups that could not read the files, which the
  code accepts with a log line (`ingest.py:360`).
- An orderly stop whose final flush fails drops the records it put back, in
  contrast to `ingest.py:41`; `OrderlyStopKeepsAll` asks that no write is failing.
- The key of `cycles` has no date: cycle numbers that restart within a run are
  dropped by `ON CONFLICT` while the cursor of their date passes them, in contrast
  to `cycles_backfill.py:675`. `NoRowSkipped` speaks of keys.
- The K-of-N rule closes an alert as soon as fewer than K of the last N scores
  are at `threshold_open`; `threshold_close` is not read, in contrast to
  `alert.py:483`.
- A kill between `upsert_alert` and `insert_transition` leaves a gap in the log that
  nothing repairs: `alerts_log` has no dying run. Rows of one window have one
  score, so the order of equal timestamps is not modelled.

What the models of filler, server and edge showed, beyond their properties:

- An idle valve may enter its zone late (after a stop, or a long cycle) and then
  fills past its end: `FILLING` is bounded by the zone's length from the start of the
  cycle, not by its geometry, in contrast to the comment "zona geometrica esaurita".
- The timers of PAUSE and SNIFT go on during a stop. A command that comes during
  Stopping or Starting is consumed without effect.
- The ground truth of the cycle after a scrapped one is overstated: the record that would
  have applied the next severity never came. The ground truth of a delay in its ramp states the float
  while the plant runs the whole millisecond below it: `GroundTruthTrue` compares after truncation.
  Levels are exact; rounding errors of the code's float ramps are left out.
- Changing `FaultValve` while forcing leaves the former valve's fault active, in contrast to
  "un solo fault attivo alla volta" (`opcua_server.py:507`). Without a scenario `ForceFault`
  is accepted and reads TRUE although there is no engine to inject anything.
- A change lost to an overflow of the log or a failed write leaves its node stale. If it was the last
  `LastCycleId`, the edge stays behind until the next cycle closes, which
  `EveryCycleAccounted` excuses (`failed`).
- A burst of cycles within one publish of the subscription leaves the edge the last value of each tag:
  the cycles before are named in a GAP warning and lost, and an envelope may mix blocks.
  `EnvelopeIsItsCycle` excuses these. A monitored-item queue deeper than one value, which is the
  client library's choice and not in this repository, would deliver more.
- A GAP also names cycles that were scrapped and have no record, and those made while the link was down.
  Cycles before the first id that a subscription takes from a process are neither published nor
  reported: the flow has no backfill (`since`).
- An edge that subscribes in the middle of a block may publish a torn one; after a
  restart, an id equal to the old watermark is lost if the edge links late.
  Pulses and their auto-reset (`opcua_server.py:566`) depend on asyncua and are not modelled.

Of the state history:

- A row that a former process left open takes the gap after a failed write when the
  window is short, while a wider one leaves the gap uncovered. Time in which the
  simulator is down goes to the last open state.
- An undated message redelivered later enters its state at the wrong time
  (`RecordedTrue` asks for dated ones). A first connection that fails loses
  every state message of that process. The check for existing rows of the offline
  backfill does not hold off a live writer.

Of rollups, verdicts and readings; `AnswerBracketed` and `ServedVerdict` excuse what is
marked with (*):

- (*) `_dx_vuoto_da` is `_ceil_ora` of the last cycle (`api.py:586`): a run that ends exactly on
  an hour has that hour taken for empty, in contrast to its docstring.
- (*) `_leggi_bordi` subtracts the head of an hour from its bucket, two statements
  (`api.py:648`, `api.py:650`). An hour outside the coverage that counts as empty may get its
  first cycles and its bucket between the two: the tail then counts what came into the head,
  in contrast to "la sottrazione e' esatta" (`api.py:684-685`).
- (*) A fill that commits between the coverage and the buckets of
  `/valves/quality/series` (`api.py:1765`, `api.py:1835`) makes the hours it added count
  twice, once from buckets and once from the tail, in contrast to "senza doppioni"
  (`api.py:1946`).
- (*) `--since-last` never counts late cycles of older hours again. The key of
  `_memoria_risposta` moves with the newest cycle and the buckets, not with late cycles;
  it has neither the state history nor the speed target. A baseline once kept is served
  although its window got cycles since (`?refresh=1` recomputes it).
- (*) Freshness of the verdict looks at coverage and fingerprints, not at values; a fill
  of the decision table between the two statements of a route gives an answer with
  parts of both, and a timeline may then reach past the coverage it was asked for.
- Mean and deviation are of the healthy window of the whole run at every hour, as the docstring of
  `decision.py:738-740` says: an hour inside the window may change its verdict when later hours of the
  window are summarised. `OneHourOneVerdict` speaks of the hours behind it. The floats are
  exact integers here: ties of `round(..., 3)` and rounding errors of the deviation are left out, and an
  hour out of band costs the constant `Scrap`.
- The count of consecutive confirmations in `camminata` is not reset after `sostituita`, although
  its docstring resets it at every other action.
- A statement that fails in `_leggi_qualita_coda` or `_profilo_da_cycles` gives an empty dict, so
  that the answer misses its tail silently: SQL errors of the readers are not modelled.
  Gaps left by `--from`/`--to` read as zero, as the code declares: not modelled.

Not modelled of the components above: statistics counters; the undated bulk
backfill and `resolve_run_id`; the legacy persistence and hysteresis rule; feature
values and the classifier; speed set-point and jitter; pacing against the wall
clock; machine tags; YAML parsing and the event log of faults; migrations of the
rollups and all sums of a bucket but counts; the speed target, the choice of the
run, and the routes that print rows of one table; rows of cycles that lack the
columns of a later migration.

## 6. Plan

Left, in this order:

1. `Backfill` and `Alerts` composed: windows that straddle two dates, the
   supervisor's date after midnight.
2. `LegacyAlerts`: the persistence and hysteresis rule.
3. Raw replay, and the undated bulk backfill with `resolve_run_id`.
