------------------------------- MODULE Ingest -------------------------------
(***************************************************************************)
(* The MQTT consumer of pipeline/ingest.py: QoS 1 delivery from a          *)
(* persistent session, dedup on event_id, the in-memory buffer and its     *)
(* atomic flush to one Parquet file per date, the optional dedup store,    *)
(* orderly shutdown, SIGKILL and restart.                                  *)
(*                                                                         *)
(* Three threads of control interleave: the paho network thread (the       *)
(* message callback and the PUBACK that follows it), the main thread (the  *)
(* one-second tick, the shutdown) and the outside world (publisher, clock, *)
(* disk failures, signals).  The consumer's lock serialises the flushes.   *)
(*                                                                         *)
(* Abstractions.  A message is its event_id; the schema admits a single    *)
(* machine_id, so a partition is a date.  A buffer, a file and the dedup   *)
(* store are sets: their order is never read.  Elapsed-time conditions     *)
(* (flush_seconds, the one-second wait) are nondeterministic.  The clock   *)
(* that stamps ingest_ts never steps back (README, assumptions).           *)
(***************************************************************************)
EXTENDS Naturals, Sequences, FiniteSets

CONSTANTS
  Event,          \* event_ids the edge may publish
  Date,           \* UTC dates of event_ts, one raw file each
  DateOf,         \* [Event -> Date], fixed by the event's event_ts
  Malformed,      \* events rejected by the JSON or schema validation
  FlushRecords,   \* --flush-records
  UseStore,       \* is --dedup-store given?
  RebuildMayFail, \* can reading the Parquet files fail at startup?
  MaxSend,        \* bound: PUBLISH packets reaching the broker
  MaxTime,        \* bound: clock ticks
  MaxStop,        \* bound: stop signals
  MaxCrash        \* bound: hard kills

ASSUME IngestAssumption ==
  /\ DateOf \in [Event -> Date]
  /\ Malformed \subseteq Event
  /\ FlushRecords \in Nat \ {0}
  /\ UseStore \in BOOLEAN
  /\ RebuildMayFail \in BOOLEAN
  /\ MaxSend \in Nat /\ MaxTime \in Nat /\ MaxStop \in Nat /\ MaxCrash \in Nat

VARIABLES
  queue,     \* broker: the persistent session's messages, the head in flight
  sent,      \* broker: messages accepted so far
  clock,     \* wall clock read by datetime.now
  phase,     \* main thread: "down", "running", "stopping", "draining", "exiting"
  stop,      \* the _stop event
  hand,      \* network thread: the stamped record of the current callback, or none
  handled,   \* network thread: the callback returned, PUBACK not yet sent
  seen,      \* self.seen
  buffer,    \* self._buffer, {} when the date has no key
  batch,     \* _flush_locked's local buffer: what is still to be written
  appending, \* ids written to Parquet whose dedup-store append is next
  lock,      \* who is flushing: "free", "net", "main", "exit"
  failing,   \* dates whose last write failed (_write_failures > 0)
  sizing,    \* main thread inside the unlocked _buffer_size_locked of _tick
  disk,      \* the Parquet file of each date
  store,     \* the dedup-store file
  stops,     \* stop signals so far
  crashes,   \* hard kills so far
  lost,      \* history: acknowledged events dropped with the process's memory
  degraded   \* history: a startup had to ignore the Parquet files

brokerVars == <<queue, sent, clock>>
threadVars == <<phase, stop, hand, handled, lock, sizing>>
memoryVars == <<seen, buffer, batch, appending, failing>>
fileVars   == <<disk, store>>
ghostVars  == <<stops, crashes, lost, degraded>>
vars == <<brokerVars, threadVars, memoryVars, fileVars, ghostVars>>

Rec == [event : Event, ts : Nat]
None == [event |-> "none"]            \* no callback is in progress
Empty == [d \in Date |-> {}]

\* partition_of: the partition of a record comes from its event_ts.
PartitionOf(r) == DateOf[r.event]

Events(R) == {r.event : r \in R}
All(f) == UNION {f[d] : d \in Date}
OnDisk == Events(All(disk))
InMemory == Events(All(buffer)) \cup Events(All(batch))
Queued == {queue[i] : i \in 1..Len(queue)}

\* Mutant: the threshold is tested before the append.
BufferSizeBefore(b) == Cardinality(All(b)) - 1

\* _buffer_size_locked: records in every partition of the buffer.
BufferSize(b) == Cardinality(All(b))

NetworkUp == phase \in {"running", "stopping"}

\* The network thread is between two messages and the broker has one for it.
CanDeliver ==
  NetworkUp /\ queue # <<>> /\ hand = None /\ ~handled /\ lock # "net"

-----------------------------------------------------------------------------
Init ==
  /\ queue = <<>> /\ sent = 0 /\ clock = 0
  /\ phase = "down" /\ stop = FALSE
  /\ hand = None /\ handled = FALSE
  /\ seen = {} /\ buffer = Empty /\ batch = Empty /\ appending = {}
  /\ lock = "free" /\ failing = {} /\ sizing = "no"
  /\ disk = Empty /\ store = {}
  /\ stops = 0 /\ crashes = 0 /\ lost = {} /\ degraded = FALSE

\* The edge publishes; QoS 1 lets the same event_id arrive more than once.
Publish(e) ==
  /\ sent < MaxSend
  /\ sent' = sent + 1
  /\ queue' = Append(queue, e)
  /\ UNCHANGED <<clock, threadVars, memoryVars, fileVars, ghostVars>>

ClockTick ==
  /\ clock < MaxTime
  /\ clock' = clock + 1
  /\ UNCHANGED <<queue, sent, threadVars, memoryVars, fileVars, ghostVars>>

-----------------------------------------------------------------------------
\* run: the dedup set is rebuilt, then the client connects and the loop starts.
StartWith(ids) ==
  /\ phase = "down"
  /\ phase' = "running"
  /\ seen' = ids
  /\ UNCHANGED <<brokerVars, stop, hand, handled, lock, sizing, buffer, batch,
                 appending, failing, fileVars, stops, crashes, lost>>

\* Mutant: the rebuild trusts the dedup store alone.
StoreIds == IF UseStore THEN store ELSE {}

\* rebuild_dedup: dedup store and Parquet ids together.
RebuiltIds == (IF UseStore THEN store ELSE {}) \cup OnDisk

Start ==
  /\ StartWith(RebuiltIds)
  /\ UNCHANGED degraded

\* rebuild_dedup when reading the Parquet files fails: the dedup store alone,
\* or nothing when that cannot be read either.
StartDegraded ==
  /\ RebuildMayFail
  /\ OnDisk # {}
  /\ \E ids \in {{}, IF UseStore THEN store ELSE {}} : StartWith(ids)
  /\ degraded' = TRUE

-----------------------------------------------------------------------------
\* handle_payload, before the lock: JSON and wire validation reject the payload.
RejectPayload ==
  /\ CanDeliver
  /\ Head(queue) \in Malformed
  /\ handled' = TRUE
  /\ UNCHANGED <<brokerVars, phase, stop, hand, lock, sizing, memoryVars,
                 fileVars, ghostVars>>

\* Mutants: the stamp of an earlier instant; the edge's own timestamp, which for
\* one event is older than its arrival.
StampEarly(e) == [event |-> e, ts |-> clock - 1]
StampOfEdge(e) ==
  [event |-> e, ts |-> IF e = CHOOSE x \in Event : TRUE THEN 0 ELSE clock]

\* inject_ingest_ts: ingest_ts is the wall clock of the consumer.
Stamp(e) == [event |-> e, ts |-> clock]

\* handle_payload, before the lock: validation passed, the record is stamped.
StampPayload ==
  /\ CanDeliver
  /\ Head(queue) \notin Malformed
  /\ hand' = Stamp(Head(queue))
  /\ UNCHANGED <<brokerVars, phase, stop, handled, lock, sizing, memoryVars,
                 fileVars, ghostVars>>

\* Mutant: the dedup looks at what is in memory only.
IsHeld(r) == r.event \in InMemory

IsDuplicate(r) == r.event \in seen

\* handle_payload, under the lock: an event_id already seen is dropped.
DropDuplicate ==
  /\ hand # None /\ lock = "free"
  /\ IsDuplicate(hand)
  /\ hand' = None /\ handled' = TRUE
  /\ UNCHANGED <<brokerVars, phase, stop, lock, sizing, memoryVars, fileVars,
                 ghostVars>>

\* A new key in the dictionary whose size the main thread is computing: the
\* iteration raises, unless it was already over.
GrownSizing(d) ==
  IF sizing = "reading" /\ buffer[d] = {} THEN "grown" ELSE sizing

\* _flush_locked, first lines: the buffer is swapped out for writing.
SwapOut(b, who) ==
  /\ batch' = b
  /\ buffer' = Empty
  /\ lock' = who

\* handle_payload, under the lock: a new record is buffered; at the threshold
\* the callback flushes before it returns.
BufferRecord ==
  /\ hand # None /\ lock = "free"
  /\ ~IsDuplicate(hand)
  /\ seen' = seen \cup {hand.event}
  /\ LET d == PartitionOf(hand)
         b == [buffer EXCEPT ![d] = @ \cup {hand}]
     IN IF BufferSize(b) >= FlushRecords
        THEN /\ SwapOut(b, "net")
             /\ sizing' = IF GrownSizing(d) = "reading" THEN "stale"
                                                        ELSE GrownSizing(d)
             /\ UNCHANGED handled
        ELSE /\ buffer' = b
             /\ sizing' = GrownSizing(d)
             /\ handled' = TRUE
             /\ UNCHANGED <<batch, lock>>
  /\ hand' = None
  /\ UNCHANGED <<brokerVars, phase, stop, appending, failing, fileVars, ghostVars>>

\* paho sends the PUBACK after the callback; the broker forgets the message.
Ack ==
  /\ NetworkUp /\ handled
  /\ handled' = FALSE
  /\ queue' = Tail(queue)
  /\ UNCHANGED <<sent, clock, phase, stop, hand, lock, sizing, memoryVars,
                 fileVars, ghostVars>>

\* The connection drops before the PUBACK: the broker delivers the head again.
ConnectionLost ==
  /\ NetworkUp /\ handled
  /\ handled' = FALSE
  /\ UNCHANGED <<brokerVars, phase, stop, hand, lock, sizing, memoryVars,
                 fileVars, ghostVars>>

-----------------------------------------------------------------------------
\* _write_partition: old rows plus new rows to a temp file, then os.replace.
WritePartition(d) ==
  /\ lock # "free" /\ batch[d] # {} /\ appending = {}
  /\ disk' = [disk EXCEPT ![d] = @ \cup batch[d]]
  /\ batch' = [batch EXCEPT ![d] = {}]
  /\ failing' = failing \ {d}
  /\ appending' = IF UseStore THEN Events(batch[d]) ELSE {}
  /\ UNCHANGED <<brokerVars, threadVars, seen, buffer, store, ghostVars>>

\* Mutant: the records of a failed write are forgotten.
Forget(d) == UNCHANGED buffer

PutBack(d) == buffer' = [buffer EXCEPT ![d] = @ \cup batch[d]]

\* _flush_locked, except branch: the records go back to the buffer for a retry.
WriteFails(d) ==
  /\ lock # "free" /\ batch[d] # {} /\ appending = {}
  /\ PutBack(d)
  /\ batch' = [batch EXCEPT ![d] = {}]
  /\ failing' = failing \cup {d}
  /\ sizing' = GrownSizing(d)
  /\ UNCHANGED <<brokerVars, phase, stop, hand, handled, lock, seen, appending, fileVars, ghostVars>>

\* _append_dedup_store, after the Parquet write; a failure is not blocking and
\* may leave any part of the lines behind.
AppendDedupStore ==
  /\ appending # {}
  /\ \E ids \in SUBSET appending : store' = store \cup ids
  /\ appending' = {}
  /\ UNCHANGED <<brokerVars, threadVars, seen, buffer, batch, failing, disk,
                 ghostVars>>

\* _flush_locked returns; in the network thread so does the callback.
FlushDone ==
  /\ lock # "free" /\ batch = Empty /\ appending = {}
  /\ lock' = "free"
  /\ handled' = (handled \/ lock = "net")
  /\ UNCHANGED <<brokerVars, phase, stop, hand, sizing, memoryVars, fileVars,
                 ghostVars>>

-----------------------------------------------------------------------------
\* _tick: the main thread starts to size the buffer without taking the lock.
TickBegin ==
  /\ phase = "running" /\ sizing = "no" /\ lock # "main"
  /\ buffer # Empty
  /\ sizing' = "reading"
  /\ UNCHANGED <<brokerVars, phase, stop, hand, handled, lock, memoryVars,
                 fileVars, ghostVars>>

\* _tick: a non-empty size and flush_seconds elapsed, so flush() takes the lock.
TickFlush ==
  /\ sizing # "no" /\ lock = "free"
  /\ sizing' = "no"
  /\ IF buffer = Empty THEN UNCHANGED <<buffer, batch, lock>>
                       ELSE SwapOut(buffer, "main")
  /\ UNCHANGED <<brokerVars, phase, stop, hand, handled, seen, appending,
                 failing, fileVars, ghostVars>>

\* _tick: flush_seconds not elapsed yet.
TickSkip ==
  /\ sizing # "no"
  /\ sizing' = "no"
  /\ UNCHANGED <<brokerVars, phase, stop, hand, handled, lock, memoryVars,
                 fileVars, ghostVars>>

\* _tick: a key was added during the iteration, a RuntimeError leaves run's loop.
TickRaises ==
  /\ sizing = "grown"
  /\ sizing' = "no"
  /\ phase' = "stopping"
  /\ UNCHANGED <<brokerVars, stop, hand, handled, lock, memoryVars, fileVars,
                 ghostVars>>

\* request_stop: SIGINT or SIGTERM.
RequestStop ==
  /\ phase = "running" /\ ~stop /\ stops < MaxStop
  /\ stop' = TRUE /\ stops' = stops + 1
  /\ UNCHANGED <<brokerVars, phase, hand, handled, lock, sizing, memoryVars,
                 fileVars, crashes, lost, degraded>>

\* run: the wait returns true, the loop ends and _shutdown is entered.
LeaveLoop ==
  /\ phase = "running" /\ stop /\ sizing = "no" /\ lock # "main"
  /\ phase' = "stopping"
  /\ UNCHANGED <<brokerVars, stop, hand, handled, lock, sizing, memoryVars,
                 fileVars, ghostVars>>

\* _shutdown: loop_stop joins the network thread, then the client disconnects.
StopNetwork ==
  /\ phase = "stopping" /\ hand = None /\ lock = "free"
  /\ phase' = "draining"
  /\ handled' = FALSE
  /\ UNCHANGED <<brokerVars, stop, hand, lock, sizing, memoryVars, fileVars,
                 ghostVars>>

\* Mutant: the process ends without the final flush.
NoFinalFlush ==
  /\ phase = "draining"
  /\ phase' = "exiting"
  /\ UNCHANGED <<brokerVars, stop, hand, handled, lock, sizing, memoryVars,
                 fileVars, ghostVars>>

\* _shutdown: the final flush.
FinalFlush ==
  /\ phase = "draining"
  /\ phase' = "exiting"
  /\ IF buffer = Empty THEN UNCHANGED <<buffer, batch, lock>>
                       ELSE SwapOut(buffer, "exit")
  /\ UNCHANGED <<brokerVars, stop, hand, handled, sizing, seen, appending,
                 failing, fileVars, ghostVars>>

\* The process is gone: its memory with it.
Die ==
  /\ phase' = "down" /\ stop' = FALSE
  /\ hand' = None /\ handled' = FALSE
  /\ seen' = {} /\ buffer' = Empty /\ batch' = Empty /\ appending' = {}
  /\ lock' = "free" /\ failing' = {} /\ sizing' = "no"
  /\ lost' = lost \cup ((InMemory \ OnDisk) \ Queued)

\* run returns; what a failed final flush put back is dropped.
Exit ==
  /\ phase = "exiting" /\ lock = "free"
  /\ Die
  /\ UNCHANGED <<brokerVars, fileVars, stops, crashes, degraded>>

\* SIGKILL, at any point.
Crash ==
  /\ phase # "down" /\ crashes < MaxCrash
  /\ crashes' = crashes + 1
  /\ Die
  /\ UNCHANGED <<brokerVars, fileVars, stops, degraded>>

-----------------------------------------------------------------------------
Callback == RejectPayload \/ StampPayload \/ DropDuplicate \/ BufferRecord
Flush == (\E d \in Date : WritePartition(d) \/ WriteFails(d))
         \/ AppendDedupStore \/ FlushDone
Tick == TickBegin \/ TickFlush \/ TickSkip \/ TickRaises
Shutdown == LeaveLoop \/ StopNetwork \/ FinalFlush \/ Exit

Next ==
  \/ \E e \in Event : Publish(e)
  \/ ClockTick
  \/ Start \/ StartDegraded
  \/ Callback \/ Ack \/ ConnectionLost
  \/ Flush \/ Tick \/ RequestStop \/ Shutdown
  \/ Crash

\* The operating system schedules both threads, the service is restarted, the
\* network does not drop every PUBACK and the disk does not refuse every write.
Fairness ==
  /\ WF_vars(Start)
  /\ WF_vars(Callback)
  /\ SF_vars(Ack)
  /\ \A d \in Date : SF_vars(WritePartition(d))
  /\ WF_vars(Flush)
  /\ WF_vars(TickBegin) /\ SF_vars(TickFlush) /\ WF_vars(TickRaises)
  /\ WF_vars(Shutdown)

Spec == Init /\ [][Next]_vars
FairSpec == Spec /\ Fairness

-----------------------------------------------------------------------------
TypeOK ==
  /\ queue \in Seq(Event) /\ sent \in Nat /\ clock \in Nat
  /\ phase \in {"down", "running", "stopping", "draining", "exiting"}
  /\ stop \in BOOLEAN
  /\ hand \in Rec \cup {None} /\ handled \in BOOLEAN
  /\ seen \subseteq Event
  /\ buffer \in [Date -> SUBSET Rec] /\ batch \in [Date -> SUBSET Rec]
  /\ appending \subseteq Event
  /\ lock \in {"free", "net", "main", "exit"} /\ failing \subseteq Date
  /\ sizing \in {"no", "reading", "stale", "grown"}
  /\ disk \in [Date -> SUBSET Rec] /\ store \subseteq Event
  /\ stops \in Nat /\ crashes \in Nat
  /\ lost \subseteq Event /\ degraded \in BOOLEAN

\* "exactly-once logico": whatever the broker redelivers and wherever the
\* process was killed, an event_id has one row in the raw files, as long as no
\* startup had to give up on reading them.
NoDuplicateOnDisk ==
  ~degraded =>
    \A r, s \in All(disk) : r.event = s.event => r = s

\* An id in the dedup set is on disk or still in memory: an id that were in
\* neither would make the redelivered event a "duplicate" of nothing.
SeenIsKept == seen \subseteq OnDisk \cup InMemory

\* The rows of a file arrived before the rows that still wait for it, also when
\* earlier writes failed: the order the backfill's cursor relies on.
DiskBeforeMemory ==
  \A d \in Date : \A r \in disk[d] :
    /\ \A s \in buffer[d] \cup batch[d] : r.ts <= s.ts
    /\ r.ts <= clock

\* A message the broker has forgotten and that is only in memory is one of at
\* most FlushRecords - 1, unless writes are failing.
AtRisk == (InMemory \ OnDisk) \ Queued
LossWindow == failing = {} => Cardinality(AtRisk) < FlushRecords

\* "Chiusura ordinata (SIGINT/SIGTERM): flush finale + stats, nessuna perdita", as
\* long as the final flush could write: what it puts back nobody flushes again.
OrderlyStopKeepsAll == [][Exit /\ failing = {} => lost' = lost]_vars

\* "il consumer non si ferma mai": only a signal makes it leave its loop.
StopsOnlyOnRequest == phase \in {"stopping", "draining", "exiting"} => stop

\* The raw files are the exactly-once, arrival-ordered log their readers rely
\* on (module RawLog), when a startup can always read them.
Log == INSTANCE RawLog WITH file <- disk
ImplementsRawLog == Log!LogSpec

\* Every valid message reaches the raw files, or was lost by a process that
\* died after acknowledging it and before its flush.
EventuallyStored ==
  \A e \in Event \ Malformed :
    (e \in Queued) ~> (e \in OnDisk \/ e \in lost)
=============================================================================
