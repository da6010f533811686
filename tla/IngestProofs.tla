---------------------------- MODULE IngestProofs ----------------------------
(***************************************************************************)
(* Proofs about the consumer: the raw files hold every event once and in   *)
(* arrival order, and the dedup set names nothing that is not held.        *)
(* The inductive invariant relates, date by date, the file, the buffer and *)
(* the batch being written.                                                *)
(***************************************************************************)
EXTENDS Ingest, FiniteSetTheorems, TLAPS

\* The network thread works on a message the broker still has.
NetInv ==
  /\ handled \/ hand # None \/ lock = "net" => queue # <<>>
  /\ handled => hand = None /\ lock # "net"
  /\ hand # None => lock # "net"

Memory(d) == buffer[d] \cup batch[d]
Rows(d) == disk[d] \cup Memory(d)

\* Outside a flush nothing waits to be written, in one the waiting records of a
\* date are in one place; a shutdown that has joined the network thread has no
\* callback and no flush of another thread; after the final flush only what could
\* not be written is in the buffer.
FlushInv ==
  /\ lock = "free" => appending = {} /\ \A d \in Date : batch[d] = {}
  /\ \A d \in Date : batch[d] = {} \/ buffer[d] = {}
  /\ phase \in {"draining", "exiting", "down"} => hand = None
  /\ phase \in {"stopping", "draining", "exiting", "down"} => sizing = "no"
  /\ phase \in {"draining", "down"} => lock = "free"
  /\ phase = "down" => \A d \in Date : buffer[d] = {}
  /\ phase = "exiting" => \A d \in Date : buffer[d] = {} \/ d \in failing

\* Stamps grow along file, memory and the record in hand.
OrderInv ==
  /\ \A d \in Date : \A r \in Rows(d) :
       r.ts <= clock /\ (hand # None => r.ts <= hand.ts)
  /\ \A d \in Date : \A r \in disk[d], s \in Memory(d) : r.ts <= s.ts
  /\ hand # None => hand.ts <= clock

PartitionInv == \A d \in Date : \A r \in Rows(d) : PartitionOf(r) = d

\* The dedup set covers what is held, and nothing else; so do the stored ids.
SeenInv ==
  /\ \A d \in Date : \A r \in Memory(d) : r.event \in seen
  /\ \A e \in seen : \E d \in Date : \E r \in Rows(d) : r.event = e
  /\ \A e \in store \cup appending : \E d \in Date : \E r \in disk[d] : r.event = e

\* Unless a startup had to ignore the files: no event twice.
OnceInv ==
  ~degraded =>
    /\ \A d \in Date : \A r, s \in Rows(d) : r.event = s.event => r = s
    /\ \A d \in Date : \A r \in disk[d], s \in Memory(d) : r.event # s.event
    /\ phase # "down" => \A d \in Date : \A r \in disk[d] : r.event \in seen

DegradedInv == degraded => RebuildMayFail

Contents == OrderInv /\ PartitionInv /\ SeenInv /\ OnceInv /\ DegradedInv

IInv == TypeOK /\ NetInv /\ FlushInv /\ Contents

-----------------------------------------------------------------------------
LEMMA EventsType ==
  ASSUME TypeOK
  PROVE  /\ OnDisk \subseteq Event /\ InMemory \subseteq Event
         /\ \A d \in Date : Events(batch[d]) \subseteq Event
  BY DEF TypeOK, OnDisk, InMemory, Events, All, Rec

LEMMA TypeInit == Init => TypeOK /\ NetInv
<1> SUFFICES ASSUME Init PROVE TypeOK /\ NetInv
  OBVIOUS
<1>1. <<>> \in Seq(Event) /\ Empty \in [Date -> SUBSET Rec]
  BY DEF Empty
<1> QED
  BY <1>1 DEF Init, TypeOK, NetInv

\* What a new record does to the buffer, and what swapping it out leaves.
LEMMA BufferType ==
  ASSUME TypeOK, NEW r \in Rec, NEW d \in Date
  PROVE  /\ [buffer EXCEPT ![d] = @ \cup {r}] \in [Date -> SUBSET Rec]
         /\ Empty \in [Date -> SUBSET Rec]
  BY DEF TypeOK, Empty

LEMMA TypeStep == TypeOK /\ NetInv /\ [Next]_vars => TypeOK' /\ NetInv'
<1> SUFFICES ASSUME TypeOK, NetInv, [Next]_vars PROVE TypeOK' /\ NetInv'
  OBVIOUS
<1> USE DEF brokerVars, threadVars, memoryVars, fileVars, ghostVars
<1>1. ASSUME NEW e \in Event, Publish(e) PROVE TypeOK' /\ NetInv'
  BY <1>1 DEF Publish, TypeOK, NetInv
<1>2. CASE ClockTick
  BY <1>2 DEF ClockTick, TypeOK, NetInv
<1>3. CASE Start \/ StartDegraded
  <2>1. PICK ids \in SUBSET Event : StartWith(ids)
    BY <1>3, EventsType DEF Start, StartDegraded, RebuiltIds, TypeOK
  <2>2. degraded' \in BOOLEAN
    BY <1>3 DEF Start, StartDegraded, RebuiltIds, TypeOK
  <2> QED
    BY <2>1, <2>2 DEF StartWith, TypeOK, NetInv
<1>4. CASE RejectPayload
  BY <1>4 DEF RejectPayload, CanDeliver, TypeOK, NetInv
<1>5. CASE StampPayload
  <2>1. Head(queue) \in Event
    BY <1>5 DEF StampPayload, CanDeliver, TypeOK
  <2>2. hand' \in Rec
    BY <1>5, <2>1 DEF StampPayload, Stamp, TypeOK, Rec
  <2> QED
    BY <1>5, <2>2 DEF StampPayload, CanDeliver, TypeOK, NetInv
<1>6. CASE DropDuplicate
  BY <1>6 DEF DropDuplicate, TypeOK, NetInv
<1>7. CASE BufferRecord
  <2>1. hand \in Rec /\ hand.event \in Event /\ PartitionOf(hand) \in Date
    BY <1>7, IngestAssumption DEF BufferRecord, TypeOK, Rec, PartitionOf
  <2> DEFINE d == PartitionOf(hand)
             b == [buffer EXCEPT ![d] = @ \cup {hand}]
  <2>2. b \in [Date -> SUBSET Rec] /\ Empty \in [Date -> SUBSET Rec]
    BY <2>1, BufferType
  <2>3. GrownSizing(d) \in {"no", "reading", "stale", "grown"}
    BY DEF GrownSizing, TypeOK
  <2>4. queue # <<>>
    BY <1>7 DEF BufferRecord, NetInv
  <2>5. /\ seen' = seen \cup {hand.event} /\ hand' = None
        /\ UNCHANGED <<brokerVars, phase, stop, appending, failing, fileVars,
                       ghostVars>>
    BY <1>7 DEF BufferRecord
  <2>6. CASE BufferSize(b) >= FlushRecords
    <3>1. /\ batch' = b /\ buffer' = Empty /\ lock' = "net"
          /\ handled' = handled
          /\ sizing' \in {"no", "reading", "stale", "grown"}
      BY <1>7, <2>3, <2>6 DEF BufferRecord, SwapOut
    <3> HIDE DEF b
    <3> QED
      BY <1>7, <2>1, <2>2, <2>4, <2>5, <3>1 DEF BufferRecord, TypeOK, NetInv
  <2>7. CASE ~(BufferSize(b) >= FlushRecords)
    <3>1. /\ buffer' = b /\ batch' = batch /\ lock' = lock /\ handled' = TRUE
          /\ sizing' \in {"no", "reading", "stale", "grown"}
      BY <1>7, <2>3, <2>7 DEF BufferRecord
    <3> HIDE DEF b
    <3> QED
      BY <1>7, <2>1, <2>2, <2>4, <2>5, <3>1 DEF BufferRecord, TypeOK, NetInv
  <2> QED
    BY <2>6, <2>7
<1>8. CASE Ack
  <2>1. queue # <<>> /\ Tail(queue) \in Seq(Event)
    BY <1>8 DEF Ack, TypeOK, NetInv
  <2> QED
    BY <1>8, <2>1 DEF Ack, TypeOK, NetInv
<1>9. CASE ConnectionLost
  BY <1>9 DEF ConnectionLost, TypeOK, NetInv
<1>10. ASSUME NEW d \in Date, WritePartition(d) PROVE TypeOK' /\ NetInv'
  <2>1. batch[d] \subseteq Rec /\ Events(batch[d]) \subseteq Event
    BY EventsType DEF TypeOK
  <2> QED
    BY <1>10, <2>1 DEF WritePartition, TypeOK, NetInv
<1>11. ASSUME NEW d \in Date, WriteFails(d) PROVE TypeOK' /\ NetInv'
  BY <1>11 DEF WriteFails, PutBack, GrownSizing, TypeOK, NetInv
<1>12. CASE AppendDedupStore
  BY <1>12 DEF AppendDedupStore, TypeOK, NetInv
<1>13. CASE FlushDone
  BY <1>13 DEF FlushDone, TypeOK, NetInv
<1>14. CASE TickBegin \/ TickSkip \/ TickRaises \/ RequestStop \/ LeaveLoop
            \/ StopNetwork
  <2>1. CASE TickBegin
    BY <2>1 DEF TickBegin, TypeOK, NetInv
  <2>2. CASE TickSkip
    BY <2>2 DEF TickSkip, TypeOK, NetInv
  <2>3. CASE TickRaises
    BY <2>3 DEF TickRaises, TypeOK, NetInv
  <2>4. CASE RequestStop
    BY <2>4 DEF RequestStop, TypeOK, NetInv
  <2>5. CASE LeaveLoop
    BY <2>5 DEF LeaveLoop, TypeOK, NetInv
  <2>6. CASE StopNetwork
    BY <2>6 DEF StopNetwork, TypeOK, NetInv
  <2> QED
    BY <1>14, <2>1, <2>2, <2>3, <2>4, <2>5, <2>6
<1>15. CASE TickFlush
  <2>1. Empty \in [Date -> SUBSET Rec]
    BY DEF Empty
  <2> QED
    BY <1>15, <2>1 DEF TickFlush, SwapOut, TypeOK, NetInv
<1>16. CASE FinalFlush
  <2>1. Empty \in [Date -> SUBSET Rec]
    BY DEF Empty
  <2>2. hand' = hand /\ queue' = queue /\ handled' = handled
    BY <1>16 DEF FinalFlush
  <2>3. lock' \in {lock, "exit"}
    BY <1>16 DEF FinalFlush, SwapOut
  <2> QED
    BY <1>16, <2>1, <2>2, <2>3 DEF FinalFlush, SwapOut, TypeOK, NetInv
<1>17. CASE Exit \/ Crash
  <2>1. Die /\ UNCHANGED <<brokerVars, fileVars, stops, degraded>>
    BY <1>17 DEF Exit, Crash
  <2>2. crashes' \in Nat
    BY <1>17 DEF Exit, Crash, TypeOK
  <2>3. Empty \in [Date -> SUBSET Rec] /\ lost' \subseteq Event
    BY <2>1, EventsType DEF Empty, Die, TypeOK
  <2> QED
    BY <2>1, <2>2, <2>3 DEF Die, TypeOK, NetInv
<1>18. CASE UNCHANGED vars
  BY <1>18 DEF vars, TypeOK, NetInv
<1> QED
  BY <1>1, <1>2, <1>3, <1>4, <1>5, <1>6, <1>7, <1>8, <1>9, <1>10, <1>11, <1>12,
     <1>13, <1>14, <1>15, <1>16, <1>17, <1>18
     DEF Next, Callback, Flush, Tick, Shutdown

\* Every reachable state of broker session, threads, buffer and files is well
\* typed.
THEOREM TypeCorrect == Spec => []TypeOK
<1>1. TypeOK /\ NetInv /\ [Next]_vars => (TypeOK /\ NetInv)'
  BY TypeStep
<1> QED
  BY <1>1, TypeInit, PTL DEF Spec

-----------------------------------------------------------------------------
LEMMA FlushInit == Init => FlushInv /\ Contents
  BY DEF Init, FlushInv, Contents, OrderInv, PartitionInv, SeenInv, OnceInv,
         DegradedInv, Rows, Memory, Empty

\* The control part of the invariant, action by action.
LEMMA FlushStep ==
  TypeOK /\ NetInv /\ FlushInv /\ [Next]_vars => FlushInv'
<1> SUFFICES ASSUME TypeOK, NetInv, FlushInv, [Next]_vars PROVE FlushInv'
  OBVIOUS
<1> USE DEF brokerVars, threadVars, memoryVars, fileVars, ghostVars
<1>1. ASSUME NEW e \in Event, Publish(e) PROVE FlushInv'
  BY <1>1 DEF Publish, FlushInv
<1>2. CASE ClockTick
  BY <1>2 DEF ClockTick, FlushInv
<1>3. CASE Start \/ StartDegraded
  BY <1>3 DEF Start, StartDegraded, StartWith, FlushInv
<1>4. CASE RejectPayload
  BY <1>4 DEF RejectPayload, FlushInv
<1>5. CASE StampPayload
  BY <1>5 DEF StampPayload, CanDeliver, NetworkUp, FlushInv
<1>6. CASE DropDuplicate
  BY <1>6 DEF DropDuplicate, FlushInv
<1>7. CASE BufferRecord
  <2>1. phase' = phase /\ phase \in {"running", "stopping"} /\ hand' = None
    BY <1>7 DEF BufferRecord, FlushInv, TypeOK
  <2>2. phase = "stopping" => sizing' = "no"
    BY <1>7 DEF BufferRecord, GrownSizing, FlushInv
  <2>3. lock' = "free" => batch' = batch /\ appending' = appending
                          /\ lock = "free"
    BY <1>7 DEF BufferRecord, SwapOut
  <2>4. \A d \in Date : batch'[d] = {} \/ buffer'[d] = {}
    <3>1. \A d \in Date : Empty[d] = {} /\ batch[d] = {}
      BY <1>7 DEF BufferRecord, FlushInv, Empty
    <3> QED
      BY <1>7, <3>1 DEF BufferRecord, SwapOut
  <2> QED
    BY <2>1, <2>2, <2>3, <2>4 DEF FlushInv
<1>8. CASE Ack \/ ConnectionLost
  BY <1>8 DEF Ack, ConnectionLost, FlushInv
<1>9. ASSUME NEW d \in Date, WritePartition(d) \/ WriteFails(d)
      PROVE FlushInv'
  BY <1>9 DEF WritePartition, WriteFails, PutBack, GrownSizing, FlushInv, TypeOK
<1>10. CASE AppendDedupStore
  BY <1>10 DEF AppendDedupStore, FlushInv
<1>11. CASE FlushDone
  <2>1. \A d \in Date : batch[d] = {}
    BY <1>11 DEF FlushDone, Empty
  <2> QED
    BY <1>11, <2>1 DEF FlushDone, FlushInv
<1>12. CASE TickBegin \/ TickSkip \/ TickRaises
  BY <1>12 DEF TickBegin, TickSkip, TickRaises, FlushInv, TypeOK
<1>13. CASE TickFlush
  <2>1. phase = "running" /\ phase' = phase
    BY <1>13 DEF TickFlush, FlushInv, TypeOK
  <2>2. CASE buffer = Empty
    BY <1>13, <2>1, <2>2 DEF TickFlush, FlushInv
  <2>3. CASE buffer # Empty
    <3>1. lock' = "main" /\ \A d \in Date : buffer'[d] = {}
      BY <1>13, <2>3 DEF TickFlush, SwapOut, Empty
    <3> QED
      BY <2>1, <3>1 DEF FlushInv
  <2> QED
    BY <2>2, <2>3
<1>14. CASE RequestStop \/ LeaveLoop \/ StopNetwork
  BY <1>14 DEF RequestStop, LeaveLoop, StopNetwork, FlushInv
<1>15. CASE FinalFlush
  <2>1. CASE buffer = Empty
    <3>1. \A d \in Date : buffer'[d] = {}
      BY <1>15, <2>1 DEF FinalFlush, Empty
    <3> QED
      BY <1>15, <2>1, <3>1 DEF FinalFlush, FlushInv
  <2>2. CASE buffer # Empty
    <3>1. /\ lock' = "exit" /\ \A d \in Date : buffer'[d] = {}
          /\ phase' = "exiting" /\ hand' = hand /\ sizing' = sizing
          /\ phase = "draining"
      BY <1>15, <2>2 DEF FinalFlush, SwapOut, Empty
    <3> QED
      BY <3>1 DEF FlushInv
  <2> QED
    BY <2>1, <2>2
<1>16. CASE Exit \/ Crash
  BY <1>16 DEF Exit, Crash, Die, Empty, FlushInv
<1>17. CASE UNCHANGED vars
  BY <1>17 DEF vars, FlushInv
<1> QED
  BY <1>1, <1>2, <1>3, <1>4, <1>5, <1>6, <1>7, <1>8, <1>9, <1>10, <1>11, <1>12,
     <1>13, <1>14, <1>15, <1>16, <1>17 DEF Next, Callback, Flush, Tick, Shutdown

-----------------------------------------------------------------------------
\* A step that moves no record in or out keeps what is said of the contents.
LEMMA ContentsKept ==
  ASSUME TypeOK, TypeOK', FlushInv, Contents,
         disk' = disk, seen' = seen, degraded' = degraded,
         store' \cup appending' \subseteq store \cup appending,
         clock' >= clock,
         hand' \in {hand, None} \/ hand'.ts = clock,
         phase' = phase \/ "down" \notin {phase, phase'},
         \A d \in Date : Memory(d)' = Memory(d)
  PROVE  Contents'
<1>1. \A d \in Date : Rows(d)' = Rows(d)
  BY DEF Rows
<1>2. \A d \in Date : Rows(d) \subseteq Rec /\ Memory(d) \subseteq Rec
  BY DEF Rows, Memory, TypeOK
<1>3. OrderInv'
  BY <1>1, <1>2 DEF Contents, OrderInv, TypeOK, Rec
<1>4. PartitionInv'
  BY <1>1 DEF Contents, PartitionInv, PartitionOf
<1>5. SeenInv'
  BY <1>1 DEF Contents, SeenInv
<1>6. OnceInv'
  BY <1>1 DEF Contents, OnceInv
<1> QED
  BY <1>3, <1>4, <1>5, <1>6 DEF Contents, DegradedInv

\* Swapping the buffer out for a flush: nothing was waiting, so memory is kept.
LEMMA SwapKeepsMemory ==
  ASSUME TypeOK, FlushInv, lock = "free", NEW who, SwapOut(buffer, who)
  PROVE  \A d \in Date : Memory(d)' = Memory(d)
  BY DEF FlushInv, SwapOut, Memory, Empty

\* A new record enters memory: it is stamped last and its id was not seen.
LEMMA BufferKeepsContents ==
  ASSUME TypeOK, TypeOK', FlushInv, Contents, BufferRecord
  PROVE  Contents'
<1> USE DEF brokerVars, fileVars, ghostVars
<1> DEFINE d0 == PartitionOf(hand)
           b == [buffer EXCEPT ![d0] = @ \cup {hand}]
<1>1. /\ hand # None /\ lock = "free" /\ hand.event \notin seen
      /\ hand' = None /\ seen' = seen \cup {hand.event}
      /\ UNCHANGED <<clock, phase, appending, disk, store, degraded>>
  BY DEF BufferRecord, IsDuplicate
<1>2. hand \in Rec /\ d0 \in Date /\ phase # "down"
  BY <1>1, IngestAssumption DEF TypeOK, Rec, PartitionOf, FlushInv
<1>3. \A d \in Date : Memory(d) = buffer[d]
  BY <1>1 DEF FlushInv, Memory
<1>4. \A d \in Date :
        Memory(d)' = IF d = d0 THEN Memory(d) \cup {hand} ELSE Memory(d)
  <2>1. \A d \in Date : b[d] = IF d = d0 THEN buffer[d] \cup {hand} ELSE buffer[d]
    BY <1>2 DEF TypeOK
  <2>2. CASE BufferSize(b) >= FlushRecords
    <3>1. batch' = b /\ buffer' = Empty
      BY <2>2 DEF BufferRecord, SwapOut
    <3> QED
      BY <3>1, <2>1, <1>3 DEF Memory, Empty
  <2>3. CASE ~(BufferSize(b) >= FlushRecords)
    <3>1. batch' = batch /\ buffer' = b
      BY <2>3 DEF BufferRecord
    <3> QED
      BY <3>1, <2>1, <1>1, <1>3 DEF Memory, FlushInv
  <2> QED
    BY <2>2, <2>3
<1> HIDE DEF d0, b
<1>5. \A d \in Date :
        Rows(d)' = IF d = d0 THEN Rows(d) \cup {hand} ELSE Rows(d)
  BY <1>1, <1>4 DEF Rows
<1>6. \A d \in Date : Rows(d) \subseteq Rec /\ disk[d] \subseteq Rows(d)
                      /\ Memory(d) \subseteq Rows(d)
  BY DEF Rows, Memory, TypeOK
<1>7. \A d \in Date : \A r \in Rows(d) : r.ts <= hand.ts
  BY <1>1 DEF Contents, OrderInv
<1>8. OrderInv'
  BY <1>1, <1>2, <1>4, <1>5, <1>6, <1>7 DEF Contents, OrderInv
<1>9. PartitionInv'
  BY <1>5, <1>1 DEF Contents, PartitionInv, PartitionOf, d0
<1>10. SeenInv'
  BY <1>1, <1>2, <1>4, <1>5 DEF Contents, SeenInv
<1>11. ASSUME ~degraded
       PROVE  \A d \in Date : \A r \in Rows(d) : r.event \in seen
  BY <1>2, <1>11 DEF Contents, OnceInv, SeenInv, Rows
<1>12. OnceInv'
  BY <1>1, <1>2, <1>4, <1>5, <1>6, <1>11 DEF Contents, OnceInv
<1> QED
  BY <1>8, <1>9, <1>10, <1>12, <1>1 DEF Contents, DegradedInv

\* A batch moves to its file: it is newer than the file and shares no id.
LEMMA WriteKeepsContents ==
  ASSUME TypeOK, TypeOK', Contents, FlushInv, NEW d0 \in Date, WritePartition(d0)
  PROVE  Contents'
<1> USE DEF brokerVars, threadVars, ghostVars
<1>1. /\ UNCHANGED <<clock, phase, hand, seen, store, degraded, buffer>>
      /\ appending' \subseteq Events(batch[d0])
      /\ \A d \in Date :
           /\ disk[d]' = IF d = d0 THEN disk[d] \cup batch[d] ELSE disk[d]
           /\ batch[d]' = IF d = d0 THEN {} ELSE batch[d]
  BY DEF WritePartition, TypeOK
<1>2. phase # "down"
  BY DEF WritePartition, FlushInv
<1>3. \A d \in Date : /\ Rows(d)' = Rows(d)
                      /\ disk[d]' \subseteq disk[d] \cup batch[d]
                      /\ disk[d] \subseteq disk[d]'
                      /\ Memory(d)' \subseteq Memory(d)
                      /\ Rows(d) \subseteq Rec
  BY <1>1 DEF Rows, Memory, TypeOK
<1>4. OrderInv'
  <2>1. \A d \in Date : \A r \in disk[d]', s \in Memory(d)' : r.ts <= s.ts
    <3> SUFFICES ASSUME NEW d \in Date, NEW r \in disk[d]', NEW s \in Memory(d)'
                 PROVE  r.ts <= s.ts
      OBVIOUS
    <3>1. s \in Memory(d)
      BY <1>3
    <3>2. CASE r \in disk[d]
      BY <3>1, <3>2 DEF Contents, OrderInv
    <3>3. CASE r \in batch[d] /\ d = d0
      BY <1>1, <3>3 DEF Memory, FlushInv
    <3> QED
      BY <1>1, <3>2, <3>3
  <2> QED
    BY <1>1, <1>3, <2>1 DEF Contents, OrderInv
<1>5. PartitionInv'
  BY <1>3 DEF Contents, PartitionInv, PartitionOf
<1>6. SeenInv'
  <2>1. \A e \in appending' : \E r \in disk[d0]' : r.event = e
    BY <1>1 DEF Events
  <2> QED
    BY <1>1, <1>3, <2>1 DEF Contents, SeenInv
<1>7. OnceInv'
  <2> SUFFICES ASSUME ~degraded PROVE
      /\ \A d \in Date : \A r \in disk[d]', s \in Memory(d)' : r.event # s.event
      /\ \A d \in Date : \A r \in disk[d]' : r.event \in seen
    BY <1>1, <1>3 DEF Contents, OnceInv
  <2>2. \A d \in Date : \A r \in disk[d]' : r.event \in seen
    BY <1>2, <1>3 DEF Contents, OnceInv, SeenInv, Memory
  <2>3. ASSUME NEW d \in Date, NEW r \in disk[d]', NEW s \in Memory(d)'
        PROVE  r.event # s.event
    <3>1. s \in Memory(d)
      BY <1>3
    <3>2. CASE r \in disk[d]
      BY <3>1, <3>2 DEF Contents, OnceInv
    <3>3. CASE r \in batch[d] /\ d = d0
      BY <1>1, <3>3 DEF Memory, FlushInv
    <3> QED
      BY <1>1, <3>2, <3>3
  <2> QED
    BY <2>2, <2>3
<1> QED
  BY <1>1, <1>4, <1>5, <1>6, <1>7 DEF Contents, DegradedInv

\* A startup rebuilds the dedup set from ids that are all on disk.
LEMMA StartKeepsContents ==
  ASSUME TypeOK, TypeOK', FlushInv, Contents, Start \/ StartDegraded
  PROVE  Contents'
<1> USE DEF brokerVars, fileVars
<1>1. /\ UNCHANGED <<clock, hand, store, disk, buffer, batch, appending>>
      /\ phase = "down"
  BY DEF Start, StartDegraded, StartWith
<1>2. \A d \in Date : /\ Memory(d) = {} /\ Memory(d)' = {}
                      /\ Rows(d)' = Rows(d) /\ Rows(d) = disk[d]
  BY <1>1 DEF FlushInv, Memory, Rows
<1>3. seen' \subseteq store \cup OnDisk
  BY DEF Start, StartDegraded, StartWith, RebuiltIds
<1>4. \A e \in OnDisk : \E d \in Date : \E r \in disk[d] : r.event = e
  BY DEF OnDisk, Events, All
<1>5. OrderInv'
  BY <1>1, <1>2 DEF Contents, OrderInv
<1>6. PartitionInv'
  BY <1>2 DEF Contents, PartitionInv, PartitionOf
<1>7. SeenInv'
  BY <1>1, <1>2, <1>3, <1>4 DEF Contents, SeenInv
<1>8. OnceInv' /\ DegradedInv'
  <2>1. CASE Start
    <3>1. degraded' = degraded
      BY <2>1 DEF Start
    <3>2. \A d \in Date : \A r \in disk[d] : r.event \in seen'
      BY <2>1 DEF Start, StartWith, RebuiltIds, OnDisk, Events, All
    <3> QED
      BY <1>1, <1>2, <3>1, <3>2 DEF Contents, OnceInv, DegradedInv
  <2>2. CASE StartDegraded
    BY <2>2 DEF StartDegraded, OnceInv, DegradedInv
  <2> QED
    BY <2>1, <2>2
<1> QED
  BY <1>5, <1>6, <1>7, <1>8 DEF Contents

\* The process dies: only the files are left.
LEMMA DieKeepsContents ==
  ASSUME TypeOK, TypeOK', Contents, Exit \/ Crash
  PROVE  Contents'
<1> USE DEF brokerVars, fileVars
<1>1. /\ UNCHANGED <<clock, disk, store, degraded>>
      /\ hand' = None /\ seen' = {} /\ appending' = {} /\ phase' = "down"
      /\ buffer' = Empty /\ batch' = Empty
  BY DEF Exit, Crash, Die
<1>2. \A d \in Date : Memory(d)' = {} /\ Rows(d)' = disk[d] /\ disk[d] \subseteq Rows(d)
  BY <1>1 DEF Memory, Rows, Empty
<1>3. OrderInv'
  BY <1>1, <1>2 DEF Contents, OrderInv
<1>4. PartitionInv' /\ SeenInv' /\ OnceInv'
  BY <1>1, <1>2 DEF Contents, PartitionInv, SeenInv, OnceInv, PartitionOf
<1> QED
  BY <1>1, <1>3, <1>4 DEF Contents, DegradedInv

LEMMA ContentsStep ==
  TypeOK /\ TypeOK' /\ NetInv /\ FlushInv /\ Contents /\ [Next]_vars => Contents'
<1> SUFFICES ASSUME TypeOK, TypeOK', NetInv, FlushInv, Contents, [Next]_vars
             PROVE  Contents'
  OBVIOUS
<1> USE DEF brokerVars, threadVars, memoryVars, fileVars, ghostVars
\* Steps that leave clock, contents and the dead phase alone.
<1>1. CASE /\ UNCHANGED <<clock, buffer, batch, appending, disk, store, seen,
                          degraded>>
           /\ hand' \in {hand, None}
           /\ phase' = phase \/ "down" \notin {phase, phase'}
  BY <1>1, ContentsKept DEF Memory, TypeOK
<1>2. ASSUME NEW e \in Event, Publish(e) PROVE Contents'
  BY <1>1, <1>2 DEF Publish
<1>3. CASE ClockTick
  BY <1>3, ContentsKept DEF ClockTick, Memory, TypeOK
<1>4. CASE Start \/ StartDegraded
  BY <1>4, StartKeepsContents
<1>5. CASE RejectPayload \/ DropDuplicate \/ Ack \/ ConnectionLost
  BY <1>1, <1>5 DEF RejectPayload, DropDuplicate, Ack, ConnectionLost
<1>6. CASE StampPayload
  <2>1. /\ UNCHANGED <<clock, buffer, batch, appending, disk, store, seen,
                       degraded, phase>>
        /\ hand'.ts = clock
    BY <1>6 DEF StampPayload, Stamp
  <2> QED
    BY <2>1, ContentsKept DEF Memory, TypeOK
<1>7. CASE BufferRecord
  BY <1>7, BufferKeepsContents
<1>8. ASSUME NEW d \in Date, WritePartition(d) PROVE Contents'
  BY <1>8, WriteKeepsContents
<1>9. ASSUME NEW d \in Date, WriteFails(d) PROVE Contents'
  <2>1. \A x \in Date : Memory(x)' = Memory(x)
    BY <1>9 DEF WriteFails, PutBack, Memory, TypeOK
  <2> QED
    BY <1>9, <2>1, ContentsKept DEF WriteFails, PutBack, TypeOK
<1>10. CASE AppendDedupStore
  BY <1>10, ContentsKept DEF AppendDedupStore, Memory, TypeOK
<1>11. CASE FlushDone
  BY <1>1, <1>11 DEF FlushDone
<1>12. CASE TickBegin \/ TickSkip \/ RequestStop
  BY <1>1, <1>12 DEF TickBegin, TickSkip, RequestStop
<1>13. CASE TickRaises \/ LeaveLoop \/ StopNetwork
  <2>1. phase # "down"
    BY <1>13 DEF TickRaises, LeaveLoop, StopNetwork, FlushInv
  <2> QED
    BY <1>1, <1>13, <2>1 DEF TickRaises, LeaveLoop, StopNetwork
<1>14. CASE TickFlush
  <2>1. CASE buffer = Empty
    BY <1>1, <1>14, <2>1 DEF TickFlush
  <2>2. CASE buffer # Empty
    <3>1. SwapOut(buffer, "main") /\ lock = "free"
      BY <1>14, <2>2 DEF TickFlush
    <3>2. \A d \in Date : Memory(d)' = Memory(d)
      BY <3>1, SwapKeepsMemory
    <3> QED
      BY <1>14, <3>2, ContentsKept DEF TickFlush, TypeOK
  <2> QED
    BY <2>1, <2>2
<1>15. CASE FinalFlush
  <2>1. CASE buffer = Empty
    BY <1>1, <1>15, <2>1 DEF FinalFlush
  <2>2. CASE buffer # Empty
    <3>1. SwapOut(buffer, "exit") /\ lock = "free"
      BY <1>15, <2>2 DEF FinalFlush, FlushInv
    <3>2. \A d \in Date : Memory(d)' = Memory(d)
      BY <3>1, SwapKeepsMemory
    <3> QED
      BY <1>15, <3>2, ContentsKept DEF FinalFlush, TypeOK
  <2> QED
    BY <2>1, <2>2
<1>16. CASE Exit \/ Crash
  BY <1>16, DieKeepsContents
<1>17. CASE UNCHANGED vars
  BY <1>1, <1>17 DEF vars
<1> QED
  BY <1>2, <1>3, <1>4, <1>5, <1>6, <1>7, <1>8, <1>9, <1>10, <1>11, <1>12,
     <1>13, <1>14, <1>15, <1>16, <1>17 DEF Next, Callback, Flush, Tick, Shutdown

-----------------------------------------------------------------------------
THEOREM Invariance == Spec => []IInv
<1>1. Init => IInv
  BY TypeInit, FlushInit DEF IInv
<1>2. IInv /\ [Next]_vars => IInv'
  BY TypeStep, FlushStep, ContentsStep DEF IInv
<1> QED
  BY <1>1, <1>2, PTL DEF Spec

\* handle_payload's dedup and rebuild_dedup together: one row per event_id in
\* all the raw files, through redeliveries, failed writes, kills and restarts.
THEOREM NoDuplicateOnDiskCorrect == Spec => []NoDuplicateOnDisk
<1>1. IInv => NoDuplicateOnDisk
  <2> SUFFICES ASSUME IInv, ~degraded, NEW d \in Date, NEW c \in Date,
                      NEW r \in disk[d], NEW s \in disk[c], r.event = s.event
               PROVE  r = s
    BY DEF NoDuplicateOnDisk, All
  <2>1. d = c
    BY DEF IInv, Contents, PartitionInv, PartitionOf, Rows
  <2> QED
    BY <2>1 DEF IInv, Contents, OnceInv, Rows
<1> QED
  BY <1>1, Invariance, PTL

\* No id in self.seen is in neither file nor memory, so a message dropped as a
\* duplicate is one the consumer holds.
THEOREM SeenIsKeptCorrect == Spec => []SeenIsKept
<1>1. IInv => SeenIsKept
  BY DEF IInv, Contents, SeenInv, SeenIsKept, OnDisk, InMemory, Events, All,
         Rows, Memory
<1> QED
  BY <1>1, Invariance, PTL

\* A file is always older than what waits for it: failed writes, put back and
\* retried, never let a later stamp overtake an earlier one.
THEOREM DiskBeforeMemoryCorrect == Spec => []DiskBeforeMemory
<1>1. IInv => DiskBeforeMemory
  BY DEF IInv, Contents, OrderInv, DiskBeforeMemory, Rows, Memory
<1> QED
  BY <1>1, Invariance, PTL

\* _shutdown's final flush leaves nothing behind unless one of its writes failed.
THEOREM OrderlyStopCorrect == Spec => OrderlyStopKeepsAll
<1>1. IInv /\ [Next]_vars => [Exit /\ failing = {} => lost' = lost]_vars
  <2> SUFFICES ASSUME IInv, Exit, failing = {} PROVE lost' = lost
    OBVIOUS
  <2>1. \A d \in Date : buffer[d] = {} /\ batch[d] = {}
    BY DEF Exit, IInv, FlushInv
  <2>2. InMemory = {}
    BY <2>1 DEF InMemory, Events, All
  <2>3. lost' = lost \cup ((InMemory \ OnDisk) \ Queued)
    BY DEF Exit, Die
  <2> QED
    BY <2>2, <2>3
<1> QED
  BY <1>1, Invariance, PTL DEF Spec, OrderlyStopKeepsAll

-----------------------------------------------------------------------------
\* What is in memory for the dates whose last write did not fail, less the record
\* of the message in flight while its own callback flushes.
Healthy == UNION {Memory(d) : d \in Date \ failing}
Acknowledged ==
  IF lock = "net" THEN {r \in Healthy : r.event # Head(queue)} ELSE Healthy

\* Below the threshold the buffer is small; at the threshold the callback of the
\* record that reached it flushes before its PUBACK.  Only the dates of failed
\* writes keep more.
SizeInv ==
  /\ IsFiniteSet(All(buffer)) /\ IsFiniteSet(All(batch))
  /\ lock # "free" => \A d \in Date : buffer[d] = {} \/ d \in failing
  /\ hand # None => hand.event = Head(queue)
  /\ Cardinality(Acknowledged) < FlushRecords

LEMMA SmallerSet ==
  ASSUME NEW S, NEW T, IsFiniteSet(S), T \subseteq S, Cardinality(S) < FlushRecords
  PROVE  Cardinality(T) < FlushRecords
<1>1. /\ Cardinality(T) <= Cardinality(S)
      /\ Cardinality(T) \in Nat /\ Cardinality(S) \in Nat
  BY FS_Subset, FS_CardinalityType
<1> QED
  BY <1>1, IngestAssumption

LEMMA NoMoreEventsThanRecords ==
  ASSUME NEW S, IsFiniteSet(S), Cardinality(S) < FlushRecords
  PROVE  IsFiniteSet(Events(S)) /\ Cardinality(Events(S)) < FlushRecords
<1> DEFINE f == [r \in S |-> r.event]
<1>1. f \in Surjection(S, Events(S))
  BY DEF Surjection, Events
<1>2. IsFiniteSet(Events(S)) /\ Cardinality(Events(S)) <= Cardinality(S)
  BY <1>1, FS_Surjection
<1> QED
  BY <1>2, FS_CardinalityType, IngestAssumption

LEMMA EmptyAll == All(Empty) = {} /\ IsFiniteSet({}) /\ Cardinality({}) = 0
  BY FS_EmptySet DEF All, Empty

LEMMA HealthyFinite ==
  ASSUME SizeInv
  PROVE  /\ IsFiniteSet(Healthy) /\ IsFiniteSet(Acknowledged)
         /\ Acknowledged \subseteq Healthy
<1>1. Healthy \subseteq All(buffer) \cup All(batch)
  BY DEF Healthy, Memory, All
<1>2. IsFiniteSet(All(buffer) \cup All(batch))
  BY FS_Union DEF SizeInv
<1>3. Acknowledged \subseteq Healthy
  BY DEF Acknowledged
<1> QED
  BY <1>1, <1>2, <1>3, FS_Subset

\* Nothing new is at risk when no record enters the memory of a healthy date.
LEMMA SizeKept ==
  ASSUME SizeInv, Acknowledged' \subseteq Acknowledged
  PROVE  Cardinality(Acknowledged)' < FlushRecords
  BY HealthyFinite, SmallerSet DEF SizeInv

\* handle_payload: the record that makes the buffer reach the threshold is
\* flushed by its own callback, before the broker may forget its message.
LEMMA BufferKeepsSize ==
  ASSUME TypeOK, TypeOK', NetInv, FlushInv, SizeInv, BufferRecord
  PROVE  SizeInv'
<1> USE DEF brokerVars, fileVars, ghostVars
<1> DEFINE d0 == PartitionOf(hand)
           b == [buffer EXCEPT ![d0] = @ \cup {hand}]
<1>1. /\ hand # None /\ lock = "free" /\ hand' = None
      /\ queue' = queue /\ failing' = failing /\ d0 \in Date
      /\ hand.event = Head(queue)
  BY IngestAssumption DEF BufferRecord, TypeOK, Rec, PartitionOf, SizeInv
<1>2. \A d \in Date : /\ batch[d] = {}
                      /\ b[d] = IF d = d0 THEN buffer[d] \cup {hand} ELSE buffer[d]
  BY <1>1 DEF FlushInv, TypeOK
<1>3. All(b) = All(buffer) \cup {hand}
  <2> HIDE DEF b, d0
  <2>1. /\ d0 \in Date /\ b[d0] = buffer[d0] \cup {hand}
        /\ \A d \in Date : d # d0 => b[d] = buffer[d]
    BY <1>1, <1>2
  <2>2. ASSUME NEW y \in All(b) PROVE y \in All(buffer) \cup {hand}
    BY <2>1, <2>2 DEF All
  <2>3. ASSUME NEW y \in All(buffer) PROVE y \in All(b)
    <3>1. PICK d \in Date : y \in buffer[d]
      BY <2>3 DEF All
    <3>2. y \in b[d]
      BY <2>1, <3>1
    <3> QED
      BY <3>2 DEF All
  <2>4. hand \in All(b)
    BY <2>1 DEF All
  <2> QED
    BY <2>2, <2>3, <2>4
<1>4. IsFiniteSet(All(b))
  BY <1>3, FS_AddElement DEF SizeInv
<1>5. CASE BufferSize(b) >= FlushRecords
  <2>1. batch' = b /\ buffer' = Empty /\ lock' = "net"
    BY <1>5 DEF BufferRecord, SwapOut
  <2> HIDE DEF b, d0
  <2>2. \A d \in Date : buffer'[d] = {}
    BY <2>1 DEF Empty
  <2>3. Healthy' \subseteq Healthy \cup {hand}
    <3>1. \A d \in Date : Memory(d)' \subseteq Memory(d) \cup {hand}
      BY <1>2, <2>1, <2>2 DEF Memory
    <3>2. ASSUME NEW y \in Healthy' PROVE y \in Healthy \cup {hand}
      <4>1. PICK d \in Date \ failing : y \in Memory(d)'
        BY <1>1, <3>2 DEF Healthy
      <4> QED
        BY <3>1, <4>1 DEF Healthy
    <3> QED
      BY <3>2
  <2>4. Acknowledged' = {r \in Healthy' : r.event # Head(queue)}
    BY <1>1, <2>1 DEF Acknowledged
  <2>5. Acknowledged = Healthy
    BY <1>1 DEF Acknowledged
  <2>6. Acknowledged' \subseteq Acknowledged
    BY <2>3, <2>4, <2>5, <1>1
  <2>7. All(buffer)' = {} /\ All(batch)' = All(b)
    BY <2>1, EmptyAll DEF All
  <2> QED
    BY <1>1, <1>4, <2>2, <2>6, <2>7, SizeKept, EmptyAll DEF SizeInv
<1>6. CASE ~(BufferSize(b) >= FlushRecords)
  <2>1. batch' = batch /\ buffer' = b /\ lock' = lock
    BY <1>6 DEF BufferRecord
  <2> HIDE DEF b, d0
  <2>2. Cardinality(All(b)) < FlushRecords
    BY <1>4, <1>6, FS_CardinalityType, IngestAssumption DEF BufferSize
  <2>3. Healthy' \subseteq All(b)
    BY <1>2, <2>1 DEF Healthy, Memory, All
  <2>4. Acknowledged' = Healthy'
    BY <1>1, <2>1 DEF Acknowledged
  <2>5. All(buffer)' = All(b) /\ All(batch)' = {}
    BY <1>2, <2>1 DEF All
  <2>6. Cardinality(Acknowledged') < FlushRecords
    BY <1>4, <2>2, <2>3, <2>4, SmallerSet
  <2> QED
    BY <1>1, <1>4, <2>1, <2>5, <2>6, EmptyAll DEF SizeInv
<1> QED
  BY <1>5, <1>6

LEMMA SizeInit == Init => SizeInv
<1> SUFFICES ASSUME Init PROVE SizeInv
  OBVIOUS
<1>1. \A d \in Date : Memory(d) = {}
  BY DEF Init, Memory, Empty
<1>2. Healthy = {} /\ Acknowledged = {}
  BY <1>1 DEF Healthy, Acknowledged
<1> QED
  BY <1>2, EmptyAll, IngestAssumption DEF Init, SizeInv

LEMMA SizeStep ==
  TypeOK /\ TypeOK' /\ NetInv /\ FlushInv /\ SizeInv /\ [Next]_vars => SizeInv'
<1> SUFFICES ASSUME TypeOK, TypeOK', NetInv, FlushInv, SizeInv, [Next]_vars
             PROVE  SizeInv'
  OBVIOUS
<1> USE DEF brokerVars, threadVars, memoryVars, fileVars, ghostVars
\* Steps that leave the records where they are.
<1>1. CASE /\ UNCHANGED <<buffer, batch, lock, failing>>
           /\ hand' # None => hand'.event = Head(queue')
           /\ lock = "net" => Head(queue') = Head(queue)
  <2>1. Healthy' = Healthy
    BY <1>1 DEF Healthy, Memory
  <2>2. Acknowledged' = Acknowledged
    BY <1>1, <2>1 DEF Acknowledged
  <2>3. All(buffer)' = All(buffer) /\ All(batch)' = All(batch)
    BY <1>1 DEF All
  <2> QED
    BY <1>1, <2>2, <2>3 DEF SizeInv
<1>2. ASSUME NEW e \in Event, Publish(e) PROVE SizeInv'
  <2>1. queue # <<>> => Head(queue') = Head(queue)
    BY <1>2 DEF Publish, TypeOK
  <2> QED
    BY <1>1, <1>2, <2>1 DEF Publish, NetInv, SizeInv
<1>3. CASE \/ ClockTick \/ Start \/ StartDegraded \/ RejectPayload
           \/ DropDuplicate \/ ConnectionLost \/ AppendDedupStore
  BY <1>1, <1>3 DEF ClockTick, Start, StartDegraded, StartWith, RejectPayload,
     DropDuplicate, ConnectionLost, AppendDedupStore, SizeInv
<1>4. CASE StampPayload
  BY <1>1, <1>4 DEF StampPayload, Stamp
<1>5. CASE BufferRecord
  BY <1>5, BufferKeepsSize
<1>6. CASE Ack
  <2>1. hand' = None /\ lock # "net"
    BY <1>6 DEF Ack, NetInv
  <2> QED
    BY <1>1, <1>6, <2>1 DEF Ack
<1>7. ASSUME NEW d \in Date, WritePartition(d) PROVE SizeInv'
  <2>1. /\ UNCHANGED <<buffer, lock, queue, hand>>
        /\ failing' = failing \ {d} /\ buffer[d] = {}
        /\ \A c \in Date : batch[c]' = IF c = d THEN {} ELSE batch[c]
    BY <1>7 DEF WritePartition, FlushInv, TypeOK
  <2>2. Healthy' \subseteq Healthy /\ All(batch)' \subseteq All(batch)
    BY <2>1 DEF Healthy, Memory, All
  <2>3. Acknowledged' \subseteq Acknowledged /\ All(buffer)' = All(buffer)
    BY <2>1, <2>2 DEF Acknowledged, All
  <2> QED
    BY <2>1, <2>2, <2>3, SizeKept, FS_Subset DEF SizeInv
<1>8. ASSUME NEW d \in Date, WriteFails(d) PROVE SizeInv'
  <2>1. /\ UNCHANGED <<lock, queue, hand>>
        /\ failing' = failing \cup {d}
        /\ \A c \in Date :
             /\ batch[c]' = IF c = d THEN {} ELSE batch[c]
             /\ buffer[c]' = IF c = d THEN buffer[c] \cup batch[c] ELSE buffer[c]
    BY <1>8 DEF WriteFails, PutBack, TypeOK
  <2>2. /\ Healthy' \subseteq Healthy /\ All(batch)' \subseteq All(batch)
        /\ All(buffer)' \subseteq All(buffer) \cup All(batch)
    BY <2>1 DEF Healthy, Memory, All
  <2>3. Acknowledged' \subseteq Acknowledged
    BY <2>1, <2>2 DEF Acknowledged
  <2>4. IsFiniteSet(All(buffer)') /\ IsFiniteSet(All(batch)')
    BY <2>2, FS_Subset, FS_Union DEF SizeInv
  <2> QED
    BY <2>1, <2>3, <2>4, SizeKept DEF SizeInv
<1>9. CASE FlushDone
  <2>1. /\ UNCHANGED <<buffer, batch, failing, queue, hand>> /\ lock' = "free"
        /\ \A d \in Date \ failing : Memory(d)' = {}
    BY <1>9 DEF FlushDone, SizeInv, Memory, Empty
  <2>2. Healthy' = {}
    BY <2>1 DEF Healthy
  <2>3. Acknowledged' \subseteq Acknowledged
    BY <2>2 DEF Acknowledged
  <2>4. All(buffer)' = All(buffer) /\ All(batch)' = All(batch)
    BY <2>1 DEF All
  <2> QED
    BY <2>1, <2>3, <2>4, SizeKept DEF SizeInv
<1>10. CASE \/ TickBegin \/ TickSkip \/ TickRaises \/ RequestStop \/ LeaveLoop
            \/ StopNetwork \/ UNCHANGED vars
  BY <1>1, <1>10 DEF TickBegin, TickSkip, TickRaises, RequestStop, LeaveLoop,
     StopNetwork, vars, SizeInv
<1>11. ASSUME NEW who, who # "net", lock = "free", SwapOut(buffer, who),
              UNCHANGED <<queue, hand, failing>>
       PROVE  SizeInv'
  <2>1. /\ batch' = buffer /\ lock' = who
        /\ \A d \in Date : buffer'[d] = {} /\ Memory(d)' = Memory(d)
    BY <1>11, SwapKeepsMemory DEF SwapOut, Empty
  <2>2. Healthy' = Healthy
    BY <1>11, <2>1 DEF Healthy
  <2>3. Acknowledged' \subseteq Acknowledged
    BY <1>11, <2>1, <2>2 DEF Acknowledged
  <2>4. All(buffer)' = {} /\ All(batch)' = All(buffer)
    BY <2>1 DEF All
  <2> QED
    BY <1>11, <2>1, <2>3, <2>4, SizeKept, EmptyAll DEF SizeInv
<1>12. CASE TickFlush
  BY <1>1, <1>11, <1>12 DEF TickFlush, SizeInv
<1>13. CASE FinalFlush
  <2>1. lock = "free"
    BY <1>13 DEF FinalFlush, FlushInv
  <2> QED
    BY <1>1, <1>11, <1>13, <2>1 DEF FinalFlush, SizeInv
<1>14. CASE Exit \/ Crash
  <2>1. /\ lock' = "free" /\ hand' = None
        /\ \A d \in Date : Memory(d)' = {}
        /\ buffer' = Empty /\ batch' = Empty
    BY <1>14 DEF Exit, Crash, Die, Memory, Empty
  <2>2. Healthy' = {}
    BY <2>1 DEF Healthy
  <2>3. Acknowledged' = {}
    BY <2>2 DEF Acknowledged
  <2>4. All(buffer)' = {} /\ All(batch)' = {}
    BY <2>1, EmptyAll DEF All
  <2> QED
    BY <2>1, <2>3, <2>4, EmptyAll, IngestAssumption DEF SizeInv
<1> QED
  BY <1>2, <1>3, <1>4, <1>5, <1>6, <1>7, <1>8, <1>9, <1>10, <1>12, <1>13, <1>14
     DEF Next, Callback, Flush, Tick, Shutdown

\* The records that a kill would lose for good, acknowledged and not yet on
\* disk, are fewer than flush_records as long as no write is failing: the
\* callback that reaches the threshold writes before paho sends its PUBACK.
THEOREM LossWindowCorrect == Spec => []LossWindow
<1> DEFINE J == IInv /\ SizeInv
<1>1. Init => J
  BY TypeInit, FlushInit, SizeInit DEF IInv
<1>2. J /\ [Next]_vars => J'
  BY TypeStep, FlushStep, ContentsStep, SizeStep DEF IInv
<1>3. J => LossWindow
  <2> SUFFICES ASSUME IInv, SizeInv, failing = {}
               PROVE  Cardinality(AtRisk) < FlushRecords
    BY DEF LossWindow
  <2>1. AtRisk \subseteq Events(Acknowledged)
    <3> SUFFICES ASSUME NEW e \in AtRisk PROVE e \in Events(Acknowledged)
      OBVIOUS
    <3>1. PICK d \in Date : \E r \in Memory(d) : r.event = e
      BY DEF AtRisk, InMemory, Events, All, Memory
    <3>2. PICK r \in Healthy : r.event = e
      BY <3>1 DEF Healthy
    <3>3. lock = "net" => Head(queue) \in Queued
      BY DEF IInv, NetInv, TypeOK, Queued
    <3>4. r \in Acknowledged
      BY <3>2, <3>3 DEF AtRisk, Acknowledged
    <3> QED
      BY <3>2, <3>4 DEF Events
  <2>2. /\ IsFiniteSet(Events(Acknowledged))
        /\ Cardinality(Events(Acknowledged)) < FlushRecords
    BY HealthyFinite, NoMoreEventsThanRecords DEF SizeInv
  <2> QED
    BY <2>1, <2>2, SmallerSet
<1> HIDE DEF J
<1> QED
  BY <1>1, <1>2, <1>3, PTL DEF Spec

-----------------------------------------------------------------------------
\* Only _write_partition touches a file, and it is an append of the log.
LEMMA LogStep ==
  ASSUME ~RebuildMayFail, IInv, [Next]_vars
  PROVE  [Log!LogNext]_disk
<1> USE DEF brokerVars, threadVars, memoryVars, fileVars, ghostVars
<1>1. ASSUME NEW d \in Date, WritePartition(d) PROVE Log!LogNext
  <2> DEFINE R == disk'[d] \ disk[d]
  <2>1. /\ TypeOK /\ FlushInv /\ ~degraded /\ batch[d] # {}
        /\ disk' = [disk EXCEPT ![d] = @ \cup batch[d]]
        /\ disk[d] \in SUBSET Rec /\ batch[d] \in SUBSET Rec
        /\ disk'[d] = disk[d] \cup batch[d]
        /\ Events(batch[d]) \subseteq Event
    BY <1>1 DEF WritePartition, IInv, Contents, DegradedInv, TypeOK, Events, Rec
  <2>2. \A r \in batch[d], s \in disk[d] : r # s
    BY <2>1 DEF IInv, Contents, OnceInv, Memory
  <2>3. R = batch[d]
    BY <2>1, <2>2
  <2> HIDE DEF R
  <2>4. R # {} /\ R \subseteq Log!Row
    BY <2>1, <2>3 DEF Log!Row, Rec
  <2>5. \A r \in R : PartitionOf(r) = d
    BY <2>3 DEF IInv, Contents, PartitionInv, Rows, Memory
  <2>6. \A r \in R : r.event \notin Log!Stored
    <3> SUFFICES ASSUME NEW r \in R, NEW c \in Date, NEW s \in disk[c],
                        r.event = s.event
                 PROVE  FALSE
      BY DEF Log!Stored
    <3>1. PartitionOf(s) = c /\ PartitionOf(s) = PartitionOf(r)
      BY DEF IInv, Contents, PartitionInv, Rows, PartitionOf
    <3> QED
      BY <3>1, <2>1, <2>3, <2>5 DEF IInv, Contents, OnceInv, Memory
  <2>7. \A r, s \in R : r.event = s.event => r = s
    BY <2>1, <2>3 DEF IInv, Contents, OnceInv, Rows, Memory
  <2>8. \A r \in R, s \in disk[d] : s.ts <= r.ts
    BY <2>3 DEF IInv, Contents, OrderInv, Memory
  <2>9. disk' = [disk EXCEPT ![d] = @ \cup R]
    BY <2>1, <2>3
  <2>10. Log!AppendRows(d, R)
    BY <2>4, <2>5, <2>6, <2>7, <2>8, <2>9 DEF Log!AppendRows, PartitionOf
  <2> QED
    BY <2>10 DEF Log!LogNext, R
<1>2. CASE UNCHANGED vars
  BY <1>2 DEF vars
<1>3. CASE Next /\ ~\E d \in Date : WritePartition(d)
  <2>1. disk' = disk
    <3>1. CASE \/ \E e \in Event : Publish(e)
               \/ ClockTick \/ Start \/ StartDegraded
      BY <3>1 DEF Publish, ClockTick, Start, StartDegraded, StartWith
    <3>2. CASE Callback \/ Ack \/ ConnectionLost
      BY <3>2 DEF Callback, RejectPayload, StampPayload, DropDuplicate,
                  BufferRecord, Ack, ConnectionLost
    <3>3. CASE \/ \E d \in Date : WriteFails(d)
               \/ AppendDedupStore \/ FlushDone
      BY <3>3 DEF WriteFails, PutBack, AppendDedupStore, FlushDone
    <3>4. CASE Tick \/ RequestStop
      BY <3>4 DEF Tick, TickBegin, TickFlush, TickSkip, TickRaises, RequestStop
    <3>5. CASE Shutdown \/ Crash
      BY <3>5 DEF Shutdown, LeaveLoop, StopNetwork, FinalFlush, Exit, Crash
    <3> QED
      BY <1>3, <3>1, <3>2, <3>3, <3>4, <3>5 DEF Next, Flush
  <2> QED
    BY <2>1
<1> QED
  BY <1>1, <1>2, <1>3

\* When a startup can always read the raw files, the consumer implements the
\* log its readers rely on: append only, one row per event, in arrival order.
THEOREM Refinement ==
  ASSUME ~RebuildMayFail
  PROVE  Spec => ImplementsRawLog
<1>1. Init => Log!LogInit
  BY DEF Init, Log!LogInit, Empty
<1>2. IInv /\ [Next]_vars => [Log!LogNext]_disk
  BY LogStep
<1> QED
  BY <1>1, <1>2, Invariance, PTL DEF Spec, ImplementsRawLog, Log!LogSpec
=============================================================================
