--------------------------- MODULE BackfillProofs ---------------------------
(***************************************************************************)
(* Proofs about the incremental backfill.  The main theorem says that the  *)
(* cursor skips no row when every backfill covers all valves; module       *)
(* Backfill's run with a --valve filter shows why the condition is needed. *)
(***************************************************************************)
EXTENDS Backfill, TLAPS

\* A snapshot R of the file F: part of it, and what is not in it came later.
Snapshot(R, F) ==
  /\ R \subseteq F
  /\ \A r \in F : r \in R \/ \A s \in R : s.ts <= r.ts

\* A cursor value m of the file F is that of one of its rows, and the rows before
\* it have a key in K or are among the rows R still to be inserted.
Advance(m, R, F, K) ==
  m # NoCursor =>
    /\ \E s \in F : s.ts = m
    /\ \A r \in F : r.ts < m => r \in R \/ RowKey(r) \in K

JobSound ==
  \A j \in Job :
    /\ job[j].pc = "loaded" => Snapshot(job[j].rows, file[job[j].date])
    /\ job[j].pc = "inserting" =>
         Advance(job[j].mark, job[j].rows, file[job[j].date], Keys(cycles))

CursorSound == \A d \in Date : Advance(cursor[d], {}, file[d], Keys(cycles))

IInv == TypeOK /\ JobSound /\ CursorSound

-----------------------------------------------------------------------------
\* A flush adds rows of the right type to the file of its date.
LEMMA ArriveFile ==
  ASSUME NEW d \in Date, Arrive(d), TypeOK
  PROVE  \E R \in SUBSET Row :
           /\ file' = [file EXCEPT ![d] = @ \cup R]
           /\ \A r \in R, s \in file[d] : s.ts <= r.ts
  BY DEF Arrive, AppendRows

\* The state a backfill process is in when it is not off.
LEMMA BusyType ==
  ASSUME TypeOK, NEW j \in Job, job[j].pc # "off"
  PROVE  /\ job[j].pc \in {"loaded", "inserting"}
         /\ job[j].date \in Date
         /\ job[j].rows \in SUBSET Row
         /\ job[j].mark \in Mark
         /\ job[j] = Busy(job[j].pc, job[j].date, job[j].rows, job[j].mark)
  BY DEF TypeOK, JobState, Off, Busy

\* Storing a well-typed process state keeps job well typed.
LEMMA JobUpdate ==
  ASSUME job \in [Job -> JobState], NEW j \in Job,
         NEW pc \in {"loaded", "inserting"}, NEW d \in Date,
         NEW R \in SUBSET Row, NEW m \in Mark
  PROVE  [job EXCEPT ![j] = Busy(pc, d, R, m)] \in [Job -> JobState]
  BY DEF JobState, Busy

\* Reading a file stores rows of the file in the process.
LEMMA LoadType ==
  ASSUME TypeOK, NEW j \in Job, NEW d \in Date, NEW v, Load(j, d, v)
  PROVE  job' \in [Job -> JobState]
<1>1. Frame(d, v) \in SUBSET Row
  BY DEF Frame, TypeOK
<1>2. job' = [job EXCEPT ![j] = Busy("loaded", d, Frame(d, v), NoCursor)]
  BY DEF Load
<1> QED
  BY <1>1, <1>2, JobUpdate DEF TypeOK, Mark

LEMMA TypeInit == Init => TypeOK
  BY DEF Init, LogInit, TypeOK, JobState, Off, Mark, NoCursor

LEMMA TypeStep == TypeOK /\ [Next]_vars => TypeOK'
<1> SUFFICES ASSUME TypeOK, [Next]_vars PROVE TypeOK'
  OBVIOUS
<1>1. ASSUME NEW d \in Date, Arrive(d) PROVE TypeOK'
  <2>1. file' \in [Date -> SUBSET Row]
    BY <1>1, ArriveFile DEF TypeOK
  <2> QED
    BY <1>1, <2>1 DEF Arrive, TypeOK, supVars
<1>2. ASSUME NEW d \in Date, Launch(d) PROVE TypeOK'
  BY <1>2 DEF Launch, TypeOK
<1>3. ASSUME NEW d \in Date, NEW v \in ValveFilters, ManualBackfill(d, v)
      PROVE TypeOK'
  <2>1. job' \in [Job -> JobState]
    BY <1>3, LoadType DEF ManualBackfill, Job
  <2> QED
    BY <1>3, <2>1 DEF ManualBackfill, TypeOK, supVars
<1>4. ASSUME NEW j \in Job, ReadCursor(j) PROVE TypeOK'
  <2> DEFINE R == Pending(job[j].rows, cursor[job[j].date])
  <2>1. PICK m \in {r.ts : r \in R} \cup {NoCursor} :
          job' = [job EXCEPT ![j] = Busy("inserting", job[j].date, R, m)]
    BY <1>4 DEF ReadCursor
  <2>2. job[j].date \in Date /\ job[j].rows \in SUBSET Row
    BY <1>4, BusyType DEF ReadCursor
  <2>3. R \in SUBSET Row /\ m \in Mark
    BY <2>1, <2>2 DEF Pending, Row, Mark
  <2>4. job' \in [Job -> JobState]
    BY <2>1, <2>2, <2>3, JobUpdate DEF TypeOK
  <2> QED
    BY <1>4, <2>4 DEF ReadCursor, TypeOK, supVars
<1>5. ASSUME NEW j \in Job, InsertChunk(j) PROVE TypeOK'
  <2>1. PICK chunk \in SUBSET job[j].rows :
          /\ cycles' = cycles \cup {r \in chunk : RowKey(r) \notin Keys(cycles)}
          /\ job' = [job EXCEPT ![j].rows = @ \ chunk]
    BY <1>5 DEF InsertChunk
  <2>2. /\ job[j].date \in Date /\ job[j].rows \in SUBSET Row
        /\ job[j].mark \in Mark /\ job[j].pc = "inserting"
        /\ job[j] = Busy("inserting", job[j].date, job[j].rows, job[j].mark)
    BY <1>5, BusyType DEF InsertChunk
  <2>3. [job[j] EXCEPT !.rows = @ \ chunk]
          = Busy("inserting", job[j].date, job[j].rows \ chunk, job[j].mark)
    BY <2>2 DEF Busy
  <2>4. job' \in [Job -> JobState]
    BY <2>1, <2>2, <2>3, JobUpdate DEF TypeOK
  <2>5. cycles' \subseteq Row
    BY <2>1, <2>2 DEF TypeOK
  <2> QED
    BY <1>5, <2>4, <2>5 DEF InsertChunk, TypeOK, supVars
<1>6. ASSUME NEW j \in Job, WriteCursor(j) PROVE TypeOK'
  <2>1. job[j].date \in Date /\ job[j].mark \in Mark
    BY <1>6, BusyType DEF WriteCursor, AllInserted
  <2>2. cursor' \in [Date -> Mark]
    BY <1>6, <2>1 DEF WriteCursor, AllInserted, TypeOK
  <2> QED
    BY <1>6, <2>2 DEF WriteCursor, AllInserted, TypeOK, JobState
<1>7. ASSUME NEW j \in Job, JobFails(j) PROVE TypeOK'
  BY <1>7 DEF JobFails, TypeOK, JobState
<1>8. CASE BeatBackfill
  <2>1. job' \in [Job -> JobState]
    BY <1>8, LoadType DEF BeatBackfill, Job, TypeOK
  <2> QED
    BY <1>8, <2>1 DEF BeatBackfill, TypeOK
<1>9. CASE BeatRefused \/ BeatInference \/ WaitOver
  BY <1>9 DEF BeatRefused, BeatInference, WaitOver, TypeOK
<1>10. CASE UNCHANGED vars
  BY <1>10 DEF vars, supVars, TypeOK
<1> QED
  BY <1>1, <1>2, <1>3, <1>4, <1>5, <1>6, <1>7, <1>8, <1>9, <1>10
     DEF Next, JobStep, Heartbeat

\* Every reachable state of the heartbeat, of the backfills and of the table
\* is well typed.
THEOREM TypeCorrect == Spec => []TypeOK
  BY TypeInit, TypeStep, PTL DEF Spec

-----------------------------------------------------------------------------
\* Rows that arrive later leave a snapshot a snapshot.
LEMMA SnapshotGrows ==
  ASSUME NEW R, NEW F, NEW G, Snapshot(R, F),
         \A g \in G, s \in F : s.ts <= g.ts
  PROVE  Snapshot(R, F \cup G)
  BY DEF Snapshot

\* Rows that arrive later leave a cursor sound.
LEMMA AdvanceGrows ==
  ASSUME NEW R, NEW F \in SUBSET Row, NEW G \in SUBSET Row, NEW K,
         NEW m \in Mark, Advance(m, R, F, K),
         \A g \in G, s \in F : s.ts <= g.ts
  PROVE  Advance(m, R, F \cup G, K)
<1> SUFFICES ASSUME m # NoCursor
             PROVE  /\ \E s \in F \cup G : s.ts = m
                    /\ \A r \in F \cup G :
                         r.ts < m => r \in R \/ RowKey(r) \in K
  BY DEF Advance
<1>1. PICK s \in F : s.ts = m
  BY DEF Advance
<1>2. ASSUME NEW g \in G PROVE ~(g.ts < m)
  <2>1. m <= g.ts /\ m \in Nat /\ g.ts \in Nat
    BY <1>1, <1>2 DEF Row
  <2> QED
    BY <2>1
<1> QED
  BY <1>1, <1>2 DEF Advance

\* The rows selected by a sound cursor from a snapshot give a sound new value.
LEMMA AdvanceRead ==
  ASSUME NEW F \in SUBSET Row, NEW R, Snapshot(R, F), NEW K, NEW c \in Mark,
         Advance(c, {}, F, K), NEW m, IsAdvance(m, Pending(R, c))
  PROVE  Advance(m, Pending(R, c), F, K)
<1> DEFINE P == Pending(R, c)
<1> SUFFICES ASSUME m # NoCursor
             PROVE  /\ \E s \in F : s.ts = m
                    /\ \A r \in F : r.ts < m => r \in P \/ RowKey(r) \in K
  BY DEF Advance
<1>1. PICK s \in P : s.ts = m
  BY DEF IsAdvance
<1>2. s \in R /\ s \in F
  BY <1>1 DEF Pending, Snapshot
<1>3. ASSUME NEW r \in F, r.ts < m, r \notin P PROVE RowKey(r) \in K
  <2>1. r.ts \in Nat /\ m \in Nat /\ c \in Int
    BY <1>1, <1>2, <1>3 DEF Row, Mark, NoCursor
  <2>2. r \in R
    BY <1>1, <1>2, <1>3, <2>1 DEF Snapshot
  <2>3. r.ts < c
    BY <1>3, <2>1, <2>2 DEF Pending
  <2>4. c # NoCursor
    BY <2>1, <2>3 DEF NoCursor
  <2> QED
    BY <1>3, <2>3, <2>4 DEF Advance
<1> QED
  BY <1>1, <1>2, <1>3

\* Inserting a chunk moves its rows from the pending ones to the table.
LEMMA AdvanceInsert ==
  ASSUME NEW R, NEW F, NEW K, NEW L, NEW m, NEW chunk, Advance(m, R, F, K),
         K \subseteq L, \A r \in chunk : RowKey(r) \in L
  PROVE  Advance(m, R \ chunk, F, L)
  BY DEF Advance

LEMMA InvInit == Init => IInv
<1> SUFFICES ASSUME Init PROVE JobSound /\ CursorSound
  BY TypeInit DEF IInv
<1>1. JobSound
  BY DEF Init, JobSound, Off
<1>2. CursorSound
  BY DEF Init, CursorSound, Advance
<1> QED
  BY <1>1, <1>2

-----------------------------------------------------------------------------
\* Every step keeps the invariant when no backfill is restricted to a valve.
LEMMA InvStep ==
  ASSUME IInv, [Next]_vars, ValveFilters \subseteq {AllValves}
  PROVE  JobSound' /\ CursorSound'
<1> USE DEF IInv
<1>0. /\ file \in [Date -> SUBSET Row] /\ cursor \in [Date -> Mark]
      /\ job \in [Job -> JobState]
  BY DEF TypeOK
<1>1. ASSUME NEW d \in Date, Arrive(d) PROVE JobSound' /\ CursorSound'
  <2>1. PICK G \in SUBSET Row :
          /\ file' = [file EXCEPT ![d] = @ \cup G]
          /\ \A g \in G, s \in file[d] : s.ts <= g.ts
    BY <1>1, ArriveFile
  <2>2. job' = job /\ cursor' = cursor /\ cycles' = cycles
    BY <1>1 DEF Arrive
  <2>3. Keys(cycles') = Keys(cycles)
    BY <2>2
  <2>4. ASSUME NEW e \in Date, e # d PROVE file'[e] = file[e]
    BY <2>1, <2>4, <1>0
  <2>5. file'[d] = file[d] \cup G
    BY <2>1, <1>0
  <2>6. /\ file[d] \in SUBSET Row
        /\ \A g \in G, s \in file[d] : s.ts <= g.ts
    BY <2>1, <1>0
  <2>7. JobSound'
    <3> SUFFICES ASSUME NEW j \in Job
                 PROVE  /\ job[j].pc = "loaded" =>
                              Snapshot(job[j].rows, file'[job[j].date])
                        /\ job[j].pc = "inserting" =>
                              Advance(job[j].mark, job[j].rows,
                                      file'[job[j].date], Keys(cycles))
      BY <2>2, <2>3 DEF JobSound
    <3>1. CASE job[j].pc = "loaded"
      <4>1. job[j].date \in Date
        BY <3>1, BusyType
      <4>2. Snapshot(job[j].rows, file[job[j].date])
        BY <3>1 DEF JobSound
      <4>3. CASE job[j].date = d
        <5>1. Snapshot(job[j].rows, file[d] \cup G)
          BY <4>2, <4>3, <2>6, SnapshotGrows
        <5> QED
          BY <3>1, <4>3, <5>1, <2>5
      <4>4. CASE job[j].date # d
        BY <3>1, <4>1, <4>2, <4>4, <2>4
      <4> QED
        BY <4>3, <4>4
    <3>2. CASE job[j].pc = "inserting"
      <4>1. job[j].date \in Date /\ job[j].mark \in Mark
        BY <3>2, BusyType
      <4>2. Advance(job[j].mark, job[j].rows, file[job[j].date], Keys(cycles))
        BY <3>2 DEF JobSound
      <4>3. CASE job[j].date = d
        <5>1. Advance(job[j].mark, job[j].rows, file[d] \cup G, Keys(cycles))
          BY <4>1, <4>2, <4>3, <2>6, AdvanceGrows
        <5> QED
          BY <3>2, <4>3, <5>1, <2>5
      <4>4. CASE job[j].date # d
        BY <3>2, <4>1, <4>2, <4>4, <2>4
      <4> QED
        BY <4>3, <4>4
    <3> QED
      BY <3>1, <3>2
  <2>8. CursorSound'
    <3> SUFFICES ASSUME NEW e \in Date
                 PROVE  Advance(cursor[e], {}, file'[e], Keys(cycles))
      BY <2>2, <2>3 DEF CursorSound
    <3>1. Advance(cursor[e], {}, file[e], Keys(cycles))
      BY DEF CursorSound
    <3>2. CASE e = d
      <4>1. cursor[d] \in Mark
        BY <1>0
      <4>2. Advance(cursor[d], {}, file[d] \cup G, Keys(cycles))
        BY <3>1, <3>2, <4>1, <2>6, AdvanceGrows
      <4> QED
        BY <3>2, <4>2, <2>5
    <3>3. CASE e # d
      BY <3>1, <3>3, <2>4
    <3> QED
      BY <3>2, <3>3
  <2> QED
    BY <2>7, <2>8
\* A process that has read a file of all valves holds a snapshot of it.
<1>2. ASSUME NEW j \in Job, NEW d \in Date, Load(j, d, AllValves),
             file' = file, cursor' = cursor, cycles' = cycles
      PROVE  JobSound' /\ CursorSound'
  <2>1. Frame(d, AllValves) = file[d]
    BY DEF Frame
  <2>2. job' = [job EXCEPT ![j] = Busy("loaded", d, file[d], NoCursor)]
    BY <1>2, <2>1 DEF Load
  <2>3. Keys(cycles') = Keys(cycles)
    BY <1>2
  <2>4. CursorSound'
    BY <1>2, <2>3 DEF CursorSound
  <2>5. JobSound'
    <3> SUFFICES ASSUME NEW i \in Job
                 PROVE  /\ job'[i].pc = "loaded" =>
                              Snapshot(job'[i].rows, file[job'[i].date])
                        /\ job'[i].pc = "inserting" =>
                              Advance(job'[i].mark, job'[i].rows,
                                      file[job'[i].date], Keys(cycles))
      BY <1>2, <2>3 DEF JobSound
    <3>1. CASE i = j
      <4>1. job'[i] = Busy("loaded", d, file[d], NoCursor)
        BY <2>2, <3>1, <1>0
      <4> QED
        BY <4>1 DEF Busy, Snapshot
    <3>2. CASE i # j
      BY <2>2, <3>2, <1>0 DEF JobSound
    <3> QED
      BY <3>1, <3>2
  <2> QED
    BY <2>4, <2>5
<1>3. ASSUME NEW d \in Date, NEW v \in ValveFilters, ManualBackfill(d, v)
      PROVE  JobSound' /\ CursorSound'
  BY <1>2, <1>3 DEF ManualBackfill, Job
<1>4. CASE BeatBackfill
  BY <1>2, <1>4 DEF BeatBackfill, Job, TypeOK
<1>5. ASSUME NEW j \in Job, ReadCursor(j) PROVE JobSound' /\ CursorSound'
  <2> DEFINE d == job[j].date
             P == Pending(job[j].rows, cursor[d])
  <2>1. PICK m \in {r.ts : r \in P} \cup {NoCursor} :
          /\ IsAdvance(m, P)
          /\ job' = [job EXCEPT ![j] = Busy("inserting", d, P, m)]
    BY <1>5 DEF ReadCursor
  <2>2. file' = file /\ cursor' = cursor /\ cycles' = cycles
    BY <1>5 DEF ReadCursor
  <2>3. Keys(cycles') = Keys(cycles)
    BY <2>2
  <2>4. /\ d \in Date /\ file[d] \in SUBSET Row /\ cursor[d] \in Mark
        /\ Snapshot(job[j].rows, file[d])
    BY <1>5, <1>0, BusyType DEF ReadCursor, JobSound
  <2>5. Advance(cursor[d], {}, file[d], Keys(cycles))
    BY <2>4 DEF CursorSound
  <2>6. Advance(m, P, file[d], Keys(cycles))
    <3> HIDE DEF d
    <3> QED
      BY <2>1, <2>4, <2>5, AdvanceRead
  <2>7. ASSUME NEW i \in Job, i # j PROVE job'[i] = job[i]
    BY <2>1, <2>7, <1>0
  <2>8. job'[j] = Busy("inserting", d, P, m)
    BY <2>1, <1>0
  <2>9. JobSound'
    BY <2>2, <2>3, <2>6, <2>7, <2>8 DEF JobSound, Busy
  <2> QED
    BY <2>2, <2>3, <2>9 DEF CursorSound
<1>6. ASSUME NEW j \in Job, InsertChunk(j) PROVE JobSound' /\ CursorSound'
  <2>1. PICK chunk \in SUBSET job[j].rows :
          /\ cycles' = cycles \cup {r \in chunk : RowKey(r) \notin Keys(cycles)}
          /\ job' = [job EXCEPT ![j].rows = @ \ chunk]
    BY <1>6 DEF InsertChunk
  <2>2. file' = file /\ cursor' = cursor
    BY <1>6 DEF InsertChunk
  <2>3. Keys(cycles) \subseteq Keys(cycles')
    BY <2>1 DEF Keys
  <2>4. \A r \in chunk : RowKey(r) \in Keys(cycles')
    BY <2>1 DEF Keys
  <2>5. CursorSound'
    BY <2>2, <2>3 DEF CursorSound, Advance
  <2>6. ASSUME NEW i \in Job, i # j PROVE job'[i] = job[i]
    BY <2>1, <2>6, <1>0
  <2>7. /\ job'[j].pc = "inserting" /\ job'[j].date = job[j].date
        /\ job'[j].rows = job[j].rows \ chunk /\ job'[j].mark = job[j].mark
    <3>1. job[j] = Busy("inserting", job[j].date, job[j].rows, job[j].mark)
      BY <1>6, BusyType DEF InsertChunk
    <3> QED
      BY <2>1, <3>1, <1>0 DEF Busy
  <2>8. Advance(job[j].mark, job[j].rows \ chunk, file[job[j].date],
                Keys(cycles'))
    BY <1>6, <2>3, <2>4, AdvanceInsert DEF InsertChunk, JobSound
  <2>9. ASSUME NEW i \in Job, i # j, job[i].pc = "inserting"
        PROVE  Advance(job[i].mark, job[i].rows, file[job[i].date],
                       Keys(cycles'))
    BY <2>3, <2>9 DEF JobSound, Advance
  <2>10. JobSound'
    BY <2>2, <2>6, <2>7, <2>8, <2>9 DEF JobSound
  <2> QED
    BY <2>5, <2>10
<1>7. ASSUME NEW j \in Job, WriteCursor(j) PROVE JobSound' /\ CursorSound'
  <2>1. /\ file' = file /\ cycles' = cycles /\ job' = [job EXCEPT ![j] = Off]
        /\ cursor' = IF job[j].mark = NoCursor THEN cursor
                      ELSE [cursor EXCEPT ![job[j].date] = job[j].mark]
    BY <1>7 DEF WriteCursor, AllInserted
  <2>2. Keys(cycles') = Keys(cycles)
    BY <2>1
  <2>3. JobSound'
    BY <2>1, <2>2, <1>0 DEF JobSound, Off
  <2>4. Advance(job[j].mark, {}, file[job[j].date], Keys(cycles))
    BY <1>7 DEF WriteCursor, AllInserted, JobSound
  <2>5. CursorSound'
    BY <2>1, <2>2, <2>4, <1>0 DEF CursorSound
  <2> QED
    BY <2>3, <2>5
<1>8. ASSUME NEW j \in Job, JobFails(j) PROVE JobSound' /\ CursorSound'
  <2>1. /\ file' = file /\ cycles' = cycles /\ cursor' = cursor
        /\ job' = [job EXCEPT ![j] = Off]
    BY <1>8 DEF JobFails
  <2>2. Keys(cycles') = Keys(cycles)
    BY <2>1
  <2> QED
    BY <2>1, <2>2, <1>0 DEF JobSound, CursorSound, Off
<1>9. ASSUME file' = file, cycles' = cycles, cursor' = cursor, job' = job
      PROVE  JobSound' /\ CursorSound'
  <2>1. Keys(cycles') = Keys(cycles)
    BY <1>9
  <2> QED
    BY <1>9, <2>1 DEF JobSound, CursorSound
<1>10. ASSUME NEW d \in Date, Launch(d) PROVE JobSound' /\ CursorSound'
  BY <1>9, <1>10 DEF Launch
<1>11. CASE BeatRefused \/ BeatInference \/ WaitOver
  BY <1>9, <1>11 DEF BeatRefused, BeatInference, WaitOver
<1>12. CASE UNCHANGED vars
  BY <1>9, <1>12 DEF vars
<1> QED
  BY <1>1, <1>3, <1>4, <1>5, <1>6, <1>7, <1>8, <1>10, <1>11, <1>12
     DEF Next, JobStep, Heartbeat

\* A row whose ingest_ts the cursor has passed is in the table: whatever dies,
\* restarts or runs side by side, if no backfill is restricted to one valve.
THEOREM NoRowSkippedCorrect ==
  ASSUME ValveFilters \subseteq {AllValves}
  PROVE  Spec => []NoRowSkipped
<1>1. IInv /\ [Next]_vars => IInv'
  BY InvStep, TypeStep DEF IInv
<1>2. IInv => NoRowSkipped
  <2> SUFFICES ASSUME IInv, NEW d \in Date, NEW r \in file[d], r.ts < cursor[d]
               PROVE  Covered(r)
    BY DEF NoRowSkipped
  <2>1. r.ts \in Nat /\ cursor[d] \in Mark
    BY DEF IInv, TypeOK, Row
  <2>2. cursor[d] # NoCursor
    BY <2>1 DEF Mark, NoCursor
  <2> QED
    BY <2>2 DEF IInv, CursorSound, Advance, Covered
<1> QED
  BY <1>1, <1>2, InvInit, PTL DEF Spec
=============================================================================
