---------------------------- MODULE FillerProofs ----------------------------
(* Proofs about module Filler, for any number of valves, any geometry and     *)
(* times that FillerAssumption allows, any day, commands and pulses.          *)
EXTENDS Filler, TLAPS

\* The fields of a valve's record.
Field == {"state", "entered", "due", "cid", "start", "open", "close", "last",
          "pt", "pac", "tp", "reason", "mech", "closed", "aborted"}

Shape(r) ==
  /\ DOMAIN r = Field
  /\ r.state \in ValveState /\ r.mech \in {"closed", "open", "closing"}
  /\ r.due \in Int /\ r.start \in Int /\ r.open \in Int /\ r.close \in Int
  /\ r.pt \in Int /\ r.pac \in Int
  /\ r.cid \in Nat /\ r.closed \in Nat /\ r.aborted \in Nat

\* What a can that ended by itself was: closed at its target, or by the encoder.
Ended(r) ==
  /\ r.reason \in {"target", "encoder_limit"}
  /\ r.reason = "target" => r.pac >= Target
  /\ r.close - r.open <= EncoderLimit

Account(r) ==
  r.cid = r.closed + r.aborted + (IF r.state \in Filling THEN 1 ELSE 0)

\* The times of a valve's state at time now.
Timed(v, r, now) ==
  /\ r.state = "FLUSHING" => r.due = r.start + Flush /\ now < r.due
  /\ r.state = "PRESSURIZING" => r.due = r.start + Flush + Press /\ now < r.due
  /\ r.state = "FILLING" => /\ r.open = r.start + Flush + Press
                            /\ now - r.open < EncoderLimit
  /\ r.state = "DEAD_ZONE" => r.due = NextWindow(v, r)
  /\ r.state = "IDLE" /\ r.cid > 0 => now >= NextWindow(v, r)

ValveInv(v, r, now) ==
  /\ Shape(r)
  /\ Account(r)
  /\ r.mech = "open" => r.state = "FILLING"
  /\ r.state = "TAIL" => Ended(r)
  /\ Timed(v, r, now)

-----------------------------------------------------------------------------
(* The carousel *)

LEMMA Limits ==
  /\ Flush \in Nat /\ Flush > 0 /\ Press \in Nat /\ Press > 0
  /\ Pause \in Int /\ Snift \in Int /\ Depress \in Int
  /\ Zone \in Nat /\ Zone <= Rotation /\ Rotation \in Nat /\ Rotation > 0
  /\ EncoderLimit \in Nat /\ EncoderLimit > 0 /\ EncoderLimit = Zone - Flush - Press
  /\ SafetyLimit \in Nat /\ EncoderLimit < SafetyLimit
  /\ Target \in Nat /\ Tolerance \in Nat /\ EndMs \in Nat /\ Far \in Int
  <1>1. /\ Flush \in Nat \ {0} /\ Press \in Nat \ {0} /\ Pause \in Nat \ {0}
        /\ Snift \in Nat \ {0} /\ Depress \in Nat \ {0}
    BY FillerAssumption
  <1>2. Rotation \in Nat \ {0} /\ Zone \in 1..Rotation
    BY FillerAssumption
  <1>3. EncoderLimit \in Nat \ {0} /\ SafetyLimit \in Nat /\ EncoderLimit < SafetyLimit
    BY FillerAssumption
  <1>4. /\ Target \in Nat /\ Tolerance \in Nat /\ EndMs \in Nat /\ Long \in Nat
    BY FillerAssumption
  <1> QED
    BY <1>1, <1>2, <1>3, <1>4 DEF EncoderLimit, Far

LEMMA WindowType ==
  ASSUME NEW v \in Valves, NEW now \in Int
  PROVE  WindowStart(v, now) \in Int
  <1>1. now \div Rotation \in Int /\ Rotation \in Int /\ Phase[v] \in Int
    BY FillerAssumption
  <1>2. (now \div Rotation) * Rotation \in Int
    BY <1>1
  <1> QED
    BY <1>1, <1>2 DEF WindowStart

\* A valve in its zone a whole rotation after the window of its last cycle is
\* in a later window.
LEMMA LaterWindow ==
  ASSUME NEW v \in Valves, NEW s \in Int, NEW now \in Int,
         now >= WindowStart(v, s) + Rotation, InZone(v, now)
  PROVE  WindowStart(v, s) < WindowStart(v, now)
  <1>1. WindowStart(v, s) \in Int /\ WindowStart(v, now) \in Int
    BY WindowType
  <1>2. now < WindowStart(v, now) + Zone
    BY DEF InZone
  <1> QED
    BY <1>1, <1>2, Limits

-----------------------------------------------------------------------------
(* One valve *)

LEMMA DeadZoneInv ==
  ASSUME NEW v \in Valves, NEW r, NEW now \in Int, Shape(r)
  PROVE  LET a == ToDeadZone(v, r, now)
         IN /\ Shape(a) /\ a.state = "DEAD_ZONE" /\ a.due = NextWindow(v, a)
            /\ \A f \in Field \ {"state", "entered", "due"} : a[f] = r[f]
  <1> DEFINE d == NextWindow(v, r)
             a == [r EXCEPT !.state = "DEAD_ZONE", !.entered = now, !.due = d]
  <1>1. d \in Int
    BY WindowType, Limits DEF Shape, NextWindow
  <1>2. ToDeadZone(v, r, now) = a
    BY DEF ToDeadZone, Goto
  <1>3. DOMAIN a = Field /\ a.state = "DEAD_ZONE" /\ a.due = d
    BY DEF Shape, Field
  <1>4. \A f \in Field \ {"state", "entered", "due"} : a[f] = r[f]
    BY DEF Shape
  <1> HIDE DEF a
  <1>5. a.start = r.start
    BY <1>4 DEF Field
  <1> HIDE DEF d
  <1>6. Shape(a)
    BY <1>1, <1>3, <1>4 DEF Shape, Field, ValveState
  <1> QED
    BY <1>2, <1>3, <1>4, <1>5, <1>6 DEF d, NextWindow
\* Goto changes the state and its times only.
LEMMA GotoShape ==
  ASSUME NEW r, Shape(r), NEW x \in ValveState, NEW now, NEW d \in Int
  PROVE  LET a == Goto(r, x, now, d)
         IN /\ Shape(a) /\ a.state = x /\ a.due = d
            /\ \A f \in Field \ {"state", "entered", "due"} : a[f] = r[f]
  <1> DEFINE a == [r EXCEPT !.state = x, !.entered = now, !.due = d]
  <1>1. DOMAIN a = Field /\ a.state = x /\ a.due = d
    BY DEF Shape, Field
  <1>2. \A f \in Field \ {"state", "entered", "due"} : a[f] = r[f]
    BY DEF Shape
  <1> HIDE DEF a
  <1>3. Shape(a)
    BY <1>1, <1>2 DEF Shape, Field
  <1> QED
    BY <1>1, <1>2, <1>3 DEF Goto, a

\* What a scan of one valve leaves, of a record r.
ScanPost(v, r, a, now, running) ==
  /\ ValveInv(v, a, now)
  /\ ~running /\ r.state \notin Filling => a.state \notin Filling
  /\ a.closed > r.closed => Ended(a)
  /\ a.cid > r.cid /\ r.cid > 0 => WindowStart(v, r.start) < WindowStart(v, a.start)

\* A record whose counters are those of r, in a state that works no can.
LEMMA NoCanPost ==
  ASSUME NEW v, NEW r, NEW a, NEW now, NEW running, Shape(a), Shape(r),
         Account(r), r.state \notin Filling, a.state \notin Filling, a.mech # "open",
         a.cid = r.cid, a.closed = r.closed, a.aborted = r.aborted, Timed(v, a, now)
  PROVE  ScanPost(v, r, a, now, running)
  <1>1. Account(a)
    BY DEF Account, Shape
  <1>2. a.state # "TAIL"
    BY DEF Filling
  <1> QED
    BY <1>1, <1>2 DEF ScanPost, ValveInv, Shape

\* One step of the state machine, from each state.
LEMMA IdleStep ==
  ASSUME NEW v \in Valves, NEW r, NEW t0 \in Int, NEW now \in Int, NEW running \in BOOLEAN,
         ValveInv(v, r, t0), t0 <= now, r.state = "IDLE"
  PROVE  ScanPost(v, r, LeaveIdle(v, r, now, running), now, running)
  <1>0. /\ Shape(r) /\ Account(r) /\ r.mech # "open" /\ r.cid \in Nat /\ r.start \in Int
        /\ r.cid > 0 => now >= NextWindow(v, r)
    <2>1. r.start \in Int /\ NextWindow(v, r) \in Int
      BY WindowType, Limits DEF ValveInv, Shape, NextWindow
    <2> QED
      BY <2>1 DEF ValveInv, Timed, Shape
  <1>1. CASE ~running
    <2>1. Timed(v, r, now)
      BY <1>0 DEF Timed
    <2> QED
      BY <1>0, <1>1, <2>1, NoCanPost DEF LeaveIdle, Filling
  <1>2. CASE running /\ ~InZone(v, now)
    <2> DEFINE d == IF now < WindowStart(v, now) THEN WindowStart(v, now)
                    ELSE WindowStart(v, now) + Rotation
               a == [r EXCEPT !.due = d]
    <2>1. d \in Int
      BY WindowType, Limits
    <2>2. LeaveIdle(v, r, now, running) = a
      BY <1>2 DEF LeaveIdle
    <2> HIDE DEF d
    <2>3. /\ DOMAIN a = Field /\ a.due = d
          /\ \A f \in Field \ {"due"} : a[f] = r[f]
      BY <1>0 DEF Shape, Field
    <2> HIDE DEF a
    <2>4. Shape(a)
      BY <1>0, <2>1, <2>3 DEF Shape, Field
    <2>5. /\ a.state = "IDLE" /\ a.mech = r.mech /\ a.cid = r.cid /\ a.start = r.start
          /\ a.closed = r.closed /\ a.aborted = r.aborted
      BY <2>3 DEF Field
    <2>6. Timed(v, a, now)
      BY <1>0, <2>5 DEF Timed, NextWindow
    <2> QED
      BY <1>0, <2>2, <2>4, <2>5, <2>6, NoCanPost DEF Filling
  <1>3. CASE running /\ InZone(v, now)
    <2> DEFINE b == Goto(r, "FLUSHING", now, now + Flush)
               a == EnterCycle(r, now)
    <2>1. /\ Shape(b) /\ b.state = "FLUSHING" /\ b.due = now + Flush
          /\ \A f \in Field \ {"state", "entered", "due"} : b[f] = r[f]
      BY <1>0, Limits, GotoShape DEF ValveState, Filling
    <2>2. a = [b EXCEPT !.cid = @ + 1, !.start = now, !.pt = 0, !.pac = 0, !.tp = 0,
                        !.reason = ""]
      BY DEF EnterCycle
    <2>3. LeaveIdle(v, r, now, running) = a
      BY <1>3 DEF LeaveIdle
    <2> HIDE DEF b
    <2>4. /\ DOMAIN a = Field /\ a.cid = b.cid + 1 /\ a.start = now /\ a.pt = 0 /\ a.pac = 0
          /\ \A f \in Field \ {"cid", "start", "pt", "pac", "tp", "reason"} : a[f] = b[f]
      BY <2>1, <2>2 DEF Shape, Field
    <2> HIDE DEF a
    <2>5. /\ a.state = "FLUSHING" /\ a.due = now + Flush /\ a.mech = r.mech
          /\ a.closed = r.closed /\ a.aborted = r.aborted /\ a.cid = r.cid + 1
      BY <2>1, <2>4 DEF Field
    <2>6. Shape(a)
      BY <1>0, <2>1, <2>4, <2>5 DEF Shape, Field
    <2>7. Account(a) /\ Timed(v, a, now)
      BY <1>0, <2>4, <2>5, Limits DEF Account, Timed, Filling, Shape
    <2>8. r.cid > 0 => WindowStart(v, r.start) < WindowStart(v, a.start)
      BY <1>0, <1>3, <2>4, LaterWindow DEF NextWindow
    <2>9. ValveInv(v, a, now)
      BY <1>0, <2>5, <2>6, <2>7 DEF ValveInv
    <2>10. ~(a.closed > r.closed)
      BY <1>0, <2>5 DEF Shape
    <2> QED
      BY <1>3, <2>3, <2>8, <2>9, <2>10 DEF ScanPost
  <1> QED
    BY <1>1, <1>2, <1>3
LEMMA PressurizeStep ==
  ASSUME NEW v \in Valves, NEW r, NEW t0 \in Int, NEW now \in Int, NEW running,
         ValveInv(v, r, t0), now = t0 + 1, r.state = "FLUSHING", now >= r.due
  PROVE  ScanPost(v, r, Goto(r, "PRESSURIZING", now, now + Press), now, running)
  <1> DEFINE a == Goto(r, "PRESSURIZING", now, now + Press)
  <1>1. /\ Shape(r) /\ r.start \in Int /\ r.due = r.start + Flush /\ t0 < r.due
        /\ r.mech # "open" /\ Account(r)
    BY DEF ValveInv, Timed, Shape
  <1>2. /\ Shape(a) /\ a.state = "PRESSURIZING" /\ a.due = now + Press
        /\ \A f \in Field \ {"state", "entered", "due"} : a[f] = r[f]
    BY <1>1, Limits, GotoShape DEF ValveState, Filling
  <1> HIDE DEF a
  <1>3. /\ a.mech = r.mech /\ a.cid = r.cid /\ a.start = r.start
        /\ a.closed = r.closed /\ a.aborted = r.aborted
    BY <1>2 DEF Field
  <1>4. now = r.start + Flush
    BY <1>1, Limits
  <1>5. Timed(v, a, now)
    BY <1>1, <1>2, <1>3, <1>4, Limits DEF Timed
  <1>6. Account(a)
    BY <1>1, <1>2, <1>3 DEF Account, Filling
  <1>7. ValveInv(v, a, now)
    BY <1>1, <1>2, <1>3, <1>5, <1>6 DEF ValveInv
  <1>8. ~(a.closed > r.closed) /\ ~(a.cid > r.cid)
    BY <1>1, <1>3 DEF Shape
  <1> QED
    BY <1>7, <1>8 DEF ScanPost, Filling, a

LEMMA OpenStep ==
  ASSUME NEW v \in Valves, NEW r, NEW t0 \in Int, NEW now \in Int, NEW running,
         ValveInv(v, r, t0), now = t0 + 1, r.state = "PRESSURIZING", now >= r.due
  PROVE  ScanPost(v, r, OpenValve(r, now), now, running)
  <1> DEFINE b == Goto(r, "FILLING", now, Far)
             a == [b EXCEPT !.open = now, !.mech = "open"]
  <1>0. OpenValve(r, now) = a
    BY DEF OpenValve
  <1>1. /\ Shape(r) /\ r.start \in Int /\ r.due = r.start + Flush + Press /\ t0 < r.due
        /\ Account(r)
    BY DEF ValveInv, Timed, Shape
  <1>2. /\ Shape(b) /\ b.state = "FILLING"
        /\ \A f \in Field \ {"state", "entered", "due"} : b[f] = r[f]
    BY <1>1, Limits, GotoShape DEF ValveState, Filling
  <1> HIDE DEF b
  <1>3. /\ DOMAIN a = Field /\ a.open = now /\ a.mech = "open"
        /\ \A f \in Field \ {"open", "mech"} : a[f] = b[f]
    BY <1>2 DEF Shape, Field
  <1> HIDE DEF a
  <1>4. Shape(a)
    BY <1>2, <1>3 DEF Shape, Field
  <1>5. /\ a.state = "FILLING" /\ a.cid = r.cid /\ a.start = r.start
        /\ a.closed = r.closed /\ a.aborted = r.aborted
    BY <1>2, <1>3 DEF Field
  <1>6. now = r.start + Flush + Press
    BY <1>1, Limits
  <1>7. Timed(v, a, now)
    BY <1>3, <1>5, <1>6, Limits DEF Timed
  <1>8. Account(a)
    BY <1>1, <1>5 DEF Account, Filling
  <1>9. ValveInv(v, a, now)
    BY <1>4, <1>5, <1>7, <1>8 DEF ValveInv
  <1>10. ~(a.closed > r.closed) /\ ~(a.cid > r.cid)
    BY <1>1, <1>5 DEF Shape
  <1> QED
    BY <1>0, <1>9, <1>10 DEF ScanPost, Filling

LEMMA CloseStep ==
  ASSUME NEW v \in Valves, NEW r, NEW t0 \in Int, NEW now \in Int, NEW running,
         Shape(r), Account(r), Timed(v, r, t0), now = t0 + 1, r.state = "FILLING"
  PROVE  /\ now - r.open < SafetyLimit
         /\ ScanPost(v, r, CloseValve(r, now), now, running)
  <1> DEFINE b == Goto(r, "TAIL", now, Far)
             x == IF r.pt >= Target THEN "target" ELSE "encoder_limit"
             a == [b EXCEPT !.reason = x, !.close = now, !.pac = r.pt, !.last = now,
                            !.mech = "closing"]
  <1>0. CloseValve(r, now) = a
    BY DEF CloseValve
  <1>1. now - r.open <= EncoderLimit /\ r.open \in Int /\ r.pt \in Int
    BY Limits DEF Timed, Shape
  <1>2. /\ Shape(b) /\ b.state = "TAIL"
        /\ \A f \in Field \ {"state", "entered", "due"} : b[f] = r[f]
    BY <1>1, Limits, GotoShape DEF ValveState, Filling
  <1> HIDE DEF b, x
  <1>3. /\ DOMAIN a = Field /\ a.reason = x /\ a.close = now /\ a.pac = r.pt
        /\ a.mech = "closing"
        /\ \A f \in Field \ {"reason", "close", "pac", "last", "mech"} : a[f] = b[f]
    BY <1>2 DEF Shape, Field
  <1> HIDE DEF a
  <1>4. Shape(a)
    BY <1>1, <1>2, <1>3 DEF Shape, Field
  <1>5. /\ a.state = "TAIL" /\ a.cid = r.cid /\ a.open = r.open
        /\ a.closed = r.closed /\ a.aborted = r.aborted
    BY <1>2, <1>3 DEF Field
  <1>6. Ended(a)
    BY <1>1, <1>3, <1>5 DEF Ended, x
  <1>7. Timed(v, a, now) /\ Account(a)
    BY <1>5 DEF Timed, Account, Filling
  <1>8. ValveInv(v, a, now)
    BY <1>3, <1>4, <1>5, <1>6, <1>7 DEF ValveInv
  <1>9. ~(a.cid > r.cid)
    BY <1>5 DEF Shape
  <1> QED
    BY <1>0, <1>1, <1>6, <1>8, <1>9, Limits DEF ScanPost, Filling

LEMMA FinalizeStep ==
  ASSUME NEW v \in Valves, NEW r, NEW now \in Int, NEW running,
         Shape(r), Account(r), Ended(r), r.mech # "open", r.state = "TAIL"
  PROVE  ScanPost(v, r, Finalize(r, now), now, running)
  <1> DEFINE b == Goto(r, "PAUSE", now, now + Pause)
             a == [b EXCEPT !.closed = @ + 1]
  <1>0. Finalize(r, now) = a
    BY DEF Finalize
  <1>1. /\ Shape(b) /\ b.state = "PAUSE"
        /\ \A f \in Field \ {"state", "entered", "due"} : b[f] = r[f]
    BY Limits, GotoShape DEF ValveState, Filling
  <1> HIDE DEF b
  <1>2. /\ DOMAIN a = Field /\ a.closed = b.closed + 1
        /\ \A f \in Field \ {"closed"} : a[f] = b[f]
    BY <1>1 DEF Shape, Field
  <1> HIDE DEF a
  <1>3. Shape(a)
    BY <1>1, <1>2 DEF Shape, Field
  <1>4. /\ a.state = "PAUSE" /\ a.cid = r.cid /\ a.closed = r.closed + 1
        /\ a.aborted = r.aborted /\ a.open = r.open /\ a.close = r.close
        /\ a.pac = r.pac /\ a.reason = r.reason /\ a.mech = r.mech
    BY <1>1, <1>2 DEF Field
  <1>5. Ended(a) /\ Timed(v, a, now)
    BY <1>4 DEF Ended, Timed
  <1>6. Account(a)
    BY <1>4 DEF Account, Filling, Shape
  <1>7. ValveInv(v, a, now)
    BY <1>3, <1>4, <1>5, <1>6 DEF ValveInv
  <1>8. ~(a.cid > r.cid)
    BY <1>4 DEF Shape
  <1> QED
    BY <1>0, <1>4, <1>5, <1>7, <1>8 DEF ScanPost, Filling
\* The states after a can: their step works no can.
LEMMA AfterCanStep ==
  ASSUME NEW v \in Valves, NEW r, NEW t0 \in Int, NEW now \in Int, NEW running,
         ValveInv(v, r, t0), t0 <= now,
         \/ r.state \in {"PAUSE", "SNIFT", "SAFE"}
         \/ r.state = "DEAD_ZONE" /\ now >= r.due
  PROVE  ScanPost(v, r, ValveStep(v, r, now, running), now, running)
  <1>0. /\ Shape(r) /\ Account(r) /\ r.mech # "open" /\ r.state \notin Filling
        /\ r.start \in Int /\ r.due \in Int
    BY DEF ValveInv, Shape, Filling
  <1>1. CASE r.state = "PAUSE"
    <2> DEFINE a == Goto(r, "SNIFT", now, now + Snift)
    <2>1. /\ Shape(a) /\ a.state = "SNIFT"
          /\ \A f \in Field \ {"state", "entered", "due"} : a[f] = r[f]
      BY <1>0, Limits, GotoShape DEF ValveState, Filling
    <2>2. ValveStep(v, r, now, running) = a
      BY <1>1 DEF ValveStep
    <2> HIDE DEF a
    <2>3. Timed(v, a, now) /\ a.state \notin Filling
      BY <2>1 DEF Timed, Filling
    <2>4. /\ a.mech = r.mech /\ a.cid = r.cid /\ a.closed = r.closed
          /\ a.aborted = r.aborted
      BY <2>1 DEF Field
    <2> QED
      BY <1>0, <2>1, <2>2, <2>3, <2>4, NoCanPost
  <1>2. CASE r.state \in {"SNIFT", "SAFE"}
    <2> DEFINE a == ToDeadZone(v, r, now)
    <2>1. /\ Shape(a) /\ a.state = "DEAD_ZONE" /\ a.due = NextWindow(v, a)
          /\ \A f \in Field \ {"state", "entered", "due"} : a[f] = r[f]
      BY <1>0, DeadZoneInv
    <2>2. ValveStep(v, r, now, running) = a
      BY <1>2 DEF ValveStep
    <2> HIDE DEF a
    <2>3. Timed(v, a, now) /\ a.state \notin Filling
      BY <2>1 DEF Timed, Filling
    <2>4. /\ a.mech = r.mech /\ a.cid = r.cid /\ a.closed = r.closed
          /\ a.aborted = r.aborted
      BY <2>1 DEF Field
    <2> QED
      BY <1>0, <2>1, <2>2, <2>3, <2>4, NoCanPost
  <1>3. CASE r.state = "DEAD_ZONE" /\ now >= r.due
    <2> DEFINE a == Goto(r, "IDLE", now, now)
    <2>1. /\ Shape(a) /\ a.state = "IDLE"
          /\ \A f \in Field \ {"state", "entered", "due"} : a[f] = r[f]
      BY <1>0, GotoShape DEF ValveState, Filling
    <2>2. ValveStep(v, r, now, running) = a
      BY <1>3 DEF ValveStep
    <2> HIDE DEF a
    <2>3. /\ a.mech = r.mech /\ a.cid = r.cid /\ a.closed = r.closed
          /\ a.aborted = r.aborted /\ a.start = r.start
      BY <2>1 DEF Field
    <2>4. r.due = NextWindow(v, r)
      BY <1>3 DEF ValveInv, Timed
    <2>5. Timed(v, a, now) /\ a.state \notin Filling
      BY <1>3, <2>1, <2>3, <2>4 DEF Timed, NextWindow, Filling
    <2> QED
      BY <1>0, <2>1, <2>2, <2>3, <2>5, NoCanPost
  <1> QED
    BY <1>1, <1>2, <1>3

\* Counting the pulses of a scan changes the counts only.
LEMMA CountInv ==
  ASSUME NEW v, NEW r, NEW t0, NEW now, NEW p \in Nat, ValveInv(v, r, t0)
  PROVE  LET c == Count(r, now, p)
         IN /\ ValveInv(v, c, t0)
            /\ c.state = r.state /\ c.cid = r.cid /\ c.closed = r.closed /\ c.start = r.start
  <1> DEFINE c == Count(r, now, p)
  <1>0. Shape(r)
    BY DEF ValveInv
  <1>1. /\ DOMAIN c = Field /\ c.pt \in Int
        /\ \A f \in Field \ {"pt", "tp", "last"} : c[f] = r[f]
    <2>1. CASE r.state = "FILLING"
      BY <1>0, <2>1 DEF Count, Shape, Field
    <2>2. CASE r.state = "TAIL" /\ p > 0
      BY <1>0, <2>2 DEF Count, Shape, Field
    <2>3. CASE r.state # "FILLING" /\ ~(r.state = "TAIL" /\ p > 0)
      BY <1>0, <2>3 DEF Count, Shape, Field
    <2> QED
      BY <2>1, <2>2, <2>3
  <1> HIDE DEF c
  <1>2. /\ c.state = r.state /\ c.cid = r.cid /\ c.closed = r.closed /\ c.start = r.start
        /\ c.aborted = r.aborted /\ c.due = r.due /\ c.open = r.open /\ c.close = r.close
        /\ c.mech = r.mech /\ c.reason = r.reason /\ c.pac = r.pac
    BY <1>1 DEF Field
  <1>3. Shape(c)
    BY <1>0, <1>1, <1>2 DEF Shape
  <1>4. Account(c) /\ (r.state = "TAIL" => Ended(c))
    BY <1>2 DEF ValveInv, Account, Ended
  <1>5. Timed(v, c, t0)
    BY <1>2 DEF ValveInv, Timed, NextWindow
  <1> QED
    BY <1>2, <1>3, <1>4, <1>5 DEF ValveInv, c

\* A whole scan of one valve.
LEMMA ScanValveInv ==
  ASSUME NEW v \in Valves, NEW r, NEW t0 \in Int, NEW now \in Int,
         NEW running \in BOOLEAN, NEW p \in Nat,
         ValveInv(v, r, t0), t0 <= now, r.state \in Filling => now = t0 + 1
  PROVE  ScanPost(v, r, ScanValve(v, r, now, running, p), now, running)
  <1> DEFINE c == Count(r, now, p)
  <1>1. /\ ValveInv(v, c, t0)
        /\ c.state = r.state /\ c.cid = r.cid /\ c.closed = r.closed /\ c.start = r.start
    BY CountInv
  <1>2. ScanValve(v, r, now, running, p)
          = IF Candidate(c, now, p) THEN ValveStep(v, c, now, running) ELSE c
    BY DEF ScanValve
  <1> HIDE DEF c
  <1>3. /\ Shape(c) /\ Account(c) /\ Timed(v, c, t0) /\ c.state \in ValveState
        /\ c.due \in Int /\ c.open \in Int /\ c.cid \in Nat /\ c.start \in Int
    BY <1>1 DEF ValveInv, Shape
  <1>4. CASE ~Candidate(c, now, p)
    <2>1. NextWindow(v, c) \in Int
      BY <1>3, WindowType, Limits DEF NextWindow
    <2>2. Timed(v, c, now)
      BY <1>3, <1>4, <2>1, Limits DEF Timed, Candidate
    <2>3. ValveInv(v, c, now)
      BY <1>1, <2>2 DEF ValveInv
    <2>4. ~(c.closed > c.closed) /\ ~(c.cid > c.cid)
      BY <1>3 DEF Shape
    <2> QED
      BY <1>1, <1>2, <1>4, <2>3, <2>4 DEF ScanPost
  <1>5. CASE Candidate(c, now, p)
    <2>1. CASE c.state = "IDLE"
      <3>1. ValveStep(v, c, now, running) = LeaveIdle(v, c, now, running)
        BY <2>1 DEF ValveStep
      <3> QED
        BY <1>1, <1>2, <1>5, <2>1, <3>1, IdleStep DEF ScanPost
    <2>2. CASE c.state = "FLUSHING"
      <3>1. now >= c.due /\ now = t0 + 1
        BY <1>1, <1>5, <2>2 DEF Candidate, Filling
      <3>2. ValveStep(v, c, now, running) = Goto(c, "PRESSURIZING", now, now + Press)
        BY <2>2 DEF ValveStep
      <3> QED
        BY <1>1, <1>2, <1>5, <2>2, <3>1, <3>2, PressurizeStep DEF ScanPost
    <2>3. CASE c.state = "PRESSURIZING"
      <3>1. now >= c.due /\ now = t0 + 1
        BY <1>1, <1>5, <2>3 DEF Candidate, Filling
      <3>2. ValveStep(v, c, now, running) = OpenValve(c, now)
        BY <2>3 DEF ValveStep
      <3> QED
        BY <1>1, <1>2, <1>5, <2>3, <3>1, <3>2, OpenStep DEF ScanPost
    <2>4. CASE c.state = "FILLING"
      <3>1. now = t0 + 1
        BY <1>1, <2>4 DEF Filling
      <3>2. /\ now - c.open < SafetyLimit
            /\ ScanPost(v, c, CloseValve(c, now), now, running)
        BY <1>3, <2>4, <3>1, CloseStep
      <3>3. ValveStep(v, c, now, running) = CloseValve(c, now)
        BY <1>3, <2>4, <3>2, Limits DEF ValveStep
      <3> QED
        BY <1>1, <1>2, <1>5, <3>2, <3>3 DEF ScanPost
    <2>5. CASE c.state = "TAIL"
      <3>1. Ended(c) /\ c.mech # "open"
        BY <1>1, <2>5 DEF ValveInv
      <3>2. ValveStep(v, c, now, running) = Finalize(c, now)
        BY <2>5 DEF ValveStep
      <3>3. ScanPost(v, c, Finalize(c, now), now, running)
        BY <1>3, <2>5, <3>1, FinalizeStep
      <3> QED
        BY <1>1, <1>2, <1>5, <3>2, <3>3 DEF ScanPost
    <2>6. CASE c.state \in {"PAUSE", "SNIFT", "SAFE", "DEAD_ZONE"}
      <3>1. c.state = "DEAD_ZONE" => now >= c.due
        BY <1>5 DEF Candidate
      <3>2. ScanPost(v, c, ValveStep(v, c, now, running), now, running)
        BY <1>1, <2>6, <3>1, AfterCanStep
      <3> QED
        BY <1>1, <1>2, <1>5, <3>2 DEF ScanPost
    <2> QED
      BY <1>3, <2>1, <2>2, <2>3, <2>4, <2>5, <2>6 DEF ValveState, Filling
  <1> QED
    BY <1>4, <1>5

\* Abort: a scrapped can leaves no record and no open valve.
LEMMA AbortInv ==
  ASSUME NEW v \in Valves, NEW r, NEW t0, NEW now \in Int, ValveInv(v, r, t0)
  PROVE  LET a == Abort(v, r, now)
         IN /\ ValveInv(v, a, t0) /\ a.state \notin Filling
            /\ a.cid = r.cid /\ a.closed = r.closed /\ a.start = r.start
  <1>1. CASE r.state \notin Filling
    BY <1>1 DEF Abort
  <1>2. CASE r.state \in Filling
    <2> DEFINE b == ToDeadZone(v, r, now)
               a == [b EXCEPT !.mech = "closed", !.aborted = @ + 1]
    <2>0. Shape(r) /\ Account(r)
      BY DEF ValveInv
    <2>1. /\ Shape(b) /\ b.state = "DEAD_ZONE" /\ b.due = NextWindow(v, b)
          /\ \A f \in Field \ {"state", "entered", "due"} : b[f] = r[f]
      BY <2>0, DeadZoneInv
    <2>2. Abort(v, r, now) = a
      BY <1>2 DEF Abort
    <2> HIDE DEF b
    <2>3. /\ DOMAIN a = Field /\ a.mech = "closed" /\ a.aborted = b.aborted + 1
          /\ \A f \in Field \ {"mech", "aborted"} : a[f] = b[f]
      BY <2>1 DEF Shape, Field
    <2> HIDE DEF a
    <2>4. /\ a.state = "DEAD_ZONE" /\ a.due = b.due /\ a.start = b.start
          /\ a.cid = r.cid /\ a.closed = r.closed /\ a.start = r.start
          /\ a.aborted = r.aborted + 1
      BY <2>1, <2>3 DEF Field
    <2>5. Shape(a)
      BY <2>1, <2>3 DEF Shape, Field
    <2>6. Account(a)
      BY <1>2, <2>0, <2>4 DEF Account, Filling, Shape
    <2>7. Timed(v, a, t0)
      BY <2>1, <2>4 DEF Timed, NextWindow
    <2> QED
      BY <2>2, <2>3, <2>4, <2>5, <2>6, <2>7 DEF ValveInv, Filling
  <1> QED
    BY <1>1, <1>2
-----------------------------------------------------------------------------
(* The machine *)

GoodTemplate(tpl) == tpl \in Seq([status : Statuses, dur : Nat \ {0}]) /\ tpl # <<>>

\* A machine at time now, before its next transition.
MachineAt(m, now) ==
  /\ DOMAIN m = {"tpl", "idx", "entered", "dur"}
  /\ GoodTemplate(m.tpl) /\ m.idx \in DOMAIN m.tpl
  /\ m.entered \in Nat /\ m.dur \in Nat
  /\ m.entered <= now /\ now < m.entered + m.dur

LEMMA NextPhase ==
  ASSUME NEW i \in Nat, NEW n \in Nat \ {0}
  PROVE  (i % n) + 1 \in 1..n
  OBVIOUS

LEMMA StepMachineInv ==
  ASSUME NEW m, NEW t0 \in Nat, NEW now \in Nat, MachineAt(m, t0), t0 <= now
  PROVE  MachineAt(StepMachine(m, now), now)
  <1> DEFINE k == (m.idx % Len(m.tpl)) + 1
             a == [m EXCEPT !.idx = k, !.entered = now, !.dur = m.tpl[k].dur]
  <1>1. CASE ~(now - m.entered >= m.dur)
    BY <1>1 DEF StepMachine, MachineAt
  <1>2. CASE now - m.entered >= m.dur
    <2>1. m.tpl \in Seq([status : Statuses, dur : Nat \ {0}]) /\ m.tpl # <<>>
          /\ m.idx \in DOMAIN m.tpl
      BY DEF MachineAt, GoodTemplate
    <2>2. Len(m.tpl) \in Nat \ {0} /\ m.idx \in Nat /\ DOMAIN m.tpl = 1..Len(m.tpl)
      BY <2>1
    <2>3. k \in DOMAIN m.tpl
      BY <2>2, NextPhase
    <2>4. StepMachine(m, now) = a
      BY <1>2 DEF StepMachine
    <2> HIDE DEF k
    <2>5. m.tpl[k].dur \in Nat \ {0}
      <3> DEFINE S == [status : Statuses, dur : Nat \ {0}]
      <3>1. \A x \in S : x.dur \in Nat \ {0}
        OBVIOUS
      <3>2. m.tpl \in Seq(S)
        BY <2>1
      <3> HIDE DEF S
      <3>3. m.tpl[k] \in S
        BY <2>3, <3>2
      <3> QED
        BY <3>1, <3>3
    <2>6. /\ DOMAIN a = {"tpl", "idx", "entered", "dur"} /\ a.tpl = m.tpl /\ a.idx = k
          /\ a.entered = now /\ a.dur = m.tpl[k].dur
      BY DEF MachineAt
    <2> HIDE DEF a
    <2>7. GoodTemplate(a.tpl) /\ a.idx \in DOMAIN a.tpl
      BY <2>1, <2>3, <2>6 DEF GoodTemplate
    <2>8. a.entered \in Nat /\ a.dur \in Nat /\ a.entered <= now /\ now < a.entered + a.dur
      BY <2>5, <2>6
    <2> QED
      BY <2>4, <2>6, <2>7, <2>8 DEF MachineAt
  <1> QED
    BY <1>1, <1>2

LEMMA OverrideTemplate ==
  ASSUME NEW c \in Command
  PROVE  GoodTemplate(Override[c])
  <1>1. Transition \in Nat \ {0} /\ Long \in Nat \ {0}
    BY FillerAssumption
  <1>2. ASSUME NEW x \in Statuses, NEW y \in Statuses
        PROVE  GoodTemplate(Phases(x, y))
    <2> DEFINE S == [status : Statuses, dur : Nat \ {0}]
               e == [status |-> x, dur |-> Transition]
               f == [status |-> y, dur |-> Long]
    <2>1. e \in S /\ f \in S
      BY <1>1
    <2> HIDE DEF S, e, f
    <2>2. <<e, f>> \in Seq(S) /\ <<e, f>> # <<>>
      BY <2>1
    <2> QED
      BY <2>2 DEF GoodTemplate, Phases, S, e, f
  <1>3. \E x, y \in Statuses : Override[c] = Phases(x, y)
    <2>1. CASE c = "stop"
      BY <2>1 DEF Override, Statuses
    <2>2. CASE c = "start"
      BY <2>2 DEF Override, Statuses
    <2>3. CASE c = "reset"
      BY <2>3 DEF Override, Statuses
    <2> QED
      BY <2>1, <2>2, <2>3 DEF Command
  <1> QED
    BY <1>2, <1>3

LEMMA ApplyCommandInv ==
  ASSUME NEW m, NEW c \in Command, NEW now \in Nat, MachineAt(m, now)
  PROVE  MachineAt(ApplyCommand(m, c, now), now)
  <1>1. CASE ~Applies(m, c)
    BY <1>1 DEF ApplyCommand
  <1>2. CASE Applies(m, c)
    <2> DEFINE a == [tpl |-> Override[c], idx |-> 1, entered |-> now, dur |-> Transition]
    <2>1. GoodTemplate(Override[c])
      BY OverrideTemplate
    <2>2. 1 \in DOMAIN Override[c]
      BY <2>1 DEF GoodTemplate
    <2>3. Transition \in Nat \ {0}
      BY FillerAssumption
    <2> QED
      BY <1>2, <2>1, <2>2, <2>3 DEF ApplyCommand, MachineAt
  <1> QED
    BY <1>1, <1>2
-----------------------------------------------------------------------------
(* The filler                                                                 *)

FillerInv ==
  /\ t \in Nat /\ MachineAt(machine, t) /\ cmds \in Seq(Command)
  /\ was \in BOOLEAN /\ (was => Running(machine))
  /\ pulses \in [Valves -> Nat]
  /\ DOMAIN valve = Valves
  /\ \A v \in Valves : /\ ValveInv(v, valve[v], t)
                       /\ ~was => valve[v].state \notin Filling
  /\ GoodRecordIsFull

\* The record of a can that ended by itself.
LEMMA RecordInv ==
  ASSUME NEW v, NEW r, Shape(r), Ended(r), CompleteCycle(v, r).quality
  PROVE  LET e == CompleteCycle(v, r)
         IN /\ e.pc >= Target /\ e.pc <= Target + Tolerance
            /\ e.reason = "target" /\ e.ft <= EncoderLimit
  <1> DEFINE e == CompleteCycle(v, r)
             delta == Target - r.pac
  <1>1. /\ e.pc = r.pac /\ e.reason = r.reason /\ e.ft = r.close - r.open
        /\ e.quality = (r.reason # "encoder_limit" /\ delta \in -Tolerance..Tolerance)
    BY DEF CompleteCycle
  <1> HIDE DEF e
  <1>2. r.reason = "target" /\ delta \in -Tolerance..Tolerance
    BY <1>1 DEF Ended, e
  <1>3. r.pac \in Int /\ r.pac >= Target
    BY <1>2 DEF Ended, Shape
  <1>4. r.pac <= Target + Tolerance
    BY <1>2, <1>3, Limits
  <1> QED
    BY <1>1, <1>2, <1>3, <1>4 DEF Ended, e

\* A scan of the whole machine; a step that may find a can under way is one
\* unit of time long.
LEMMA ScanInv ==
  ASSUME FillerInv, NEW m, MachineAt(m, t), NEW now \in Nat, t <= now,
         was => now = t + 1, NEW p \in [Valves -> Nat], Scan(m, now, p),
         cmds' \in Seq(Command)
  PROVE  /\ FillerInv'
         /\ \A v \in Valves :
              (valve[v].cid > 0 /\ valve'[v].cid > valve[v].cid) =>
                WindowStart(v, valve[v].start) < WindowStart(v, valve'[v].start)
  <1> DEFINE stepped == StepMachine(m, now)
             running == Running(stepped)
             stopping == was /\ ~running
             seen == [v \in Valves |-> IF running THEN p[v] ELSE 0]
             before == [v \in Valves |-> IF stopping THEN Abort(v, valve[v], now)
                                         ELSE valve[v]]
  <1>1. /\ machine' = stepped /\ was' = running /\ t' = now
        /\ pulses' = IF stopping THEN [v \in Valves |-> 0] ELSE p
        /\ valve' = [v \in Valves |-> ScanValve(v, before[v], now, running, seen[v])]
        /\ emitted' = {CompleteCycle(v, valve'[v]) :
                         v \in {w \in Valves : valve'[w].closed > valve[w].closed}}
    BY DEF Scan
  <1>2. MachineAt(machine', now) /\ running \in BOOLEAN
    BY <1>1, StepMachineInv DEF FillerInv, Running
  <1>3. pulses' \in [Valves -> Nat]
    BY <1>1
  <1>4. ASSUME NEW v \in Valves
        PROVE  /\ ScanPost(v, before[v], valve'[v], now, running)
               /\ before[v].closed = valve[v].closed /\ before[v].cid = valve[v].cid
               /\ before[v].start = valve[v].start
               /\ ~running => before[v].state \notin Filling
    <2>1. /\ ValveInv(v, valve[v], t) /\ now \in Int /\ t \in Int
          /\ ~was => valve[v].state \notin Filling
      BY DEF FillerInv
    <2>2. /\ ValveInv(v, before[v], t)
          /\ before[v].closed = valve[v].closed /\ before[v].cid = valve[v].cid
          /\ before[v].start = valve[v].start
          /\ before[v].state \in Filling => before[v] = valve[v] /\ was /\ running
      <3>1. CASE stopping
        <4> DEFINE a == Abort(v, valve[v], now)
        <4>1. before[v] = a
          BY <3>1
        <4>2. /\ ValveInv(v, a, t) /\ a.state \notin Filling
              /\ a.cid = valve[v].cid /\ a.closed = valve[v].closed
              /\ a.start = valve[v].start
          BY <2>1, AbortInv
        <4> HIDE DEF a, before
        <4> QED
          BY <4>1, <4>2
      <3>2. CASE ~stopping
        BY <2>1, <3>2
      <3> QED
        BY <3>1, <3>2
    <2>3. seen[v] \in Nat
      OBVIOUS
    <2>4. valve'[v] = ScanValve(v, before[v], now, running, seen[v])
      BY <1>1
    <2> HIDE DEF before, seen, running
    <2>5. ScanPost(v, before[v], valve'[v], now, running)
      BY <1>2, <2>1, <2>2, <2>3, <2>4, ScanValveInv
    <2> QED
      BY <2>2, <2>5
  <1> HIDE DEF before, seen, running, stopping, stepped
  <1>5. GoodRecordIsFull'
    <2> SUFFICES ASSUME NEW e \in emitted', e.quality
                 PROVE  /\ e.pc >= Target /\ e.pc <= Target + Tolerance
                        /\ e.reason = "target" /\ e.ft <= EncoderLimit
      BY DEF GoodRecordIsFull
    <2>1. PICK v \in Valves : /\ e = CompleteCycle(v, valve'[v])
                             /\ valve'[v].closed > valve[v].closed
      BY <1>1
    <2>2. Shape(valve'[v]) /\ Ended(valve'[v])
      BY <1>4, <2>1 DEF ScanPost, ValveInv
    <2> QED
      BY <2>1, <2>2, RecordInv
  <1>6. ASSUME NEW v \in Valves
        PROVE  /\ ValveInv(v, valve'[v], now)
               /\ ~running => valve'[v].state \notin Filling
    BY <1>4 DEF ScanPost
  <1>7. DOMAIN valve' = Valves
    BY <1>1
  <1>8. FillerInv'
    BY <1>1, <1>2, <1>3, <1>5, <1>6, <1>7 DEF FillerInv, running
  <1>9. ASSUME NEW v \in Valves, valve[v].cid > 0, valve'[v].cid > valve[v].cid
        PROVE  WindowStart(v, valve[v].start) < WindowStart(v, valve'[v].start)
    BY <1>4, <1>9 DEF ScanPost
  <1> QED
    BY <1>8, <1>9

LEMMA FillerInit == Init => FillerInv
  <1> SUFFICES ASSUME Init PROVE FillerInv
    OBVIOUS
  <1>1. MachineAt(machine, 0)
    <2>1. GoodTemplate(Day)
      BY FillerAssumption DEF GoodTemplate
    <2>2. 1 \in DOMAIN Day
      BY <2>1 DEF GoodTemplate
    <2>3. Day[1].dur \in Nat \ {0}
      <3> DEFINE S == [status : Statuses, dur : Nat \ {0}]
      <3>1. \A x \in S : x.dur \in Nat \ {0}
        OBVIOUS
      <3>2. Day \in Seq(S)
        BY <2>1 DEF GoodTemplate
      <3> HIDE DEF S
      <3>3. Day[1] \in S
        BY <2>2, <3>2
      <3> QED
        BY <3>1, <3>3
    <2>4. /\ DOMAIN machine = {"tpl", "idx", "entered", "dur"} /\ machine.tpl = Day
          /\ machine.idx = 1 /\ machine.entered = 0 /\ machine.dur = Day[1].dur
      BY DEF Init
    <2> QED
      BY <2>1, <2>2, <2>3, <2>4 DEF MachineAt
  <1>2. ASSUME NEW v \in Valves
        PROVE  ValveInv(v, valve[v], 0) /\ valve[v].state \notin Filling
    <2> DEFINE r == valve[v]
    <2>1. /\ DOMAIN r = Field /\ r.state = "IDLE" /\ r.mech = "closed"
          /\ r.due = 0 /\ r.start = 0 /\ r.open = 0 /\ r.close = 0 /\ r.pt = 0 /\ r.pac = 0
          /\ r.cid = 0 /\ r.closed = 0 /\ r.aborted = 0
      BY DEF Init, Field
    <2> HIDE DEF r
    <2>2. Shape(r)
      BY <2>1 DEF Shape, ValveState
    <2>3. Account(r) /\ Timed(v, r, 0) /\ r.state \notin Filling
      BY <2>1 DEF Account, Timed, Filling
    <2> QED
      BY <2>1, <2>2, <2>3 DEF ValveInv, r
  <1>3. /\ t = 0 /\ cmds \in Seq(Command) /\ was \in BOOLEAN /\ ~was /\ emitted = {}
        /\ pulses \in [Valves -> Nat] /\ DOMAIN valve = Valves
    <2>1. was = FALSE /\ cmds = <<>> /\ t = 0 /\ emitted = {}
      BY DEF Init
    <2>2. pulses \in [Valves -> Nat] /\ DOMAIN valve = Valves
      BY DEF Init
    <2>3. was \in BOOLEAN /\ ~was
      BY <2>1, Zenon
    <2>4. cmds \in Seq(Command)
      BY <2>1
    <2> QED
      BY <2>1, <2>2, <2>3, <2>4
  <1> QED
    BY <1>1, <1>2, <1>3 DEF FillerInv, GoodRecordIsFull

LEMMA FillerStep ==
  ASSUME FillerInv, [Next]_vars
  PROVE  /\ FillerInv'
         /\ \A v \in Valves :
              (valve[v].cid > 0 /\ valve'[v].cid > valve[v].cid) =>
                WindowStart(v, valve[v].start) < WindowStart(v, valve'[v].start)
  <1>0. /\ t \in Nat /\ MachineAt(machine, t) /\ cmds \in Seq(Command) /\ EndMs \in Nat
        /\ pulses \in [Valves -> Nat] /\ (was => Running(machine))
    BY FillerAssumption DEF FillerInv
  <1>1. CASE UNCHANGED <<t, machine, was, valve, pulses, emitted>> /\ cmds' \in Seq(Command)
    <2>1. \A v \in Valves : ~(valve'[v].cid > valve[v].cid)
      BY <1>1 DEF FillerInv, ValveInv, Shape
    <2> QED
      BY <1>1, <2>1 DEF FillerInv, GoodRecordIsFull
  <1>2. ASSUME NEW c \in Command, SubmitCommand(c)
        PROVE  UNCHANGED <<t, machine, was, valve, pulses, emitted>> /\ cmds' \in Seq(Command)
    BY <1>0, <1>2 DEF SubmitCommand
  <1>3. CASE UNCHANGED vars
    BY <1>0, <1>1, <1>3 DEF vars
  <1>4. ASSUME TakeCommand PROVE cmds' \in Seq(Command)
    BY <1>0, <1>4 DEF TakeCommand
  <1>5. MachineAt(Commanded, t)
    <2>1. CASE cmds = <<>>
      BY <1>0, <2>1 DEF Commanded
    <2>2. CASE cmds # <<>>
      <3>1. Head(cmds) \in Command
        BY <1>0, <2>2
      <3> QED
        BY <1>0, <2>2, <3>1, ApplyCommandInv DEF Commanded
    <2> QED
      BY <2>1, <2>2
  <1>6. CASE ScanStep
    <2>1. PICK p \in PlantStep(t + 1) : Scan(Commanded, t + 1, p)
      BY <1>6 DEF ScanStep
    <2>2. p \in [Valves -> Nat]
      <3>1. p \in [Valves -> 0..MaxPulses] /\ MaxPulses \in Nat
        BY FillerAssumption DEF PlantStep
      <3> QED
        BY <3>1
    <2>3. cmds' \in Seq(Command)
      BY <1>4, <1>6 DEF ScanStep
    <2> QED
      BY <1>0, <1>5, <2>1, <2>2, <2>3, ScanInv
  <1>7. CASE SkipPhase
    <2> DEFINE next == machine.entered + machine.dur
               now == IF next < EndMs THEN next ELSE EndMs
    <2>1. Scan(machine, now, pulses) /\ cmds' \in Seq(Command)
      BY <1>4, <1>7 DEF SkipPhase
    <2>2. now \in Nat /\ t <= now
      BY <1>0, <1>7 DEF SkipPhase, Looping, MachineAt
    <2>3. ~was
      BY <1>0, <1>7 DEF SkipPhase, SingleScan, Commanded
    <2> HIDE DEF now
    <2> QED
      BY <1>0, <2>1, <2>2, <2>3, ScanInv
  <1> QED
    BY <1>1, <1>2, <1>3, <1>6, <1>7 DEF Next, Iterate

\* The invariant of the loop, the machine and every valve is inductive.
THEOREM FillerInvariant == Spec => []FillerInv
  <1>1. FillerInv /\ [Next]_vars => FillerInv'
    BY FillerStep
  <1> QED
    BY <1>1, FillerInit, PTL DEF Spec

\* Every cycle a valve numbered gave one record, was scrapped by a stop or is
\* under way, whatever the day, the commands and the pulses (plc.py: _finalize,
\* _enter_safe, _abort_active).
THEOREM CyclesAccountedCorrect == Spec => []CyclesAccounted
  <1>1. FillerInv => CyclesAccounted
    BY DEF FillerInv, ValveInv, Account, CyclesAccounted
  <1> QED
    BY <1>1, FillerInvariant, PTL

\* While the machine is not Running no valve works a can and none is commanded
\* open, whether the stop comes from the day, from a command or in the scan that
\* opened the valve (plc.py: the interlock and _abort_active).
THEOREM StopInterlockCorrect == Spec => []StopInterlock
  <1>1. FillerInv => StopInterlock
    <2> SUFFICES ASSUME FillerInv, ~Running(machine), NEW v \in Valves
                 PROVE  valve[v].state \notin Filling /\ valve[v].mech # "open"
      BY DEF StopInterlock
    <2>1. valve[v].state \notin Filling
      BY DEF FillerInv
    <2>2. valve[v].mech = "open" => valve[v].state = "FILLING"
      BY DEF FillerInv, ValveInv
    <2> QED
      BY <2>1, <2>2 DEF Filling
  <1> QED
    BY <1>1, FillerInvariant, PTL

\* A record of good quality is of a can that reached its target within tolerance,
\* closed for that reason, before its useful zone was over (complete_cycle).
THEOREM GoodRecordIsFullCorrect == Spec => []GoodRecordIsFull
  <1>1. FillerInv => GoodRecordIsFull
    BY DEF FillerInv
  <1> QED
    BY <1>1, FillerInvariant, PTL

\* A can is filled for at most one useful zone from the start of its cycle.
THEOREM FillWithinOneZoneCorrect == Spec => []FillWithinOneZone
  <1>1. FillerInv => FillWithinOneZone
    <2> SUFFICES ASSUME FillerInv, NEW v \in Valves, valve[v].state = "FILLING"
                 PROVE  t < valve[v].start + Zone
      BY DEF FillWithinOneZone
    <2>1. /\ valve[v].open = valve[v].start + Flush + Press /\ valve[v].start \in Int
          /\ t - valve[v].open < EncoderLimit /\ t \in Nat
      BY DEF FillerInv, ValveInv, Timed, Shape
    <2> QED
      BY <2>1, Limits
  <1> QED
    BY <1>1, FillerInvariant, PTL

\* Two cycles of a valve start in different windows of the carousel, also when a
\* stop scraps the first and a start comes in time for the same zone.
THEOREM OneCyclePerWindowCorrect == Spec => OneCyclePerWindow
  <1>1. FillerInv /\ [Next]_vars =>
          [\A v \in Valves :
             (valve[v].cid > 0 /\ valve'[v].cid > valve[v].cid) =>
               WindowStart(v, valve[v].start) < WindowStart(v, valve'[v].start)]_vars
    BY FillerStep
  <1> QED
    BY <1>1, FillerInvariant, PTL DEF Spec, OneCyclePerWindow
-----------------------------------------------------------------------------
(* Types                                                                      *)

\* A scan of a valve leaves its state's entry, or enters one now.
LEMMA EnteredScan ==
  ASSUME NEW v \in Valves, NEW r, Shape(r), NEW now, NEW running, NEW p
  PROVE  ScanValve(v, r, now, running, p).entered \in {r.entered, now}
  <1> DEFINE c == Count(r, now, p)
             a == ValveStep(v, c, now, running)
  <1>1. DOMAIN c = Field /\ c.entered = r.entered /\ c.state = r.state
    <2>1. CASE r.state = "FILLING"
      BY <2>1 DEF Count, Shape, Field
    <2>2. CASE r.state = "TAIL" /\ p > 0
      BY <2>2 DEF Count, Shape, Field
    <2>3. CASE r.state # "FILLING" /\ ~(r.state = "TAIL" /\ p > 0)
      BY <2>3 DEF Count, Shape
    <2> QED
      BY <2>1, <2>2, <2>3
  <1> HIDE DEF c
  <1>2. ASSUME NEW x, NEW d
        PROVE  DOMAIN Goto(c, x, now, d) = Field /\ Goto(c, x, now, d).entered = now
    BY <1>1 DEF Goto, Field
  <1>3. EnterCycle(c, now).entered = now
    BY <1>2 DEF EnterCycle, Field
  <1>4. OpenValve(c, now).entered = now
    BY <1>2 DEF OpenValve, Field
  <1>5. CloseValve(c, now).entered = now
    BY <1>2 DEF CloseValve, Field
  <1>6. EnterSafe(c, now).entered = now
    BY <1>2 DEF EnterSafe, Field
  <1>7. Finalize(c, now).entered = now
    BY <1>2 DEF Finalize, Field
  <1>8. ToDeadZone(v, c, now).entered = now
    BY <1>2 DEF ToDeadZone
  <1>9. LeaveIdle(v, c, now, running).entered \in {c.entered, now}
    BY <1>1, <1>3 DEF LeaveIdle, Field
  <1>10. a.entered \in {c.entered, now}
    <2>1. c.state \in ValveState
      BY <1>1 DEF Shape
    <2>2. CASE c.state = "IDLE"
      BY <1>9, <2>2 DEF ValveStep
    <2>3. CASE c.state \in Filling
      BY <1>2, <1>4, <1>5, <1>6, <1>7, <2>3 DEF ValveStep, Filling
    <2>4. CASE c.state \in {"PAUSE", "SNIFT", "SAFE", "DEAD_ZONE"}
      BY <1>2, <1>8, <2>4 DEF ValveStep
    <2> QED
      BY <2>1, <2>2, <2>3, <2>4 DEF ValveState
  <1> HIDE DEF a
  <1> QED
    BY <1>1, <1>10 DEF ScanValve, a, c

LEMMA EnteredAbort ==
  ASSUME NEW v \in Valves, NEW r, Shape(r), NEW now
  PROVE  Abort(v, r, now).entered \in {r.entered, now}
  BY DEF Abort, ToDeadZone, Goto, Shape, Field

\* The parts of TypeInvariant that FillerInv does not give.
Bounds ==
  /\ t <= EndMs /\ stall \in 0..3 /\ submitted \in 0..MaxCommands
  /\ override \in BOOLEAN /\ Len(cmds) <= submitted
  /\ pulses \in [Valves -> 0..MaxPulses]
  /\ \A v \in Valves : valve[v].entered \in 0..t

LEMMA BoundsInit == Init => Bounds
  <1> SUFFICES ASSUME Init PROVE Bounds
    OBVIOUS
  <1>1. EndMs \in Nat /\ MaxCommands \in Nat /\ MaxPulses \in Nat
    BY FillerAssumption
  <1>2. override \in BOOLEAN
    BY Zenon DEF Init
  <1>3. t = 0 /\ stall = 0 /\ submitted = 0 /\ cmds = <<>>
        /\ pulses = [v \in Valves |-> 0] /\ \A v \in Valves : valve[v].entered = 0
    BY DEF Init
  <1>4. Len(cmds) = 0
    BY <1>3
  <1> QED
    BY <1>1, <1>2, <1>3, <1>4 DEF Bounds

LEMMA BoundsScan ==
  ASSUME FillerInv, Bounds, Looping, NEW m, NEW now \in Nat, t <= now, now <= EndMs,
         NEW p \in [Valves -> 0..MaxPulses], Scan(m, now, p)
  PROVE  /\ t' <= EndMs /\ stall' \in 0..3 /\ pulses' \in [Valves -> 0..MaxPulses]
         /\ \A v \in Valves : valve'[v].entered \in 0..t'
  <1>0. MaxPulses \in Nat
    BY FillerAssumption
  <1> DEFINE running == Running(StepMachine(m, now))
             stopping == was /\ ~running
             seen == [v \in Valves |-> IF running THEN p[v] ELSE 0]
             before == [v \in Valves |-> IF stopping THEN Abort(v, valve[v], now)
                                         ELSE valve[v]]
  <1>1. /\ t' = now /\ stall' = IF now = t THEN stall + 1 ELSE 0
        /\ pulses' = IF stopping THEN [v \in Valves |-> 0] ELSE p
        /\ valve' = [v \in Valves |-> ScanValve(v, before[v], now, running, seen[v])]
    BY DEF Scan
  <1>2. stall' \in 0..3
    BY <1>1 DEF Looping, Bounds
  <1>3. pulses' \in [Valves -> 0..MaxPulses]
    BY <1>0, <1>1
  <1>4. ASSUME NEW v \in Valves
        PROVE  valve'[v].entered \in 0..now
    <2>1. /\ valve[v].entered \in 0..t /\ Shape(valve[v]) /\ ValveInv(v, valve[v], t)
          /\ t \in Nat /\ now \in Int
      BY DEF Bounds, FillerInv, ValveInv
    <2>2. Shape(before[v]) /\ before[v].entered \in 0..now
      <3>1. CASE stopping
        <4> DEFINE a == Abort(v, valve[v], now)
        <4>1. before[v] = a
          BY <3>1
        <4>2. ValveInv(v, a, t) /\ a.entered \in {valve[v].entered, now}
          BY <2>1, AbortInv, EnteredAbort
        <4> HIDE DEF a, before
        <4> QED
          BY <2>1, <4>1, <4>2 DEF ValveInv
      <3>2. CASE ~stopping
        BY <2>1, <3>2
      <3> QED
        BY <3>1, <3>2
    <2>3. valve'[v] = ScanValve(v, before[v], now, running, seen[v])
      BY <1>1
    <2> HIDE DEF before, seen, running
    <2>4. valve'[v].entered \in {before[v].entered, now}
      BY <2>2, <2>3, EnteredScan
    <2> QED
      BY <2>2, <2>4
  <1> QED
    BY <1>1, <1>2, <1>3, <1>4

LEMMA BoundsStep ==
  ASSUME FillerInv, Bounds, [Next]_vars
  PROVE  Bounds'
  <1>0. /\ t \in Nat /\ cmds \in Seq(Command) /\ EndMs \in Nat /\ MaxCommands \in Nat
    BY FillerAssumption DEF FillerInv
  <1>1. ASSUME NEW c \in Command, SubmitCommand(c)
        PROVE  Bounds'
    <2>1. /\ cmds' = Append(cmds, c) /\ submitted' = submitted + 1 /\ submitted < MaxCommands
          /\ UNCHANGED <<t, override, stall, valve, pulses>>
      BY <1>1 DEF SubmitCommand
    <2>2. Len(cmds') = Len(cmds) + 1 /\ Len(cmds) \in Nat
      BY <1>0, <2>1
    <2> QED
      BY <1>0, <2>1, <2>2 DEF Bounds
  <1>2. ASSUME TakeCommand
        PROVE  submitted' = submitted /\ override' \in BOOLEAN /\ Len(cmds') <= submitted'
    <2>1. Len(cmds') <= Len(cmds)
      BY <1>0, <1>2 DEF TakeCommand
    <2>2. override' \in BOOLEAN
      BY <1>2 DEF TakeCommand
    <2>3. Len(cmds) \in Nat /\ Len(cmds') \in Nat
      BY <1>0, <1>2 DEF TakeCommand
    <2> QED
      BY <1>2, <2>1, <2>2, <2>3 DEF TakeCommand, Bounds
  <1>3. CASE ScanStep
    <2>1. PICK p \in PlantStep(t + 1) : Scan(Commanded, t + 1, p)
      BY <1>3 DEF ScanStep
    <2>2. Looping /\ TakeCommand /\ t + 1 <= EndMs /\ p \in [Valves -> 0..MaxPulses]
      BY <1>0, <1>3 DEF ScanStep, Looping, PlantStep
    <2>3. /\ t' <= EndMs /\ stall' \in 0..3 /\ pulses' \in [Valves -> 0..MaxPulses]
          /\ \A v \in Valves : valve'[v].entered \in 0..t'
      BY <1>0, <2>1, <2>2, BoundsScan
    <2>4. submitted' \in 0..MaxCommands
      BY <1>2, <2>2 DEF Bounds
    <2> QED
      BY <1>2, <2>2, <2>3, <2>4 DEF Bounds
  <1>4. CASE SkipPhase
    <2> DEFINE next == machine.entered + machine.dur
               now == IF next < EndMs THEN next ELSE EndMs
    <2>1. Scan(machine, now, pulses) /\ Looping /\ TakeCommand
      BY <1>4 DEF SkipPhase
    <2>2. now \in Nat /\ t <= now /\ now <= EndMs
      BY <1>0, <2>1 DEF Looping, FillerInv, MachineAt
    <2>3. pulses \in [Valves -> 0..MaxPulses]
      BY DEF Bounds
    <2> HIDE DEF now
    <2>4. /\ t' <= EndMs /\ stall' \in 0..3 /\ pulses' \in [Valves -> 0..MaxPulses]
          /\ \A v \in Valves : valve'[v].entered \in 0..t'
      BY <2>1, <2>2, <2>3, BoundsScan
    <2>5. submitted' \in 0..MaxCommands
      BY <1>2, <2>1 DEF Bounds
    <2> QED
      BY <1>2, <2>1, <2>4, <2>5 DEF Bounds
  <1>5. CASE UNCHANGED vars
    BY <1>5 DEF vars, Bounds
  <1> QED
    BY <1>1, <1>3, <1>4, <1>5 DEF Next, Iterate

\* Every variable keeps the shape the loop and the PLC give it, the stall counter
\* never passes the value at which the loop raises, and no valve entered its
\* state in the future.
THEOREM TypeCorrect == Spec => []TypeInvariant
  <1>1. FillerInv /\ Bounds /\ [Next]_vars => Bounds'
    BY BoundsStep
  <1>2. FillerInv /\ Bounds => TypeInvariant
    <2> SUFFICES ASSUME FillerInv, Bounds PROVE TypeInvariant
      OBVIOUS
    <2>1. /\ t \in 0..EndMs /\ machine.entered \in 0..t
      BY FillerAssumption DEF FillerInv, Bounds, MachineAt
    <2>2. machine.idx \in DOMAIN machine.tpl /\ Status(machine) \in Statuses
      <3> DEFINE S == [status : Statuses, dur : Nat \ {0}]
      <3>1. \A x \in S : x.status \in Statuses
        OBVIOUS
      <3>2. machine.tpl \in Seq(S) /\ machine.idx \in DOMAIN machine.tpl
        BY DEF FillerInv, MachineAt, GoodTemplate
      <3> HIDE DEF S
      <3>3. machine.tpl[machine.idx] \in S
        BY <3>2
      <3> QED
        BY <3>1, <3>2, <3>3 DEF Status
    <2>3. \A v \in Valves : /\ valve[v].state \in ValveState
                            /\ valve[v].mech \in {"closed", "open", "closing"}
      BY DEF FillerInv, ValveInv, Shape
    <2> QED
      BY <2>1, <2>2, <2>3 DEF FillerInv, Bounds, TypeInvariant
  <1> QED
    BY <1>1, <1>2, BoundsInit, FillerInvariant, PTL DEF Spec

-----------------------------------------------------------------------------
(* The vectorised scan of plc.py moves every valve as the scalar reference     *)
(* does, for every geometry, day and pulse train that FillerAssumption allows. *)

\* The due time of a valve's record is the one its state has in the reference.
DueTimes(v, r) ==
  /\ r.state = "FLUSHING" => r.due = r.entered + Flush
  /\ r.state = "PRESSURIZING" => r.due = r.entered + Press
  /\ r.state \in {"FILLING", "TAIL"} => r.due = Far
  /\ r.state = "PAUSE" => r.due = r.entered + Pause
  /\ r.state = "SNIFT" => r.due = r.entered + Snift
  /\ r.state = "SAFE" => r.due = r.entered + Depress
  /\ r.state = "DEAD_ZONE" => r.due = NextWindow(v, r)

\* The next try of an idle valve is not after the next instant of its zone.
NoMiss(v, r, now) ==
  r.state = "IDLE" => \A u \in Int : now < u /\ InZone(v, u) => r.due <= u

Sync(v, r, now) == DueTimes(v, r) /\ NoMiss(v, r, now)

-----------------------------------------------------------------------------
(* The carousel *)

LEMMA DivBounds ==
  ASSUME NEW a \in Int, NEW n \in Nat, n > 0
  PROVE  /\ a \div n \in Int
         /\ (a \div n) * n <= a /\ a < (a \div n) * n + n
  OBVIOUS

LEMMA Multiples ==
  ASSUME NEW i \in Int, NEW j \in Int, NEW n \in Nat, i < j
  PROVE  i * n + n <= j * n
  <1>1. PICK d \in Nat : j = i + 1 + d
    <2>1. j - i - 1 \in Nat /\ j = i + 1 + (j - i - 1)
      OBVIOUS
    <2> QED
      BY <2>1
  <1>2. j * n = i * n + n + d * n
    BY <1>1
  <1>3. d * n \in Nat /\ i * n \in Int
    OBVIOUS
  <1> QED
    BY <1>2, <1>3

\* Outside its zone, a valve is next in it no sooner than LeaveIdle reckons.
LEMMA NextZone ==
  ASSUME NEW v \in Valves, NEW now \in Int, ~InZone(v, now),
         NEW u \in Int, now < u, InZone(v, u)
  PROVE  LET ws == WindowStart(v, now)
         IN (IF now < ws THEN ws ELSE ws + Rotation) <= u
  <1> DEFINE i == now \div Rotation
             j == u \div Rotation
  <1>1. /\ Rotation \in Nat /\ Rotation > 0 /\ Zone \in Nat /\ Phase[v] \in Int
    BY Limits, FillerAssumption
  <1>2. /\ i \in Int /\ i * Rotation <= now /\ now < i * Rotation + Rotation
        /\ j \in Int /\ j * Rotation <= u /\ u < j * Rotation + Rotation
    BY <1>1, DivBounds
  <1>3. WindowStart(v, now) = i * Rotation + Phase[v]
        /\ WindowStart(v, u) = j * Rotation + Phase[v]
    BY DEF WindowStart
  <1> DEFINE a == i * Rotation
             b == j * Rotation
  <1>4. a \in Int /\ b \in Int
    BY <1>1, <1>2
  <1>5. j < i => b + Rotation <= a
    BY <1>1, <1>2, Multiples
  <1>6. i < j => a + Rotation <= b
    BY <1>1, <1>2, Multiples
  <1>7. a <= now /\ now < a + Rotation /\ b <= u /\ u < b + Rotation
        /\ WindowStart(v, now) = a + Phase[v] /\ WindowStart(v, u) = b + Phase[v]
    BY <1>2, <1>3
  <1>8. i = j => a = b
    OBVIOUS
  <1>9. ~(j < i)
    <2> HIDE DEF i, j, a, b
    <2> QED
      BY <1>1, <1>4, <1>5, <1>7
  <1>10. i = j \/ i < j
    <2> HIDE DEF i, j
    <2> QED
      BY <1>2, <1>9
  <1> HIDE DEF i, j, a, b
  <1>11. b + Phase[v] <= u /\ u < b + Phase[v] + Zone
    BY <1>7 DEF InZone
  <1>12. ~(a + Phase[v] <= now /\ now < a + Phase[v] + Zone)
    BY <1>7 DEF InZone
  <1>13. (IF now < a + Phase[v] THEN a + Phase[v] ELSE a + Phase[v] + Rotation) <= u
    <2>1. CASE i = j
      BY <1>1, <1>4, <1>8, <1>11, <1>12, <2>1
    <2>2. CASE i < j
      BY <1>1, <1>4, <1>6, <1>11, <2>2
    <2> QED
      BY <1>10, <2>1, <2>2
  <1> QED
    BY <1>7, <1>13

-----------------------------------------------------------------------------
(* Due times *)

LEMMA GotoIs ==
  ASSUME NEW r, Shape(r), NEW x, NEW now, NEW d
  PROVE  LET a == Goto(r, x, now, d)
         IN /\ DOMAIN a = Field /\ a.state = x /\ a.entered = now /\ a.due = d
            /\ a.start = r.start
  BY DEF Goto, Shape, Field

LEMMA GotoSync ==
  ASSUME NEW v, NEW r, Shape(r), NEW now \in Int,
         NEW a, NEW x, NEW d,
         a.state = x, a.entered = now, a.due = d, a.start = r.start,
         \/ x = "FLUSHING" /\ d = now + Flush
         \/ x = "PRESSURIZING" /\ d = now + Press
         \/ x \in {"FILLING", "TAIL"} /\ d = Far
         \/ x = "PAUSE" /\ d = now + Pause
         \/ x = "SNIFT" /\ d = now + Snift
         \/ x = "SAFE" /\ d = now + Depress
         \/ x = "DEAD_ZONE" /\ d = NextWindow(v, r)
         \/ x = "IDLE" /\ d = now
  PROVE  Sync(v, a, now)
  <1>1. DueTimes(v, a)
    BY DEF DueTimes, NextWindow
  <1>2. NoMiss(v, a, now)
    BY DEF NoMiss
  <1> QED
    BY <1>1, <1>2 DEF Sync

\* One step of a valve's state machine leaves it synchronised.
LEMMA StepSync ==
  ASSUME NEW v \in Valves, NEW r, Shape(r), NEW t0 \in Int, NEW now \in Int, t0 <= now,
         NEW running \in BOOLEAN, Sync(v, r, t0)
  PROVE  Sync(v, ValveStep(v, r, now, running), now)
  <1> DEFINE a == ValveStep(v, r, now, running)
  <1>0. r.state \in ValveState
    BY DEF Shape
  <1>1. CASE r.state = "IDLE"
    <2>0. a = LeaveIdle(v, r, now, running)
      BY <1>1 DEF ValveStep
    <2> HIDE DEF a
    <2>1. CASE ~running
      <3>1. a = r
        BY <2>0, <2>1 DEF LeaveIdle
      <3>2. DueTimes(v, r) /\ NoMiss(v, r, t0)
        BY DEF Sync
      <3>3. NoMiss(v, r, now)
        <4>1. \A u \in Int : now < u => t0 < u
          OBVIOUS
        <4> QED
          BY <1>1, <3>2, <4>1, Zenon DEF NoMiss
      <3> QED
        BY <3>1, <3>2, <3>3 DEF Sync, a
    <2>2. CASE running /\ InZone(v, now)
      <3> DEFINE b == Goto(r, "FLUSHING", now, now + Flush)
      <3>1. a = EnterCycle(r, now)
        BY <2>0, <2>2 DEF LeaveIdle
      <3>2. DOMAIN b = Field /\ b.state = "FLUSHING" /\ b.entered = now /\ b.due = now + Flush
        BY GotoIs
      <3>3. a = [b EXCEPT !.cid = @ + 1, !.start = now, !.pt = 0, !.pac = 0, !.tp = 0,
                          !.reason = ""]
        BY <3>1 DEF EnterCycle
      <3> HIDE DEF b
      <3>4. a.state = "FLUSHING" /\ a.entered = now /\ a.due = now + Flush
        BY <3>2, <3>3 DEF Field
      <3>5. DueTimes(v, a)
        BY <3>4 DEF DueTimes
      <3>6. NoMiss(v, a, now)
        BY <3>4 DEF NoMiss
      <3> QED
        BY <3>5, <3>6 DEF Sync, a
    <2>3. CASE running /\ ~InZone(v, now)
      <3> DEFINE ws == WindowStart(v, now)
                 d == IF now < ws THEN ws ELSE ws + Rotation
      <3>1. a = [r EXCEPT !.due = d]
        BY <2>0, <2>3 DEF LeaveIdle
      <3>2. \A u \in Int : now < u /\ InZone(v, u) => d <= u
        BY <2>3, NextZone
      <3> HIDE DEF d
      <3>3. a.state = "IDLE" /\ a.due = d
        BY <1>1, <3>1 DEF Shape, Field
      <3>4. DueTimes(v, a)
        BY <3>3 DEF DueTimes
      <3>5. NoMiss(v, a, now)
        BY <3>2, <3>3 DEF NoMiss
      <3> QED
        BY <3>4, <3>5 DEF Sync, a
    <2> QED
      BY <2>1, <2>2, <2>3 DEF a
  <1>2. CASE r.state = "FLUSHING"
    <2>1. a = Goto(r, "PRESSURIZING", now, now + Press)
      BY <1>2 DEF ValveStep
    <2> HIDE DEF a
    <2>2. a.state = "PRESSURIZING" /\ a.entered = now /\ a.due = now + Press /\ a.start = r.start
      BY <2>1, GotoIs
    <2> QED
      BY <2>2, GotoSync DEF a
  <1>3. CASE r.state = "PRESSURIZING"
    <2> DEFINE b == Goto(r, "FILLING", now, Far)
    <2>1. a = [b EXCEPT !.open = now, !.mech = "open"]
      BY <1>3 DEF ValveStep, OpenValve
    <2>2. /\ DOMAIN b = Field /\ b.state = "FILLING" /\ b.entered = now /\ b.due = Far
          /\ b.start = r.start
      BY GotoIs
    <2> HIDE DEF a, b
    <2>3. a.state = "FILLING" /\ a.entered = now /\ a.due = Far /\ a.start = r.start
      BY <2>1, <2>2 DEF Field
    <2> QED
      BY <2>3, GotoSync DEF a
  <1>4. CASE r.state = "FILLING" /\ now - r.open >= SafetyLimit
    <2> DEFINE b == Goto(r, "SAFE", now, now + Depress)
    <2>1. a = [b EXCEPT !.reason = "safety_timeout", !.close = now, !.pac = r.pt, !.last = now,
                        !.mech = "closed", !.closed = @ + 1]
      BY <1>4 DEF ValveStep, EnterSafe
    <2>2. /\ DOMAIN b = Field /\ b.state = "SAFE" /\ b.entered = now /\ b.due = now + Depress
          /\ b.start = r.start
      BY GotoIs
    <2> HIDE DEF a, b
    <2>3. a.state = "SAFE" /\ a.entered = now /\ a.due = now + Depress /\ a.start = r.start
      BY <2>1, <2>2 DEF Field
    <2> QED
      BY <2>3, GotoSync DEF a
  <1>5. CASE r.state = "FILLING" /\ ~(now - r.open >= SafetyLimit)
    <2> DEFINE b == Goto(r, "TAIL", now, Far)
    <2>1. a = [b EXCEPT !.reason = IF r.pt >= Target THEN "target" ELSE "encoder_limit",
                        !.close = now, !.pac = r.pt, !.last = now, !.mech = "closing"]
      BY <1>5 DEF ValveStep, CloseValve
    <2>2. /\ DOMAIN b = Field /\ b.state = "TAIL" /\ b.entered = now /\ b.due = Far
          /\ b.start = r.start
      BY GotoIs
    <2> HIDE DEF a, b
    <2>3. a.state = "TAIL" /\ a.entered = now /\ a.due = Far /\ a.start = r.start
      BY <2>1, <2>2 DEF Field
    <2> QED
      BY <2>3, GotoSync DEF a
  <1>6. CASE r.state = "TAIL"
    <2> DEFINE b == Goto(r, "PAUSE", now, now + Pause)
    <2>1. a = [b EXCEPT !.closed = @ + 1]
      BY <1>6 DEF ValveStep, Finalize
    <2>2. /\ DOMAIN b = Field /\ b.state = "PAUSE" /\ b.entered = now /\ b.due = now + Pause
          /\ b.start = r.start
      BY GotoIs
    <2> HIDE DEF a, b
    <2>3. a.state = "PAUSE" /\ a.entered = now /\ a.due = now + Pause /\ a.start = r.start
      BY <2>1, <2>2 DEF Field
    <2> QED
      BY <2>3, GotoSync DEF a
  <1>7. CASE r.state = "PAUSE"
    <2>1. a = Goto(r, "SNIFT", now, now + Snift)
      BY <1>7 DEF ValveStep
    <2> HIDE DEF a
    <2>2. a.state = "SNIFT" /\ a.entered = now /\ a.due = now + Snift /\ a.start = r.start
      BY <2>1, GotoIs
    <2> QED
      BY <2>2, GotoSync DEF a
  <1>8. CASE r.state \in {"SNIFT", "SAFE"}
    <2>1. a = Goto(r, "DEAD_ZONE", now, NextWindow(v, r))
      BY <1>8 DEF ValveStep, ToDeadZone
    <2> HIDE DEF a
    <2>2. a.state = "DEAD_ZONE" /\ a.entered = now /\ a.due = NextWindow(v, r)
          /\ a.start = r.start
      BY <2>1, GotoIs
    <2> QED
      BY <2>2, GotoSync DEF a
  <1>9. CASE r.state = "DEAD_ZONE"
    <2>1. a = Goto(r, "IDLE", now, now)
      BY <1>9 DEF ValveStep
    <2> HIDE DEF a
    <2>2. a.state = "IDLE" /\ a.entered = now /\ a.due = now /\ a.start = r.start
      BY <2>1, GotoIs
    <2> QED
      BY <2>2, GotoSync DEF a
  <1> HIDE DEF a
  <1> QED
    BY <1>0, <1>1, <1>2, <1>3, <1>4, <1>5, <1>6, <1>7, <1>8, <1>9 DEF ValveState, Filling, a

\* What the pulses of a scan leave alone, and what they count.
LEMMA CountIs ==
  ASSUME NEW r, Shape(r), NEW now, NEW p \in Nat
  PROVE  LET c == Count(r, now, p)
         IN /\ Shape(c) /\ c.state = r.state /\ c.due = r.due /\ c.entered = r.entered
            /\ c.start = r.start /\ c.open = r.open
            /\ r.state = "FILLING" => c.pt = r.pt + p
            /\ p = 0 => c.last = r.last
  <1> DEFINE c == Count(r, now, p)
  <1>1. /\ DOMAIN c = Field /\ c.pt \in Int
        /\ \A f \in Field \ {"pt", "tp", "last"} : c[f] = r[f]
        /\ r.state = "FILLING" => c.pt = r.pt + p
        /\ p = 0 => c.last = r.last
    <2>1. CASE r.state = "FILLING"
      BY <2>1 DEF Count, Shape, Field
    <2>2. CASE r.state = "TAIL" /\ p > 0
      <3>1. p # 0 /\ r.state # "FILLING" /\ c = [r EXCEPT !.tp = @ + p, !.last = now]
        BY <2>2 DEF Count
      <3> HIDE DEF c
      <3>2. /\ DOMAIN c = Field /\ c.pt = r.pt
            /\ \A f \in Field \ {"pt", "tp", "last"} : c[f] = r[f]
        BY <3>1 DEF Shape, Field
      <3> QED
        BY <3>1, <3>2 DEF Shape
    <2>3. CASE r.state # "FILLING" /\ ~(r.state = "TAIL" /\ p > 0)
      BY <2>3 DEF Count, Shape, Field
    <2> QED
      BY <2>1, <2>2, <2>3
  <1> HIDE DEF c
  <1>2. /\ c.state = r.state /\ c.due = r.due /\ c.entered = r.entered
        /\ c.start = r.start /\ c.open = r.open /\ c.close = r.close /\ c.mech = r.mech
        /\ c.pac = r.pac /\ c.cid = r.cid /\ c.closed = r.closed /\ c.aborted = r.aborted
    BY <1>1 DEF Field
  <1>3. Shape(c)
    BY <1>1, <1>2 DEF Shape
  <1> QED
    BY <1>1, <1>2, <1>3 DEF c

LEMMA ScanSync ==
  ASSUME NEW v \in Valves, NEW r, Shape(r), NEW t0 \in Int, NEW now \in Int, t0 <= now,
         NEW running \in BOOLEAN, NEW p \in Nat, Sync(v, r, t0)
  PROVE  Sync(v, ScanValve(v, r, now, running, p), now)
  <1> DEFINE c == Count(r, now, p)
  <1>1. /\ Shape(c) /\ c.state = r.state /\ c.due = r.due /\ c.entered = r.entered
        /\ c.start = r.start
    BY CountIs
  <1>2. ScanValve(v, r, now, running, p)
          = IF Candidate(c, now, p) THEN ValveStep(v, c, now, running) ELSE c
    BY DEF ScanValve
  <1> HIDE DEF c
  <1>3. Sync(v, c, t0)
    BY <1>1 DEF Sync, DueTimes, NoMiss, NextWindow
  <1>4. Sync(v, ValveStep(v, c, now, running), now)
    BY <1>1, <1>3, StepSync
  <1>5. Sync(v, c, now)
    <2>1. \A u \in Int : now < u => t0 < u
      OBVIOUS
    <2> QED
      BY <1>3, <2>1, Zenon DEF Sync, NoMiss
  <1> QED
    BY <1>2, <1>4, <1>5

LEMMA AbortSync ==
  ASSUME NEW v \in Valves, NEW r, Shape(r), NEW t0 \in Int, NEW now \in Int, Sync(v, r, t0)
  PROVE  Sync(v, Abort(v, r, now), t0)
  <1>1. CASE r.state \notin Filling
    BY <1>1 DEF Abort
  <1>2. CASE r.state \in Filling
    <2> DEFINE b == Goto(r, "DEAD_ZONE", now, NextWindow(v, r))
               a == Abort(v, r, now)
    <2>1. a = [b EXCEPT !.mech = "closed", !.aborted = @ + 1]
      BY <1>2 DEF Abort, ToDeadZone
    <2>2. /\ DOMAIN b = Field /\ b.state = "DEAD_ZONE" /\ b.entered = now
          /\ b.due = NextWindow(v, r) /\ b.start = r.start
      BY GotoIs
    <2> HIDE DEF a, b
    <2>3. a.state = "DEAD_ZONE" /\ a.due = NextWindow(v, r) /\ a.start = r.start
      BY <2>1, <2>2 DEF Field
    <2>4. Sync(v, a, t0)
      BY <2>3 DEF Sync, DueTimes, NoMiss, NextWindow
    <2> QED
      BY <2>4 DEF a
  <1> QED
    BY <1>1, <1>2

-----------------------------------------------------------------------------
(* The reference *)

LEMMA StepState ==
  ASSUME NEW v \in Valves, NEW r, Shape(r), NEW now \in Int, NEW running \in BOOLEAN
  PROVE  LET s == ValveStep(v, r, now, running).state
         IN /\ r.state = "IDLE" =>
                 s = IF running /\ InZone(v, now) THEN "FLUSHING" ELSE "IDLE"
            /\ r.state = "FLUSHING" => s = "PRESSURIZING"
            /\ r.state = "PRESSURIZING" => s = "FILLING"
            /\ r.state = "FILLING" /\ ~(now - r.open >= SafetyLimit) => s = "TAIL"
            /\ r.state = "TAIL" => s = "PAUSE"
            /\ r.state = "PAUSE" => s = "SNIFT"
            /\ r.state \in {"SNIFT", "SAFE"} => s = "DEAD_ZONE"
            /\ r.state = "DEAD_ZONE" => s = "IDLE"
  <1> DEFINE s == ValveStep(v, r, now, running).state
  <1>1. r.state = "IDLE" => s = IF running /\ InZone(v, now) THEN "FLUSHING" ELSE "IDLE"
    BY DEF ValveStep, LeaveIdle, EnterCycle, Goto, Shape, Field
  <1>2. r.state = "FLUSHING" => s = "PRESSURIZING"
    BY GotoIs DEF ValveStep
  <1>3. r.state = "PRESSURIZING" => s = "FILLING"
    BY DEF ValveStep, OpenValve, Goto, Shape, Field
  <1>4. r.state = "FILLING" /\ ~(now - r.open >= SafetyLimit) => s = "TAIL"
    BY DEF ValveStep, CloseValve, Goto, Shape, Field
  <1>5. r.state = "TAIL" => s = "PAUSE"
    BY DEF ValveStep, Finalize, Goto, Shape, Field
  <1>6. r.state = "PAUSE" => s = "SNIFT"
    BY GotoIs DEF ValveStep
  <1>7. r.state \in {"SNIFT", "SAFE"} => s = "DEAD_ZONE"
    BY GotoIs DEF ValveStep, ToDeadZone
  <1>8. r.state = "DEAD_ZONE" => s = "IDLE"
    BY GotoIs DEF ValveStep
  <1> HIDE DEF s
  <1> QED
    BY <1>1, <1>2, <1>3, <1>4, <1>5, <1>6, <1>7, <1>8 DEF s

\* One valve, one scan: what the candidate masks and due times decide is what
\* the reference decides.
LEMMA ValveFollows ==
  ASSUME NEW v \in Valves, NEW r, Shape(r), r.entered \in Int,
         NEW t0 \in Int, NEW now \in Int, t0 < now, now < Far,
         NEW running \in BOOLEAN, NEW p \in Nat, Sync(v, r, t0),
         r.state = "FILLING" => now - r.open < SafetyLimit
  PROVE  ScanValve(v, r, now, running, p).state = Reference(v, r, now, running, p)
  <1> DEFINE c == Count(r, now, p)
             s == ValveStep(v, c, now, running).state
             a == ScanValve(v, r, now, running, p).state
  <1>0. /\ Shape(c) /\ c.state = r.state /\ c.due = r.due /\ c.open = r.open
        /\ r.state = "FILLING" => c.pt = r.pt + p
        /\ p = 0 => c.last = r.last
        /\ r.open \in Int /\ r.state \in ValveState
    BY CountIs DEF Shape
  <1>1. a = IF Candidate(c, now, p) THEN s ELSE r.state
    BY <1>0 DEF ScanValve
  <1> HIDE DEF c, a
  <1>2. /\ c.state = "IDLE" =>
             s = IF running /\ InZone(v, now) THEN "FLUSHING" ELSE "IDLE"
        /\ c.state = "FLUSHING" => s = "PRESSURIZING"
        /\ c.state = "PRESSURIZING" => s = "FILLING"
        /\ c.state = "FILLING" /\ ~(now - c.open >= SafetyLimit) => s = "TAIL"
        /\ c.state = "TAIL" => s = "PAUSE"
        /\ c.state = "PAUSE" => s = "SNIFT"
        /\ c.state \in {"SNIFT", "SAFE"} => s = "DEAD_ZONE"
        /\ c.state = "DEAD_ZONE" => s = "IDLE"
    BY <1>0, StepState
  <1> HIDE DEF s
  <1>3. Candidate(c, now, p) <=>
          \/ r.state = "FILLING" /\ (r.pt + p >= Target \/ now - r.open >= EncoderLimit)
          \/ r.state = "TAIL" /\ p = 0 /\ now - r.last >= Silence
          \/ now >= r.due
    <2>1. r.state = "FILLING" => ~(now - r.open >= SafetyLimit)
      BY <1>0, Limits
    <2> QED
      BY <1>0, <2>1 DEF Candidate
  <1>4. DueTimes(v, r) /\ NoMiss(v, r, t0)
    BY DEF Sync
  <1>5. a = Reference(v, r, now, running, p)
    <2>1. CASE r.state = "IDLE"
      <3>1. InZone(v, now) => now >= r.due
        BY <1>0, <1>4, <2>1 DEF NoMiss, Shape
      <3>2. Reference(v, r, now, running, p)
              = IF running /\ InZone(v, now) THEN "FLUSHING" ELSE "IDLE"
        BY <2>1 DEF Reference
      <3> QED
        BY <1>0, <1>1, <1>2, <1>3, <2>1, <3>1, <3>2
    <2>2. CASE r.state \in {"FLUSHING", "PRESSURIZING", "PAUSE", "SNIFT", "SAFE"}
      <3>1. /\ r.state = "FLUSHING" => (now >= r.due <=> now - r.entered >= Flush)
            /\ r.state = "PRESSURIZING" => (now >= r.due <=> now - r.entered >= Press)
            /\ r.state = "PAUSE" => (now >= r.due <=> now - r.entered >= Pause)
            /\ r.state = "SNIFT" => (now >= r.due <=> now - r.entered >= Snift)
            /\ r.state = "SAFE" => (now >= r.due <=> now - r.entered >= Depress)
        BY <1>4, Limits DEF DueTimes
      <3>2. Candidate(c, now, p) <=> now >= r.due
        BY <1>3, <2>2
      <3> QED
        BY <1>0, <1>1, <1>2, <2>2, <3>1, <3>2 DEF Reference
    <2>3. CASE r.state = "FILLING"
      <3>1. ~(now >= r.due) /\ ~(now - r.open >= SafetyLimit)
        BY <1>0, <1>4, <2>3, Limits DEF DueTimes
      <3>2. Candidate(c, now, p) <=> r.pt + p >= Target \/ now - r.open >= EncoderLimit
        BY <1>3, <2>3, <3>1
      <3> QED
        BY <1>0, <1>1, <1>2, <2>3, <3>1, <3>2 DEF Reference
    <2>4. CASE r.state = "TAIL"
      <3>1. ~(now >= r.due)
        BY <1>4, <2>4, Limits DEF DueTimes
      <3>2. Candidate(c, now, p) <=> p = 0 /\ now - r.last >= Silence
        BY <1>3, <2>4, <3>1
      <3> QED
        BY <1>0, <1>1, <1>2, <2>4, <3>2 DEF Reference
    <2>5. CASE r.state = "DEAD_ZONE"
      <3>1. Candidate(c, now, p) <=> now >= NextWindow(v, r)
        BY <1>3, <1>4, <2>5 DEF DueTimes
      <3> QED
        BY <1>0, <1>1, <1>2, <2>5, <3>1 DEF Reference
    <2> QED
      BY <1>0, <2>1, <2>2, <2>3, <2>4, <2>5 DEF ValveState, Filling
  <1> QED
    BY <1>5 DEF a

\* Every valve is synchronised with the clock.
SyncInv == \A v \in Valves : Sync(v, valve[v], t)

LEMMA SyncInit == Init => SyncInv
  <1> SUFFICES ASSUME Init, NEW v \in Valves PROVE Sync(v, valve[v], t)
    BY DEF SyncInv
  <1>1. valve[v].state = "IDLE" /\ valve[v].due = 0 /\ t = 0
    BY DEF Init
  <1> QED
    BY <1>1 DEF Sync, DueTimes, NoMiss

Follows ==
  (t' > t /\ ~(was /\ ~was')) =>
    \A v \in Valves :
      valve'[v].state = Reference(v, valve[v], t', was', IF was' THEN pulses'[v] ELSE 0)

\* A scan of the whole machine keeps the valves synchronised and follows the
\* reference.
LEMMA ScanFollows ==
  ASSUME FillerInv, Bounds, SyncInv, NEW m, MachineAt(m, t), NEW now \in Nat, t <= now,
         now <= EndMs, was => now = t + 1, NEW p \in [Valves -> Nat], Scan(m, now, p)
  PROVE  SyncInv' /\ Follows
  <1> DEFINE running == Running(StepMachine(m, now))
             stopping == was /\ ~running
             seen == [v \in Valves |-> IF running THEN p[v] ELSE 0]
             before == [v \in Valves |-> IF stopping THEN Abort(v, valve[v], now)
                                         ELSE valve[v]]
  <1>1. /\ was' = running /\ t' = now
        /\ pulses' = IF stopping THEN [v \in Valves |-> 0] ELSE p
        /\ valve' = [v \in Valves |-> ScanValve(v, before[v], now, running, seen[v])]
    BY DEF Scan
  <1>2. running \in BOOLEAN /\ t \in Nat /\ now < Far
    <2>1. EndMs \in Nat /\ Long \in Nat \ {0}
      BY FillerAssumption
    <2> QED
      BY <2>1 DEF FillerInv, Running, Far
  <1>3. ASSUME NEW v \in Valves
        PROVE  /\ Sync(v, valve[v], t) /\ Shape(valve[v]) /\ ValveInv(v, valve[v], t)
               /\ seen[v] \in Nat /\ valve[v].entered \in Int
               /\ valve'[v] = ScanValve(v, before[v], now, running, seen[v])
    BY <1>1 DEF SyncInv, FillerInv, ValveInv, Bounds
  <1>4. ASSUME NEW v \in Valves
        PROVE  Sync(v, valve'[v], now)
    <2>1. Shape(before[v]) /\ Sync(v, before[v], t)
      <3>1. CASE stopping
        <4> DEFINE a == Abort(v, valve[v], now)
        <4>1. before[v] = a
          BY <3>1
        <4>2. ValveInv(v, a, t) /\ Sync(v, a, t)
          BY <1>2, <1>3, AbortInv, AbortSync
        <4> HIDE DEF a, before
        <4> QED
          BY <4>1, <4>2 DEF ValveInv
      <3>2. CASE ~stopping
        BY <1>3, <3>2
      <3> QED
        BY <3>1, <3>2
    <2>2. seen[v] \in Nat /\ valve'[v] = ScanValve(v, before[v], now, running, seen[v])
      BY <1>3
    <2> HIDE DEF before, seen, running
    <2> QED
      BY <1>2, <2>1, <2>2, ScanSync
  <1>5. ASSUME t' > t, ~(was /\ ~was'), NEW v \in Valves
        PROVE  valve'[v].state
                 = Reference(v, valve[v], t', was', IF was' THEN pulses'[v] ELSE 0)
    <2>1. ~stopping /\ before[v] = valve[v]
      BY <1>1, <1>5
    <2>2. seen[v] = IF was' THEN pulses'[v] ELSE 0
      BY <1>1, <2>1
    <2>3. valve[v].state = "FILLING" => now - valve[v].open < SafetyLimit
      <3>1. valve[v].state = "FILLING" => was
        BY DEF FillerInv, Filling
      <3> QED
        BY <1>2, <1>3, <3>1, Limits DEF ValveInv, Timed, Shape
    <2>4. seen[v] \in Nat /\ valve'[v] = ScanValve(v, valve[v], now, running, seen[v])
      BY <1>3, <2>1
    <2> HIDE DEF before, seen, running, stopping
    <2>5. valve'[v].state = Reference(v, valve[v], now, running, seen[v])
      BY <1>1, <1>2, <1>3, <1>5, <2>3, <2>4, ValveFollows
    <2> QED
      BY <1>1, <2>2, <2>5
  <1> HIDE DEF running
  <1> QED
    BY <1>1, <1>4, <1>5 DEF SyncInv, Follows

LEMMA SyncStep == FillerInv /\ Bounds /\ SyncInv /\ [Next]_vars => SyncInv' /\ [Follows]_vars
  <1> SUFFICES ASSUME FillerInv, Bounds, SyncInv, [Next]_vars
               PROVE  SyncInv' /\ [Follows]_vars
    OBVIOUS
  <1>0. /\ t \in Nat /\ MachineAt(machine, t) /\ EndMs \in Nat /\ cmds \in Seq(Command)
        /\ pulses \in [Valves -> Nat] /\ (was => Running(machine))
    BY FillerAssumption DEF FillerInv
  <1>1. ASSUME NEW c \in Command, SubmitCommand(c)
        PROVE  SyncInv' /\ Follows
    <2>1. UNCHANGED <<t, valve>>
      BY <1>1 DEF SubmitCommand
    <2> QED
      BY <1>0, <2>1 DEF SyncInv, Follows
  <1>2. CASE ScanStep
    <2>1. PICK p \in PlantStep(t + 1) : Scan(Commanded, t + 1, p)
      BY <1>2 DEF ScanStep
    <2>2. p \in [Valves -> Nat]
      <3>1. p \in [Valves -> 0..MaxPulses] /\ MaxPulses \in Nat
        BY FillerAssumption DEF PlantStep
      <3> QED
        BY <3>1
    <2>3. t + 1 <= EndMs
      BY <1>0, <1>2 DEF ScanStep, Looping
    <2>4. MachineAt(Commanded, t)
      <3>1. cmds # <<>> => Head(cmds) \in Command
        BY <1>0
      <3> QED
        BY <1>0, <3>1, ApplyCommandInv DEF Commanded
    <2> QED
      BY <1>0, <2>1, <2>2, <2>3, <2>4, ScanFollows
  <1>3. CASE SkipPhase
    <2> DEFINE next == machine.entered + machine.dur
               now == IF next < EndMs THEN next ELSE EndMs
    <2>1. Scan(machine, now, pulses)
      BY <1>3 DEF SkipPhase
    <2>2. now \in Nat /\ t <= now /\ now <= EndMs
      BY <1>0, <1>3 DEF SkipPhase, Looping, MachineAt
    <2>3. ~was
      BY <1>0, <1>3 DEF SkipPhase, SingleScan, Commanded
    <2> HIDE DEF now
    <2> QED
      BY <1>0, <2>1, <2>2, <2>3, ScanFollows
  <1>4. CASE UNCHANGED vars
    BY <1>4 DEF vars, SyncInv
  <1> QED
    BY <1>1, <1>2, <1>3, <1>4 DEF Next, Iterate

\* The candidates and due times of the vectorised scan lose nothing and are never
\* early: between two scans that no stop separates every valve moves as
\* ValveController.step moves it (plc.py, "semantica invariata").
THEOREM ScanFollowsReferenceCorrect == Spec => ScanFollowsReference
  <1>1. FillerInv /\ Bounds /\ SyncInv /\ [Next]_vars => SyncInv' /\ [Follows]_vars
    BY SyncStep
  <1>2. FillerInv /\ Bounds /\ [Next]_vars => Bounds'
    BY BoundsStep
  <1> QED
    BY <1>1, <1>2, SyncInit, BoundsInit, FillerInvariant, PTL
    DEF Spec, ScanFollowsReference, Follows
=============================================================================
