------------------------------- MODULE Filler -------------------------------
(***************************************************************************)
(* The virtual filler of plcsim: the machine controller with its command   *)
(* layer, the virtual PLC that scans every valve, and the loop of          *)
(* realtime.py that drives both (run.py runs the same loop with no         *)
(* command).                                                               *)
(*                                                                         *)
(* The thread of the OPC UA server queues commands while the loop runs;    *)
(* an iteration of the loop is one action, since nothing else writes what  *)
(* it reads after it took its command.                                     *)
(*                                                                         *)
(* Abstractions.  One unit of time is one scan.  The physics of the plant  *)
(* is any number of pulses up to MaxPulses on a valve that can flow: what  *)
(* pressure, restriction, dropout, glitch and delays can do to the         *)
(* channel.  The closing ramp, its delay and the spurious pulses the       *)
(* flowmeter tolerates after it last at most MaxRamp.                      *)
(***************************************************************************)
EXTENDS Integers, Sequences, FiniteSets

CONSTANTS
  Valves,
  Phase,        \* [Valves -> Nat]: angular offset of each valve
  Rotation,     \* rotation_ms
  Zone,         \* length of the useful zone of a rotation
  Flush, Press, Pause, Snift,   \* durations of the timed phases
  Silence,      \* silence_ms: no pulse for so long ends the tail
  Depress,      \* the 500 ms of SAFE_DEPRESSURIZATION
  Target,       \* target_pulses
  Tolerance,    \* tolerance_pulses
  FillTimeLimit,\* fill_time_limit_ms, a diagnostic threshold
  SafetyMargin, \* fill_safety_margin_ms
  TailLimit,    \* tail_time_limit_ms
  Day,          \* day_hours: a sequence of [status, dur]
  Transition,   \* TRANSITION_MS
  Long,         \* LONG_HOURS
  MaxPulses,    \* bound: pulses of one scan
  MaxRamp,      \* bound: how long a closing valve flows
  EndMs,        \* horizon of run_until
  MaxCommands   \* bound: commands submitted

\* The useful filling window seen from the open command (fill_window_ms).
EncoderLimit == Zone - Flush - Press
\* The absolute limit of FILLING.
SafetyLimit == FillTimeLimit + SafetyMargin

Statuses == {"Idle", "Starting", "Running", "Stopping", "Stopped", "Resetting"}

ASSUME FillerAssumption ==
  /\ Phase \in [Valves -> 0..(Rotation - 1)]
  /\ Rotation \in Nat \ {0} /\ Zone \in 1..Rotation
  /\ {Flush, Press, Pause, Snift, Silence, Depress} \subseteq Nat \ {0}
  /\ EncoderLimit \in Nat \ {0}
  /\ SafetyLimit \in Nat /\ EncoderLimit < SafetyLimit
  /\ {Target, Transition, Long} \subseteq Nat \ {0}
  /\ {Tolerance, FillTimeLimit, TailLimit, MaxPulses, MaxRamp,
      EndMs, MaxCommands} \subseteq Nat
  /\ Day \in Seq([status : Statuses, dur : Nat \ {0}]) /\ Day # <<>>

Command == {"stop", "start", "reset"}
Filling == {"FLUSHING", "PRESSURIZING", "FILLING", "TAIL"}
ValveState == Filling \cup {"IDLE", "PAUSE", "SNIFT", "DEAD_ZONE", "SAFE"}
\* "never": the due time of a state without a timer (_FAR).
Far == EndMs + Long

VARIABLES
  t,         \* the simulation clock
  machine,   \* MachineController: [tpl, idx, entered, dur]
  override,  \* _override_active
  cmds,      \* _cmd_queue
  stall,     \* _stall; the loop raises above 2
  was,       \* _prev_running
  valve,     \* the PLC's arrays, one record per valve
  pulses,    \* plant.last_pulses
  emitted,   \* records handed to on_cycle by the last iteration
  submitted  \* commands submitted so far

vars == <<t, machine, override, cmds, stall, was, valve, pulses, emitted, submitted>>

----------------------------------------------------------------------------
(* The machine and its commands *)

Status(m) == m.tpl[m.idx].status
Running(m) == Status(m) = "Running"

\* Mutant: > for >=, a jump lands before the transition it aimed at.
StepMachineLate(m, now) ==
  IF now - m.entered > m.dur
  THEN LET k == (m.idx % Len(m.tpl)) + 1
       IN [m EXCEPT !.idx = k, !.entered = now, !.dur = m.tpl[k].dur]
  ELSE m

\* step: the next phase of the template once the current one is over.
StepMachine(m, now) ==
  IF now - m.entered >= m.dur
  THEN LET k == (m.idx % Len(m.tpl)) + 1
       IN [m EXCEPT !.idx = k, !.entered = now, !.dur = m.tpl[k].dur]
  ELSE m

Phases(first, last) == <<[status |-> first, dur |-> Transition],
                         [status |-> last, dur |-> Long]>>
Override == [stop  |-> Phases("Stopping", "Stopped"),
             start |-> Phases("Starting", "Running"),
             reset |-> Phases("Resetting", "Idle")]
Allowed == [stop  |-> {"Running", "Starting"},
            start |-> {"Stopped", "Idle"},
            reset |-> {"Stopped"}]

Applies(m, c) == Status(m) \in Allowed[c]
\* Mutant: the transition is entered at its end.
ApplyAhead(m, c, now) ==
  IF Applies(m, c)
  THEN [tpl |-> Override[c], idx |-> 1, entered |-> now + Transition, dur |-> Transition]
  ELSE m

\* apply: a command replaces the template, or is consumed without effect.
ApplyCommand(m, c, now) ==
  IF Applies(m, c)
  THEN [tpl |-> Override[c], idx |-> 1, entered |-> now, dur |-> Transition]
  ELSE m

----------------------------------------------------------------------------
(* The carousel *)

\* The valve's window of the rotation that contains now.
WindowStart(v, now) == (now \div Rotation) * Rotation + Phase[v]
InZone(v, now) ==
  LET ws == WindowStart(v, now) IN ws <= now /\ now < ws + Zone

----------------------------------------------------------------------------
(* One valve: r is its record, now the time of the scan *)

Goto(r, s, now, next) ==
  [r EXCEPT !.state = s, !.entered = now, !.due = next]

EnterCycle(r, now) ==
  [Goto(r, "FLUSHING", now, now + Flush) EXCEPT
     !.cid = @ + 1, !.start = now, !.pt = 0, !.pac = 0, !.tp = 0, !.reason = ""]

OpenValve(r, now) ==
  [Goto(r, "FILLING", now, Far) EXCEPT !.open = now, !.mech = "open"]

\* _close: target, else the geometric zone is exhausted.
CloseValve(r, now) ==
  [Goto(r, "TAIL", now, Far) EXCEPT
     !.reason = IF r.pt >= Target THEN "target" ELSE "encoder_limit",
     !.close = now, !.pac = r.pt, !.last = now, !.mech = "closing"]

\* Mutant: the window of the cycle itself.
ThisWindow(v, r) == WindowStart(v, r.start)

\* When the useful zone of the cycle's window comes round again.
NextWindow(v, r) == WindowStart(v, r.start) + Rotation
ToDeadZone(v, r, now) == Goto(r, "DEAD_ZONE", now, NextWindow(v, r))

EnterSafe(r, now) ==
  [Goto(r, "SAFE", now, now + Depress) EXCEPT
     !.reason = "safety_timeout", !.close = now, !.pac = r.pt, !.last = now,
     !.mech = "closed", !.closed = @ + 1]

Finalize(r, now) ==
  [Goto(r, "PAUSE", now, now + Pause) EXCEPT !.closed = @ + 1]

\* Mutant: PAUSE and SNIFT are scrapped too.
AbortAll(v, r, now) ==
  IF r.state \in Filling \cup {"PAUSE", "SNIFT"}
  THEN [ToDeadZone(v, r, now) EXCEPT !.mech = "closed", !.aborted = @ + 1]
  ELSE r
\* Mutant: the tail is left to end by itself.
AbortButTail(v, r, now) ==
  IF r.state \in Filling \ {"TAIL"}
  THEN [ToDeadZone(v, r, now) EXCEPT !.mech = "closed", !.aborted = @ + 1]
  ELSE r

\* _abort_active: the can under way is scrapped, with no record.
Abort(v, r, now) ==
  IF r.state \in Filling
  THEN [ToDeadZone(v, r, now) EXCEPT !.mech = "closed", !.aborted = @ + 1]
  ELSE r

\* Mutant: the next try is always one rotation away.
LeaveIdleLate(v, r, now, running) ==
  CASE ~running -> r
    [] running /\ InZone(v, now) -> EnterCycle(r, now)
    [] running /\ ~InZone(v, now) -> [r EXCEPT !.due = WindowStart(v, now) + Rotation]

LeaveIdle(v, r, now, running) ==
  LET ws == WindowStart(v, now) IN
  CASE ~running -> r
    [] running /\ InZone(v, now) -> EnterCycle(r, now)
    [] running /\ ~InZone(v, now) ->
         [r EXCEPT !.due = IF now < ws THEN ws ELSE ws + Rotation]

\* _transition: one step of the valve's state machine.
ValveStep(v, r, now, running) ==
  CASE r.state = "IDLE" -> LeaveIdle(v, r, now, running)
    [] r.state = "FLUSHING" -> Goto(r, "PRESSURIZING", now, now + Press)
    [] r.state = "PRESSURIZING" -> OpenValve(r, now)
    [] r.state = "FILLING" -> IF now - r.open >= SafetyLimit
                              THEN EnterSafe(r, now) ELSE CloseValve(r, now)
    [] r.state = "TAIL" -> Finalize(r, now)
    [] r.state = "PAUSE" -> Goto(r, "SNIFT", now, now + Snift)
    [] r.state \in {"SNIFT", "SAFE"} -> ToDeadZone(v, r, now)
    [] r.state = "DEAD_ZONE" -> Goto(r, "IDLE", now, now)

\* Pulses count in FILLING; in TAIL they also restart the silence timer.
Count(r, now, p) ==
  CASE r.state = "FILLING" -> [r EXCEPT !.pt = @ + p]
    [] r.state = "TAIL" /\ p > 0 -> [r EXCEPT !.tp = @ + p, !.last = now]
    [] OTHER -> r

\* Mutant: no encoder limit.
CandidateNoEncoder(r, now, p) ==
  \/ r.state = "FILLING" /\ (r.pt >= Target \/ now - r.open >= SafetyLimit)
  \/ r.state = "TAIL" /\ p = 0 /\ now - r.last >= Silence
  \/ now >= r.due

\* The candidates of the vectorised scan.
Candidate(r, now, p) ==
  \/ r.state = "FILLING" /\ (r.pt >= Target \/ now - r.open >= EncoderLimit
                             \/ now - r.open >= SafetyLimit)
  \/ r.state = "TAIL" /\ p = 0 /\ now - r.last >= Silence
  \/ now >= r.due

ScanValve(v, r, now, running, p) ==
  LET c == Count(r, now, p)
  IN IF Candidate(c, now, p) THEN ValveStep(v, c, now, running) ELSE c

\* Mutant: quality by tolerance alone.
CompleteInTolerance(v, r) ==
  LET delta == Target - r.pac
      tt == r.last - r.close
      good == delta \in -Tolerance..Tolerance
      seq == r.reason # "safety_timeout" /\ tt <= TailLimit
  IN [valve |-> v, cid |-> r.cid, pc |-> r.pac, tp |-> r.tp, ft |-> r.close - r.open,
      tt |-> tt, reason |-> r.reason, quality |-> good, sequence |-> seq,
      sample |-> seq /\ r.pac > 0,
      suspect |-> ~good \/ ~seq \/ r.close - r.open > FillTimeLimit]

\* complete_cycle: the record crystallised when the cycle closes.
CompleteCycle(v, r) ==
  LET delta == Target - r.pac
      ft == r.close - r.open
      tt == r.last - r.close
      good == r.reason # "encoder_limit" /\ delta \in -Tolerance..Tolerance
      seq == r.reason # "safety_timeout" /\ tt <= TailLimit
  IN [valve |-> v, cid |-> r.cid, pc |-> r.pac, tp |-> r.tp, ft |-> ft, tt |-> tt,
      reason |-> r.reason, quality |-> good, sequence |-> seq,
      sample |-> seq /\ r.pac > 0,
      suspect |-> ~good \/ ~seq \/ ft > FillTimeLimit]

\* scan: the machine steps, a stop aborts and drains, every valve is scanned.
Scan(m, now, p) ==
  LET stepped == StepMachine(m, now)
      running == Running(stepped)
      stopping == was /\ ~running
      seen == [v \in Valves |-> IF running THEN p[v] ELSE 0]
      before == [v \in Valves |-> IF stopping THEN Abort(v, valve[v], now)
                                              ELSE valve[v]]
  IN /\ machine' = stepped
     /\ was' = running
     /\ pulses' = IF stopping THEN [v \in Valves |-> 0] ELSE p
     /\ valve' = [v \in Valves |-> ScanValve(v, before[v], now, running, seen[v])]
     /\ emitted' = {CompleteCycle(v, valve'[v]) :
                      v \in {w \in Valves : valve'[w].closed > valve[w].closed}}
     /\ t' = now
     /\ stall' = IF now = t THEN stall + 1 ELSE 0

----------------------------------------------------------------------------
(* The loop *)

Init ==
  /\ t = 0 /\ stall = 0 /\ submitted = 0
  /\ machine = [tpl |-> Day, idx |-> 1, entered |-> 0, dur |-> Day[1].dur]
  /\ override = FALSE /\ was = FALSE
  /\ cmds = <<>> /\ emitted = {}
  /\ pulses = [v \in Valves |-> 0]
  /\ valve = [v \in Valves |->
       [state |-> "IDLE", entered |-> 0, due |-> 0, cid |-> 0, start |-> 0,
        open |-> 0, close |-> 0, last |-> 0, pt |-> 0, pac |-> 0, tp |-> 0,
        reason |-> "", mech |-> "closed", closed |-> 0, aborted |-> 0]]

\* submit_command, from the thread of the OPC UA server.
SubmitCommand(c) ==
  /\ submitted < MaxCommands
  /\ cmds' = Append(cmds, c)
  /\ submitted' = submitted + 1
  /\ UNCHANGED <<t, machine, override, stall, was, valve, pulses, emitted>>

\* run_until: the loop goes on until its horizon or a stall.
Looping == t < EndMs /\ stall <= 2

\* What the plant may deliver in a step that ends at now.
CanFlow(r, now) ==
  \/ r.mech = "open"
  \/ r.mech = "closing" /\ now - r.close <= MaxRamp
PlantStep(now) ==
  {p \in [Valves -> 0..MaxPulses] :
     \A v \in Valves : p[v] > 0 => CanFlow(valve[v], now)}

\* _take_command and _apply_command: at most one command per iteration.
Commanded == IF cmds = <<>> THEN machine ELSE ApplyCommand(machine, Head(cmds), t)
SingleScan ==
  Running(Commanded) \/ cmds # <<>> \/ override
TakeCommand ==
  /\ cmds' = IF cmds = <<>> THEN cmds ELSE Tail(cmds)
  /\ override' = (override \/ (cmds # <<>> /\ Applies(machine, Head(cmds))))
  /\ UNCHANGED submitted

\* _iterate, one scan: Running, a command, or an override in force.
ScanStep ==
  /\ Looping
  /\ SingleScan
  /\ TakeCommand
  /\ \E p \in PlantStep(t + 1) : Scan(Commanded, t + 1, p)

\* _iterate, empty phase of the day: jump to the next transition.
SkipPhase ==
  /\ Looping
  /\ ~SingleScan
  /\ TakeCommand
  /\ LET next == machine.entered + machine.dur
     IN Scan(machine, IF next < EndMs THEN next ELSE EndMs, pulses)

Iterate == ScanStep \/ SkipPhase
Next == (\E c \in Command : SubmitCommand(c)) \/ Iterate

\* The loop runs on its own thread; nobody has to send a command.
Spec == Init /\ [][Next]_vars /\ WF_vars(Iterate)

----------------------------------------------------------------------------
(* Properties *)

\* Every variable keeps the shape the loop and the PLC give it.
TypeInvariant ==
  /\ t \in 0..EndMs /\ stall \in 0..3 /\ submitted \in 0..MaxCommands
  /\ machine.idx \in DOMAIN machine.tpl /\ Status(machine) \in Statuses
  /\ machine.entered \in 0..t
  /\ override \in BOOLEAN /\ was \in BOOLEAN
  /\ cmds \in Seq(Command) /\ Len(cmds) <= submitted
  /\ pulses \in [Valves -> 0..MaxPulses]
  /\ DOMAIN valve = Valves
  /\ \A v \in Valves : /\ valve[v].state \in ValveState
                       /\ valve[v].mech \in {"closed", "open", "closing"}
                       /\ valve[v].entered \in 0..t

\* The cycle counter of a valve is gapless: every cycle it numbered has given
\* its one record, was scrapped by a stop, or is under way (plc.py: _finalize,
\* _enter_safe and _abort_active end a cycle, each in its own way).
CyclesAccounted ==
  \A v \in Valves :
    valve[v].cid = valve[v].closed + valve[v].aborted
                   + (IF valve[v].state \in Filling THEN 1 ELSE 0)

\* Interlock of plc.py: while the machine is not Running no valve works a can,
\* and none has its mechanics commanded open, whether the stop came from the
\* day's template, from a command, or in the scan that opened the valve.
StopInterlock ==
  ~Running(machine) =>
    \A v \in Valves : valve[v].state \notin Filling /\ valve[v].mech # "open"

\* A record of good quality is of a can that reached its target within
\* tolerance, was closed for that and not by a limit, and was closed before the
\* useful zone counted from its own start was over (validation.complete_cycle).
GoodRecordIsFull ==
  \A e \in emitted : e.quality =>
    /\ e.pc >= Target /\ e.pc <= Target + Tolerance
    /\ e.reason = "target" /\ e.ft <= EncoderLimit

\* A can is filled for at most one useful zone, counted from the start of its
\* cycle; the PLC keeps no sharper bound, since an idle valve may enter its
\* zone late (after a stop, or when its former cycle was long).
FillWithinOneZone ==
  \A v \in Valves : valve[v].state = "FILLING" => t < valve[v].start + Zone

\* A rotation gives a valve one can: two cycles of a valve start in different
\* windows, also when a stop scraps the first and a start follows in time to
\* enter the same zone again.
OneCyclePerWindow ==
  [][\A v \in Valves :
       (valve[v].cid > 0 /\ valve'[v].cid > valve[v].cid) =>
         WindowStart(v, valve[v].start) < WindowStart(v, valve'[v].start)]_vars

\* ValveController.step, the readable semantics plc.py declares the vectorised
\* scan equivalent to: the state after the scan (VALIDATE is left at once).
Reference(v, r, now, running, p) ==
  LET count == r.pt + p
      elapsed == now - r.entered
      after(d, s) == IF elapsed >= d THEN s ELSE r.state
  IN CASE r.state = "IDLE" ->
            IF running /\ InZone(v, now) THEN "FLUSHING" ELSE "IDLE"
       [] r.state = "FLUSHING" -> after(Flush, "PRESSURIZING")
       [] r.state = "PRESSURIZING" -> after(Press, "FILLING")
       [] r.state = "FILLING" ->
            IF count >= Target \/ now - r.open >= EncoderLimit THEN "TAIL"
            ELSE IF now - r.open >= SafetyLimit THEN "SAFE" ELSE "FILLING"
       [] r.state = "TAIL" ->
            IF p = 0 /\ now - r.last >= Silence THEN "PAUSE" ELSE "TAIL"
       [] r.state = "PAUSE" -> after(Pause, "SNIFT")
       [] r.state = "SNIFT" -> after(Snift, "DEAD_ZONE")
       [] r.state = "DEAD_ZONE" -> IF now >= NextWindow(v, r) THEN "IDLE" ELSE "DEAD_ZONE"
       [] r.state = "SAFE" -> after(Depress, "DEAD_ZONE")

\* The vectorised scan, with its due times and candidate masks, moves every
\* valve as the scalar reference does: no window is missed because a due time
\* was set too late, no timer fires early (docstring of plc.py, "semantica
\* invariata").  A stop is outside the reference, which has no abort.
ScanFollowsReference ==
  [][(t' > t /\ ~(was /\ ~was')) =>
       \A v \in Valves :
         valve'[v].state = Reference(v, valve[v], t', was', IF was' THEN pulses'[v] ELSE 0)]_vars

\* The loop never spins: it reaches its horizon, whatever the day and the
\* commands (the endless loop that rounding the phase durations once caused).
ReachesHorizon == <>(t = EndMs)

=============================================================================
