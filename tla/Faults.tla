------------------------------- MODULE Faults -------------------------------
(***************************************************************************)
(* FaultEngine (plcsim/scenario.py): the faults of a YAML scenario, each   *)
(* applied one cycle ahead when a record closes, and the faults injected   *)
(* while the simulation runs, kept in a registry with a countdown.         *)
(*                                                                         *)
(* The engine is a value e with                                            *)
(*   runtime   the registry _runtime: a fault or NoFault, per valve        *)
(*   channel   what the plant is told: a level per valve and fault type,   *)
(*             0 when healthy (the plant's parameter and _applied_* of a   *)
(*             channel are always written together)                        *)
(*   first     per valve, the first affected cycle that closed, or 0       *)
(* and the operators are its methods.  The lock _rt_lock makes each one    *)
(* atomic; the event log is left out.                                      *)
(*                                                                         *)
(* Severities are integer levels, fine enough for the ramps: a fault gains *)
(* step levels at each cycle of its ramp.  A millisecond is Ms levels of a *)
(* delay, which reaches the plant as an int; the others keep their level.  *)
(***************************************************************************)
EXTENDS Integers, Sequences, FiniteSets

CONSTANTS
  Valve,
  FaultType,
  Delay,       \* the types opening_delay and closing_delay
  Ms,          \* levels of a millisecond
  Scenario     \* the faults of the YAML file: [type, valves, step, start, ramp]

\* The parser and the constructor refuse two faults on one valve, and a delay that
\* is not a whole number of milliseconds.
ASSUME ScenarioAssumption ==
  /\ Delay \subseteq FaultType /\ Ms \in Nat \ {0}
  /\ \A f \in Scenario : /\ f.type \in FaultType /\ f.valves \subseteq Valve
                         /\ {f.step, f.start, f.ramp} \subseteq Nat \ {0}
                         /\ f.type \in Delay => (f.step * f.ramp) % Ms = 0
  /\ \A f, g \in Scenario : f # g => f.valves \cap g.valves = {}

NoFault == [type |-> "none"]
Healthy == [c \in FaultType |-> 0]

FaultsOn(v) == {f \in Scenario : v \in f.valves}
Covered(v) == FaultsOn(v) # {}
FaultOn(v) == CHOOSE f \in FaultsOn(v) : TRUE

\* severity_at: 0 before the start, then a linear ramp; abrupt is ramp 1.
SeverityAt(f, k) ==
  LET steps == k - f.start + 1
  IN CASE steps <= 0 -> 0
       [] steps \in 1..f.ramp -> f.step * steps
       [] steps > f.ramp -> f.step * f.ramp

\* int(): a delay in whole milliseconds.
Applied(c, s) == IF c \in Delay THEN Ms * (s \div Ms) ELSE s

\* _apply, _apply_amp: only towards the more severe.
Apply(ch, c, s) ==
  IF Applied(c, s) > ch[c] THEN [ch EXCEPT ![c] = Applied(c, s)] ELSE ch

\* serve without a scenario: no engine, a healthy plant.
NoEngine ==
  [runtime |-> [v \in Valve |-> NoFault],
   channel |-> [v \in Valve |-> Healthy],
   first   |-> [v \in Valve |-> 0]]

\* __init__: faults that start with the first cycle are applied at once.
NewEngine ==
  [runtime |-> [v \in Valve |-> NoFault],
   channel |-> [v \in Valve |->
                  IF Covered(v)
                  THEN Apply(Healthy, FaultOn(v).type, SeverityAt(FaultOn(v), 1))
                  ELSE Healthy],
   first   |-> [v \in Valve |-> 0]]

\* Mutant: the channels keep what the fault left.
RemoveEntry(e, v) ==
  IF e.runtime[v] = NoFault THEN e ELSE [e EXCEPT !.runtime[v] = NoFault]

\* remove: clears every channel of a valve with a runtime fault.
Remove(e, v) ==
  IF e.runtime[v] = NoFault
  THEN e
  ELSE [e EXCEPT !.runtime[v] = NoFault, !.channel[v] = Healthy]

\* inject: refused on a valve of the scenario, replaces a runtime fault.
Inject(e, v, c, s, left) ==
  LET clean == Remove(e, v)
  IN [clean EXCEPT
        !.channel[v] = Apply(@, c, s),
        !.runtime[v] = [type |-> c, sev |-> s, left |-> left]]

GroundTruth(v, k) ==
  IF Covered(v) THEN SeverityAt(FaultOn(v), k) ELSE 0

\* Mutant: the severity of the cycle just closed.
InjectionSame(e, v, k) ==
  IF Covered(v)
  THEN [e EXCEPT !.channel[v] = Apply(@, FaultOn(v).type, SeverityAt(FaultOn(v), k))]
  ELSE e

\* on_cycle (a): the injection for cycle k + 1.
InjectionAhead(e, v, k) ==
  IF Covered(v)
  THEN [e EXCEPT !.channel[v] =
                   Apply(@, FaultOn(v).type, SeverityAt(FaultOn(v), k + 1))]
  ELSE e

\* on_cycle (c): the countdown of a runtime fault, 0 meaning no end.
Countdown(e, v) ==
  CASE e.runtime[v] = NoFault -> e
    [] e.runtime[v] # NoFault /\ e.runtime[v].left = 0 -> e
    [] e.runtime[v] # NoFault /\ e.runtime[v].left = 1 -> Remove(e, v)
    [] e.runtime[v] # NoFault /\ e.runtime[v].left > 1 ->
         [e EXCEPT !.runtime[v].left = @ - 1]

MarkFirst(e, v, k) ==
  IF GroundTruth(v, k) > 0 /\ e.first[v] = 0
  THEN [e EXCEPT !.first[v] = k] ELSE e

\* on_cycle: called with the record of cycle k of valve v.
OnCycle(e, v, k) == Countdown(MarkFirst(InjectionAhead(e, v, k), v, k), v)
=============================================================================
