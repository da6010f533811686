----------------------------- MODULE OpcuaProofs -----------------------------
(* Proofs about modules Faults and Opcua, for every set of valves, every       *)
(* scenario, every length of the change log and every bound.                   *)
EXTENDS Opcua, TLAPS

RuntimeFault == [type : FaultType, sev : Nat \ {0}, left : Nat]
Engine == [runtime : [Valve -> {NoFault} \cup RuntimeFault],
           channel : [Valve -> [FaultType -> Int]],
           first : [Valve -> Nat]]

\* ChannelsFollowRegistry, of one valve: its entry r and its channels ch.
FaithfulAt(v, r, ch) ==
  IF Covered(v) THEN r = NoFault
  ELSE ch = IF r = NoFault THEN Healthy ELSE [Healthy EXCEPT ![r.type] = r.sev]
Faithful(e) == \A v \in Valve : FaithfulAt(v, e.runtime[v], e.channel[v])

EngineInv(e) == e \in Engine /\ Faithful(e)

-----------------------------------------------------------------------------
(* The methods of the engine                                                  *)

LEMMA FaultIsNoNoFault ==
  ASSUME NEW f \in RuntimeFault
  PROVE  f # NoFault
  <1>1. "sev" \in DOMAIN f
    BY DEF RuntimeFault
  <1>2. "sev" \notin DOMAIN NoFault
    BY DEF NoFault
  <1> QED
    BY <1>1, <1>2

LEMMA SeverityType ==
  ASSUME NEW f \in Scenario, NEW k \in Nat
  PROVE  SeverityAt(f, k) \in Int
  <1>1. f.step \in Int /\ f.start \in Int /\ f.ramp \in Nat \ {0}
    BY ScenarioAssumption
  <1> DEFINE steps == k - f.start + 1
  <1>2. steps \in Int
    BY <1>1
  <1>3. f.step * steps \in Int /\ f.step * f.ramp \in Int
    BY <1>1, <1>2
  <1>4. steps <= 0 \/ steps \in 1..f.ramp \/ steps > f.ramp
    BY <1>1, <1>2
  <1> QED
    BY <1>1, <1>2, <1>3, <1>4 DEF SeverityAt

\* Whole milliseconds do not go down.
LEMMA DivisionMonotone ==
  ASSUME NEW a \in Nat, NEW b \in Nat, a <= b, NEW d \in Nat \ {0}
  PROVE  a \div d \in Nat /\ a \div d <= b \div d
  <1> DEFINE x == a \div d
             y == b \div d
  <1>1. /\ x \in Int /\ d * x <= a /\ a < d * (x + 1)
        /\ y \in Int /\ d * y <= b /\ b < d * (y + 1)
    OBVIOUS
  <1> HIDE DEF x, y
  <1>2. x \in Nat
    <2>1. ASSUME x <= -1 PROVE FALSE
      <3>1. d * (x + 1) <= 0
        BY <1>1, <2>1
      <3> QED
        BY <1>1, <3>1
    <2> QED
      BY <1>1, <2>1
  <1>3. ASSUME y < x PROVE FALSE
    <2>1. d * (y + 1) <= d * x
      BY <1>1, <1>3
    <2> QED
      BY <1>1, <2>1
  <1> QED
    BY <1>1, <1>2, <1>3 DEF x, y

\* So many whole milliseconds are that many.
LEMMA WholeDivides ==
  ASSUME NEW n \in Nat, NEW d \in Nat \ {0}
  PROVE  (d * n) \div d = n
  <1> DEFINE x == (d * n) \div d
  <1>1. d * n \in Nat
    OBVIOUS
  <1>2. x \in Int /\ d * x <= d * n /\ d * n < d * (x + 1)
    BY <1>1
  <1> HIDE DEF x
  <1>3. ASSUME x < n PROVE FALSE
    <2>1. d * (x + 1) <= d * n
      BY <1>2, <1>3
    <2> QED
      BY <1>1, <1>2, <2>1
  <1>4. ASSUME n < x PROVE FALSE
    <2>1. d * (n + 1) <= d * x /\ d * (n + 1) = d * n + d
      BY <1>2, <1>4
    <2> QED
      BY <1>1, <1>2, <2>1
  <1> QED
    BY <1>2, <1>3, <1>4 DEF x

\* int(): no higher level gives fewer milliseconds.
LEMMA AppliedMonotone ==
  ASSUME NEW c \in FaultType, NEW a \in Nat, NEW b \in Nat, a <= b
  PROVE  Applied(c, a) \in Nat /\ Applied(c, a) <= Applied(c, b)
  <1>1. Ms \in Nat \ {0}
    BY ScenarioAssumption
  <1> DEFINE x == a \div Ms
             y == b \div Ms
  <1>2. x \in Nat /\ x <= y
    BY <1>1, DivisionMonotone
  <1>3. y \in Nat
    BY <1>1, DivisionMonotone
  <1>4. /\ Applied(c, a) = IF c \in Delay THEN Ms * x ELSE a
        /\ Applied(c, b) = IF c \in Delay THEN Ms * y ELSE b
    BY DEF Applied
  <1> HIDE DEF x, y
  <1>5. Ms * x \in Nat /\ Ms * x <= Ms * y
    BY <1>1, <1>2, <1>3
  <1> QED
    BY <1>4, <1>5

LEMMA AppliedZero ==
  ASSUME NEW c \in FaultType
  PROVE  Applied(c, 0) = 0
  <1>1. Ms \in Nat \ {0} /\ Ms * 0 = 0
    BY ScenarioAssumption
  <1>2. 0 \div Ms = 0
    <2>1. (Ms * 0) \div Ms = 0
      BY <1>1, WholeDivides
    <2> QED
      BY <1>1, <2>1
  <1> QED
    BY <1>1, <1>2 DEF Applied

LEMMA AppliedType ==
  ASSUME NEW c \in FaultType, NEW s \in Int
  PROVE  Applied(c, s) \in Int
  <1>1. s \div Ms \in Int /\ Ms \in Int
    BY ScenarioAssumption
  <1>2. Ms * (s \div Ms) \in Int
    BY <1>1
  <1> QED
    BY <1>2 DEF Applied

LEMMA CoveringFault ==
  ASSUME NEW v \in Valve, Covered(v)
  PROVE  FaultOn(v) \in Scenario /\ FaultOn(v).type \in FaultType
  <1>1. FaultOn(v) \in Scenario
    BY DEF Covered, FaultsOn, FaultOn
  <1> QED
    BY <1>1, ScenarioAssumption

LEMMA ApplyType ==
  ASSUME NEW ch \in [FaultType -> Int], NEW c \in FaultType, NEW s \in Int
  PROVE  Apply(ch, c, s) \in [FaultType -> Int]
  <1>1. Applied(c, s) \in Int
    BY AppliedType
  <1> QED
    BY <1>1 DEF Apply

LEMMA HealthyType == Healthy \in [FaultType -> Int]
  BY DEF Healthy

LEMMA NewEngineInv == EngineInv(NewEngine)
  <1>1. NewEngine \in Engine
    <2>1. ASSUME NEW v \in Valve
          PROVE  (IF Covered(v)
                  THEN Apply(Healthy, FaultOn(v).type, SeverityAt(FaultOn(v), 1))
                  ELSE Healthy) \in [FaultType -> Int]
      BY CoveringFault, SeverityType, ApplyType, HealthyType
    <2> QED
      BY <2>1 DEF NewEngine, Engine
  <1>2. Faithful(NewEngine)
    BY DEF Faithful, FaithfulAt, NewEngine
  <1> QED
    BY <1>1, <1>2 DEF EngineInv

LEMMA NoEngineInv == EngineInv(NoEngine)
  <1>1. NoEngine \in Engine
    BY HealthyType DEF NoEngine, Engine
  <1>2. Faithful(NoEngine)
    BY DEF Faithful, FaithfulAt, NoEngine
  <1> QED
    BY <1>1, <1>2 DEF EngineInv

\* An engine from its fields.
LEMMA EngineOf ==
  ASSUME NEW R \in [Valve -> {NoFault} \cup RuntimeFault],
         NEW C \in [Valve -> [FaultType -> Int]], NEW F \in [Valve -> Nat]
  PROVE  [runtime |-> R, channel |-> C, first |-> F] \in Engine
  BY DEF Engine

\* remove leaves the valve healthy and out of the registry, and the others alone.
LEMMA RemoveInv ==
  ASSUME NEW e, EngineInv(e), NEW v \in Valve
  PROVE  /\ EngineInv(Remove(e, v))
         /\ Remove(e, v).runtime[v] = NoFault
         /\ \A w \in Valve \ {v} : Remove(e, v).runtime[w] = e.runtime[w]
  <1>1. CASE e.runtime[v] = NoFault
    BY <1>1 DEF Remove
  <1>2. CASE e.runtime[v] # NoFault
    <2> DEFINE R == [e.runtime EXCEPT ![v] = NoFault]
               C == [e.channel EXCEPT ![v] = Healthy]
    <2>1. /\ R \in [Valve -> {NoFault} \cup RuntimeFault]
          /\ C \in [Valve -> [FaultType -> Int]]
          /\ e.first \in [Valve -> Nat]
      BY HealthyType DEF EngineInv, Engine
    <2>2. Remove(e, v) = [runtime |-> R, channel |-> C, first |-> e.first]
      BY <1>2 DEF Remove, EngineInv, Engine
    <2>3. ASSUME NEW w \in Valve
          PROVE  FaithfulAt(w, R[w], C[w])
      <3>1. CASE w = v
        <4>1. R[w] = NoFault /\ C[w] = Healthy
          BY <3>1 DEF EngineInv, Engine
        <4> QED
          BY <4>1 DEF FaithfulAt
      <3>2. CASE w # v
        <4>1. R[w] = e.runtime[w] /\ C[w] = e.channel[w]
          BY <3>2 DEF EngineInv, Engine
        <4> QED
          BY <4>1 DEF EngineInv, Faithful
      <3> QED
        BY <3>1, <3>2
    <2>4. R[v] = NoFault /\ \A w \in Valve \ {v} : R[w] = e.runtime[w]
      BY DEF EngineInv, Engine
    <2> HIDE DEF R, C
    <2>5. Remove(e, v) \in Engine
      BY <2>1, <2>2, EngineOf
    <2> QED
      BY <2>2, <2>3, <2>4, <2>5 DEF EngineInv, Faithful
  <1> QED
    BY <1>1, <1>2

\* inject leaves on the valve's channels its new entry and nothing else.
LEMMA InjectInv ==
  ASSUME NEW e, EngineInv(e), NEW v \in Valve, ~Covered(v),
         NEW c \in FaultType, NEW s \in Nat \ {0}, Applied(c, s) = s,
         NEW d \in Duration
  PROVE  /\ EngineInv(Inject(e, v, c, s, d))
         /\ Inject(e, v, c, s, d).runtime[v] = [type |-> c, sev |-> s, left |-> d]
  <1> DEFINE entry == [type |-> c, sev |-> s, left |-> d]
             clean == Remove(e, v)
             R == [clean.runtime EXCEPT ![v] = entry]
             C == [clean.channel EXCEPT ![v] = Apply(@, c, s)]
  <1>1. s \in Int /\ s > 0 /\ entry \in RuntimeFault
    BY OpcuaAssumption DEF RuntimeFault
  <1>2. EngineInv(clean) /\ clean.runtime[v] = NoFault
    BY RemoveInv
  <1> HIDE DEF clean
  <1>3. clean.channel[v] = Healthy
    BY <1>2 DEF EngineInv, Faithful, FaithfulAt
  <1>4. Apply(Healthy, c, s) = [Healthy EXCEPT ![c] = s]
    BY <1>1 DEF Apply, Healthy
  <1>5. /\ R \in [Valve -> {NoFault} \cup RuntimeFault]
        /\ C \in [Valve -> [FaultType -> Int]]
        /\ clean.first \in [Valve -> Nat]
    <2>1. Apply(clean.channel[v], c, s) \in [FaultType -> Int]
      BY <1>1, <1>3, ApplyType, HealthyType
    <2> QED
      BY <1>1, <1>2, <2>1 DEF EngineInv, Engine
  <1>6. Inject(e, v, c, s, d) = [runtime |-> R, channel |-> C, first |-> clean.first]
    <2>1. clean \in Engine
      BY <1>2 DEF EngineInv
    <2>2. Inject(e, v, c, s, d)
            = [clean EXCEPT !.channel[v] = Apply(@, c, s), !.runtime[v] = entry]
      BY DEF Inject, clean
    <2> QED
      BY <2>1, <2>2 DEF Engine
  <1>7. ASSUME NEW w \in Valve
        PROVE  FaithfulAt(w, R[w], C[w])
    <2>1. CASE w = v
      <3>1. R[w] = entry /\ C[w] = [Healthy EXCEPT ![c] = s]
        BY <1>2, <1>3, <1>4, <2>1 DEF EngineInv, Engine
      <3>2. entry # NoFault /\ entry.type = c /\ entry.sev = s
        <4> HIDE DEF entry
        <4>1. entry # NoFault
          BY <1>1, FaultIsNoNoFault
        <4> QED
          BY <4>1 DEF entry
      <3> QED
        BY <2>1, <3>1, <3>2 DEF FaithfulAt
    <2>2. CASE w # v
      <3>1. R[w] = clean.runtime[w] /\ C[w] = clean.channel[w]
        BY <1>2, <2>2 DEF EngineInv, Engine
      <3> QED
        BY <1>2, <3>1 DEF EngineInv, Faithful
    <2> QED
      BY <2>1, <2>2
  <1>8. R[v] = entry
    BY <1>2 DEF EngineInv, Engine
  <1> HIDE DEF R, C, entry
  <1>9. Inject(e, v, c, s, d) \in Engine
    BY <1>5, <1>6, EngineOf
  <1> QED
    BY <1>6, <1>7, <1>8, <1>9 DEF EngineInv, Faithful, entry

\* The scenario's injection touches a covered valve only.
LEMMA InjectionAheadInv ==
  ASSUME NEW e, EngineInv(e), NEW v \in Valve, NEW k \in Nat
  PROVE  /\ EngineInv(InjectionAhead(e, v, k))
         /\ InjectionAhead(e, v, k).runtime = e.runtime
  <1>1. CASE ~Covered(v)
    BY <1>1 DEF InjectionAhead
  <1>2. CASE Covered(v)
    <2> DEFINE s == SeverityAt(FaultOn(v), k + 1)
               c == FaultOn(v).type
               C == [e.channel EXCEPT ![v] = Apply(@, c, s)]
    <2>1. s \in Int /\ c \in FaultType
      BY <1>2, CoveringFault, SeverityType
    <2> HIDE DEF s, c
    <2>2. Apply(e.channel[v], c, s) \in [FaultType -> Int]
      BY <2>1, ApplyType DEF EngineInv, Engine
    <2>3. /\ e.runtime \in [Valve -> {NoFault} \cup RuntimeFault]
          /\ C \in [Valve -> [FaultType -> Int]]
          /\ e.first \in [Valve -> Nat]
      BY <2>2 DEF EngineInv, Engine
    <2>4. InjectionAhead(e, v, k)
            = [runtime |-> e.runtime, channel |-> C, first |-> e.first]
      BY <1>2 DEF InjectionAhead, EngineInv, Engine, s, c
    <2>5. ASSUME NEW w \in Valve
          PROVE  FaithfulAt(w, e.runtime[w], C[w])
      <3>1. CASE w = v
        BY <1>2, <3>1 DEF EngineInv, Faithful, FaithfulAt
      <3>2. CASE w # v
        <4>1. C[w] = e.channel[w]
          BY <3>2 DEF EngineInv, Engine
        <4> QED
          BY <4>1 DEF EngineInv, Faithful
      <3> QED
        BY <3>1, <3>2
    <2> HIDE DEF C
    <2>6. InjectionAhead(e, v, k) \in Engine
      BY <2>3, <2>4, EngineOf
    <2> QED
      BY <2>4, <2>5, <2>6 DEF EngineInv, Faithful
  <1> QED
    BY <1>1, <1>2

LEMMA MarkFirstInv ==
  ASSUME NEW e, EngineInv(e), NEW v \in Valve, NEW k \in Nat
  PROVE  /\ EngineInv(MarkFirst(e, v, k))
         /\ MarkFirst(e, v, k).runtime = e.runtime
  <1> DEFINE F == [e.first EXCEPT ![v] = k]
  <1>1. CASE MarkFirst(e, v, k) = e
    BY <1>1
  <1>2. CASE MarkFirst(e, v, k) # e
    <2>1. /\ e.runtime \in [Valve -> {NoFault} \cup RuntimeFault]
          /\ e.channel \in [Valve -> [FaultType -> Int]]
          /\ F \in [Valve -> Nat]
      BY DEF EngineInv, Engine
    <2>2. MarkFirst(e, v, k)
            = [runtime |-> e.runtime, channel |-> e.channel, first |-> F]
      BY <1>2 DEF MarkFirst, EngineInv, Engine
    <2> HIDE DEF F
    <2>3. MarkFirst(e, v, k) \in Engine
      BY <2>1, <2>2, EngineOf
    <2> QED
      BY <2>2, <2>3 DEF EngineInv, Faithful
  <1> QED
    BY <1>1, <1>2

\* What a cycle may do to an entry of the registry.
Counted(r, q) ==
  \/ q = NoFault /\ (r = NoFault \/ r.left > 0)
  \/ /\ r # NoFault /\ q # NoFault
     /\ q.type = r.type /\ q.sev = r.sev /\ q.left \in 0..r.left

LEMMA CountdownInv ==
  ASSUME NEW e, EngineInv(e), NEW v \in Valve
  PROVE  /\ EngineInv(Countdown(e, v))
         /\ \A w \in Valve : Counted(e.runtime[w], Countdown(e, v).runtime[w])
  <1> DEFINE r == e.runtime[v]
  <1>0. \A w \in Valve : Counted(e.runtime[w], e.runtime[w])
    <2> SUFFICES ASSUME NEW w \in Valve, e.runtime[w] # NoFault
                 PROVE  Counted(e.runtime[w], e.runtime[w])
      BY DEF Counted
    <2>1. e.runtime[w] \in RuntimeFault
      BY DEF EngineInv, Engine
    <2> QED
      BY <2>1 DEF Counted, RuntimeFault
  <1>1. CASE r = NoFault
    BY <1>0, <1>1 DEF Countdown
  <1>2. CASE r # NoFault
    <2>1. r \in RuntimeFault /\ r.left \in Nat
      BY <1>2 DEF EngineInv, Engine, RuntimeFault
    <2>2. CASE r.left = 0
      BY <1>0, <1>2, <2>2 DEF Countdown
    <2>3. CASE r.left = 1
      <3>1. Countdown(e, v) = Remove(e, v)
        BY <1>2, <2>3 DEF Countdown
      <3>2. Counted(r, NoFault)
        BY <2>3 DEF Counted
      <3> QED
        BY <1>0, <3>1, <3>2, RemoveInv
    <2>4. CASE r.left > 1
      <3> DEFINE q == [r EXCEPT !.left = @ - 1]
                 R == [e.runtime EXCEPT ![v] = q]
      <3>1. /\ q \in RuntimeFault /\ q.type = r.type /\ q.sev = r.sev
            /\ q.left \in 0..r.left
        BY <2>1, <2>4 DEF RuntimeFault
      <3>2. q # NoFault
        BY <3>1, FaultIsNoNoFault
      <3>3. Countdown(e, v)
              = [runtime |-> R, channel |-> e.channel, first |-> e.first]
        <4>1. Countdown(e, v) = [e EXCEPT !.runtime[v].left = @ - 1]
          BY <1>2, <2>4 DEF Countdown
        <4> QED
          BY <4>1 DEF EngineInv, Engine
      <3> HIDE DEF q
      <3>4. /\ R \in [Valve -> {NoFault} \cup RuntimeFault]
            /\ e.channel \in [Valve -> [FaultType -> Int]]
            /\ e.first \in [Valve -> Nat]
        BY <3>1 DEF EngineInv, Engine
      <3>5. ASSUME NEW w \in Valve
            PROVE  FaithfulAt(w, R[w], e.channel[w]) /\ Counted(e.runtime[w], R[w])
        <4>1. CASE w = v
          <5>1. R[w] = q
            BY <4>1 DEF EngineInv, Engine
          <5>2. FaithfulAt(v, r, e.channel[v])
            BY DEF EngineInv, Faithful
          <5>3. FaithfulAt(v, q, e.channel[v])
            BY <1>2, <3>1, <3>2, <5>2 DEF FaithfulAt
          <5>4. Counted(r, q)
            BY <1>2, <3>1, <3>2 DEF Counted
          <5> QED
            BY <4>1, <5>1, <5>3, <5>4
        <4>2. CASE w # v
          <5>1. R[w] = e.runtime[w]
            BY <4>2 DEF EngineInv, Engine
          <5> QED
            BY <1>0, <5>1 DEF EngineInv, Faithful
        <4> QED
          BY <4>1, <4>2
      <3> HIDE DEF R
      <3>6. Countdown(e, v) \in Engine
        BY <3>3, <3>4, EngineOf
      <3> QED
        BY <3>3, <3>5, <3>6 DEF EngineInv, Faithful
    <2> QED
      BY <2>1, <2>2, <2>3, <2>4
  <1> QED
    BY <1>1, <1>2

LEMMA OnCycleInv ==
  ASSUME NEW e, EngineInv(e), NEW v \in Valve, NEW k \in Nat
  PROVE  /\ EngineInv(OnCycle(e, v, k))
         /\ \A w \in Valve : Counted(e.runtime[w], OnCycle(e, v, k).runtime[w])
  <1> DEFINE a == InjectionAhead(e, v, k)
             b == MarkFirst(a, v, k)
  <1>1. EngineInv(a) /\ a.runtime = e.runtime
    BY InjectionAheadInv
  <1> HIDE DEF a
  <1>2. EngineInv(b) /\ b.runtime = e.runtime
    BY <1>1, MarkFirstInv
  <1> HIDE DEF b
  <1> QED
    BY <1>2, CountdownInv DEF OnCycle, a, b

-----------------------------------------------------------------------------
(* The registry and the writes of the clients                                 *)

RegistryInv ==
  /\ EngineInv(engine)
  /\ cycle \in [Valve -> Nat]
  /\ params \in Params /\ {force, equipped} \subseteq BOOLEAN
  /\ ~equipped => engine = NoEngine
  /\ ForceMeansFault

\* A commanded severity is a whole number of milliseconds of a delay already.
LEMMA CommandedLevel ==
  ASSUME NEW c \in FaultType, NEW s \in Severity
  PROVE  /\ Commanded(c, s) \in Nat \ {0}
         /\ Applied(c, Commanded(c, s)) = Commanded(c, s)
  <1>1. s \in Nat \ {0} /\ Ms \in Nat \ {0}
    BY OpcuaAssumption, ScenarioAssumption
  <1>2. s \div Ms \in Nat
    BY <1>1, DivisionMonotone
  <1>3. Rounded(s) \in Nat
    BY <1>2 DEF Rounded
  <1> DEFINE n == IF Rounded(s) < 1 THEN 1 ELSE Rounded(s)
  <1>4. n \in Nat \ {0}
    BY <1>3
  <1>5. Commanded(c, s) = IF c \in Delay THEN Ms * n ELSE s
    BY DEF Commanded
  <1> HIDE DEF n
  <1>6. Ms * n \in Nat \ {0} /\ (Ms * n) \div Ms = n
    BY <1>1, <1>4, WholeDivides
  <1> QED
    BY <1>1, <1>5, <1>6 DEF Applied

LEMMA ApplyFaultInv ==
  ASSUME EngineInv(engine), equipped, NEW p \in Params, Accepts(p)
  PROVE  /\ EngineInv(ApplyFault(p))
         /\ ApplyFault(p).runtime[p.valve]
              = [type |-> p.type, sev |-> Commanded(p.type, p.sev), left |-> p.left]
  <1> DEFINE s == Commanded(p.type, p.sev)
  <1>1. /\ p.valve \in Valve /\ p.type \in FaultType
        /\ p.sev \in Severity /\ p.left \in Duration
    BY DEF Params
  <1>2. EngineInv(Remove(engine, p.valve)) /\ ~Covered(p.valve)
    BY <1>1, RemoveInv DEF Accepts
  <1>3. s \in Nat \ {0} /\ Applied(p.type, s) = s
    BY <1>1, CommandedLevel
  <1>4. ApplyFault(p) = Inject(Remove(engine, p.valve), p.valve, p.type, s, p.left)
    BY DEF ApplyFault
  <1> HIDE DEF s
  <1>5. /\ EngineInv(Inject(Remove(engine, p.valve), p.valve, p.type, s, p.left))
        /\ Inject(Remove(engine, p.valve), p.valve, p.type, s, p.left).runtime[p.valve]
             = [type |-> p.type, sev |-> s, left |-> p.left]
    BY <1>1, <1>2, <1>3, InjectInv
  <1> QED
    BY <1>4, <1>5 DEF s

\* What ForceMeansFault asks of the target once a write has been applied.
LEMMA AppliedFault ==
  ASSUME EngineInv(engine), ~equipped => engine = NoEngine, equipped \in BOOLEAN,
         NEW p \in Params, Accepts(p),
         params' = p, engine' = ApplyFault(p), equipped' = equipped
  PROVE  /\ EngineInv(engine)' /\ ForceMeansFault'
         /\ ~equipped' => engine' = NoEngine
  <1>1. CASE equipped
    <2> DEFINE entry == [type |-> p.type, sev |-> Commanded(p.type, p.sev),
                         left |-> p.left]
    <2>1. entry \in RuntimeFault /\ p.left \in Nat
      <3>1. p.type \in FaultType /\ p.sev \in Severity /\ p.left \in Duration
        BY DEF Params
      <3>2. Commanded(p.type, p.sev) \in Nat \ {0}
        BY <3>1, CommandedLevel
      <3> QED
        BY <3>1, <3>2, OpcuaAssumption DEF RuntimeFault
    <2>2. engine'.runtime[p.valve] = entry /\ EngineInv(engine')
      BY <1>1, ApplyFaultInv
    <2>3. entry # NoFault
      <3> HIDE DEF entry
      <3> QED
        BY <2>1, FaultIsNoNoFault
    <2>4. /\ entry.type = p.type /\ entry.sev = Commanded(p.type, p.sev)
          /\ entry.left = p.left
      OBVIOUS
    <2> HIDE DEF entry
    <2> QED
      BY <1>1, <2>1, <2>2, <2>3, <2>4 DEF ForceMeansFault
  <1>2. CASE ~equipped
    <2>1. engine' = engine
      BY <1>2 DEF ApplyFault
    <2> QED
      BY <1>2, <2>1 DEF ForceMeansFault
  <1> QED
    BY <1>1, <1>2

LEMMA RegistryInit == Init => RegistryInv
  <1> SUFFICES ASSUME Init PROVE RegistryInv
    OBVIOUS
  <1>1. params \in Params
    BY OpcuaAssumption DEF Init, DefaultParams, Params
  <1>2. EngineInv(engine) /\ (~equipped => engine = NoEngine)
    BY NewEngineInv, NoEngineInv DEF Init
  <1> QED
    BY <1>1, <1>2 DEF Init, RegistryInv, ForceMeansFault

LEMMA RegistryStep == RegistryInv /\ [Next]_vars => RegistryInv'
  <1> SUFFICES ASSUME RegistryInv, [Next]_vars
               PROVE  RegistryInv'
    OBVIOUS
  <1>0. /\ EngineInv(engine) /\ params.valve \in Valve /\ params.left \in Nat
        /\ equipped \in BOOLEAN /\ (~equipped => engine = NoEngine)
    BY OpcuaAssumption DEF RegistryInv, Params
  <1>1. CASE UNCHANGED <<engine, equipped, cycle, params, force>>
    BY <1>1 DEF RegistryInv, ForceMeansFault
  <1>2. ASSUME NEW v \in Valve, NEW p \in Payload, CloseCycle(v, p)
        PROVE  RegistryInv'
    <2> DEFINE k == cycle[v] + 1
    <2>1. /\ k \in Nat /\ cycle' = [cycle EXCEPT ![v] = k]
          /\ engine' = IF equipped THEN OnCycle(engine, v, k) ELSE engine
          /\ UNCHANGED <<params, force, equipped>>
      BY <1>2 DEF CloseCycle, ctlVars, RegistryInv
    <2> HIDE DEF k
    <2>2. CASE equipped
      <3>1. /\ EngineInv(engine')
            /\ Counted(engine.runtime[params.valve], engine'.runtime[params.valve])
        BY <1>0, <2>1, <2>2, OnCycleInv
      <3>2. engine.runtime[params.valve] = NoFault
              \/ engine.runtime[params.valve].left \in Nat
        BY <1>0 DEF EngineInv, Engine, RuntimeFault
      <3>3. ForceMeansFault'
        BY <1>0, <2>1, <2>2, <3>1, <3>2 DEF RegistryInv, ForceMeansFault, Counted
      <3> QED
        BY <2>1, <2>2, <3>1, <3>3 DEF RegistryInv
    <2>3. CASE ~equipped
      BY <2>1, <2>3 DEF RegistryInv, ForceMeansFault
    <2> QED
      BY <2>2, <2>3
  <1>3. ASSUME NEW v \in Valve, ScrapCycle(v)
        PROVE  RegistryInv'
    BY <1>3 DEF ScrapCycle, ctlVars, RegistryInv, ForceMeansFault
  <1>4. CASE RestartServe
    <2>1. params' \in Params
      BY <1>4, OpcuaAssumption DEF RestartServe, DefaultParams, Params
    <2>2. EngineInv(engine') /\ (~equipped' => engine' = NoEngine)
      BY <1>4, NewEngineInv, NoEngineInv DEF RestartServe
    <2> QED
      BY <1>4, <2>1, <2>2 DEF RestartServe, RegistryInv, ForceMeansFault
  <1>5. ASSUME NEW p \in Params, WriteParam(p)
        PROVE  RegistryInv'
    <2>1. UNCHANGED <<cycle, force, equipped>>
      BY <1>5 DEF WriteParam
    <2>2. CASE force /\ ~Accepts(p)
      <3>1. UNCHANGED <<params, engine>>
        BY <1>5, <2>2 DEF WriteParam
      <3> QED
        BY <1>1, <2>1, <3>1
    <2>3. CASE force /\ Accepts(p)
      <3>1. params' = p /\ engine' = ApplyFault(p)
        BY <1>5, <2>3 DEF WriteParam
      <3>2. EngineInv(engine)' /\ ForceMeansFault' /\ (~equipped' => engine' = NoEngine)
        BY <1>0, <2>1, <2>3, <3>1, AppliedFault
      <3> QED
        BY <2>1, <3>1, <3>2 DEF RegistryInv
    <2>4. CASE ~force
      <3>1. params' = p /\ engine' = engine
        BY <1>5, <2>4 DEF WriteParam
      <3>2. ForceMeansFault'
        BY <2>1, <2>4 DEF ForceMeansFault
      <3> QED
        BY <1>0, <2>1, <3>1, <3>2 DEF RegistryInv
    <2> QED
      BY <2>2, <2>3, <2>4 DEF RegistryInv
  <1>6. CASE ForceOn
    <2>1. CASE Accepts(params)
      <3>1. /\ engine' = ApplyFault(params) /\ force' = TRUE
            /\ UNCHANGED <<cycle, params, equipped>>
        BY <1>6, <2>1 DEF ForceOn
      <3>2. params \in Params
        BY DEF RegistryInv
      <3>3. EngineInv(engine)' /\ ForceMeansFault' /\ (~equipped' => engine' = NoEngine)
        BY <1>0, <2>1, <3>1, <3>2, AppliedFault
      <3> QED
        BY <3>1, <3>3 DEF RegistryInv
    <2>2. CASE ~Accepts(params)
      <3>1. UNCHANGED <<engine, equipped, cycle, params, force>>
        BY <1>6, <2>2 DEF ForceOn
      <3> QED
        BY <1>1, <3>1
    <2> QED
      BY <2>1, <2>2
  <1>7. CASE ForceOff
    <2>1. EngineInv(engine') /\ (~equipped' => engine' = NoEngine)
      BY <1>0, <1>7, RemoveInv DEF ForceOff
    <2> QED
      BY <1>7, <2>1 DEF ForceOff, RegistryInv, ForceMeansFault
  <1>8. CASE \/ Drain \/ WriteNode \/ FailWrite
             \/ LoseLink \/ EdgeLink \/ PublishItems \/ Notify \/ Deploy
    BY <1>1, <1>8 DEF Drain, WriteNode, FailWrite, LoseLink, EdgeLink, PublishItems,
                      Notify, Deploy, simVars, ctlVars
  <1>9. CASE UNCHANGED vars
    BY <1>1, <1>9 DEF vars, simVars, ctlVars
  <1> QED
    BY <1>2, <1>3, <1>4, <1>5, <1>6, <1>7, <1>8, <1>9 DEF Next

\* The engine is typed and its channels are a function of its registry, through
\* every step of server, simulator and edge; a server without a scenario has a
\* healthy plant.
THEOREM RegistryInvariant == Spec => []RegistryInv
  BY RegistryInit, RegistryStep, PTL DEF Spec

\* Whatever is injected, replaced, removed or counted down, and however often
\* the simulator restarts, the channels of a valve outside the scenario say
\* what its registry entry says and nothing more (FaultEngine.inject, remove,
\* on_cycle), and a valve of the scenario never enters the registry.
THEOREM ChannelsFollowRegistryCorrect == Spec => []ChannelsFollowRegistry
  <1>1. RegistryInv => ChannelsFollowRegistry
    BY DEF RegistryInv, EngineInv, Faithful, FaithfulAt, ChannelsFollowRegistry
  <1> QED
    BY <1>1, RegistryInvariant, PTL

\* Through every accepted or refused write of the fault parameters, ForceFault
\* TRUE means that the target valve has the fault the parameters describe, the
\* severity of a delay in milliseconds, until its countdown ends; in a server
\* without an engine it means nothing (_commit_fault_param, _apply_fault).
THEOREM ForceMeansFaultCorrect == Spec => []ForceMeansFault
  <1>1. RegistryInv => ForceMeansFault
    BY DEF RegistryInv
  <1> QED
    BY <1>1, RegistryInvariant, PTL

-----------------------------------------------------------------------------
(* The ground truth and the channel of the scenario's fault                   *)

\* severity_at: from 0 up to the fault's severity, never down.
LEMMA SeverityRises ==
  ASSUME NEW f \in Scenario, NEW k \in Nat
  PROVE  0 <= SeverityAt(f, k) /\ SeverityAt(f, k) <= SeverityAt(f, k + 1)
  <1>1. f.step \in Nat /\ f.start \in Nat /\ f.ramp \in Nat \ {0}
    BY ScenarioAssumption
  <1> DEFINE n == k - f.start + 1
             m == k + 1 - f.start + 1
             R(i) == f.step * i
  <1>2. n \in Int /\ m = n + 1
    BY <1>1
  <1>3. /\ n <= 0 => SeverityAt(f, k) = 0
        /\ n \in 1..f.ramp => SeverityAt(f, k) = R(n)
        /\ n > f.ramp => SeverityAt(f, k) = R(f.ramp)
    BY <1>1, <1>2 DEF SeverityAt
  <1>4. /\ m <= 0 => SeverityAt(f, k + 1) = 0
        /\ m \in 1..f.ramp => SeverityAt(f, k + 1) = R(m)
        /\ m > f.ramp => SeverityAt(f, k + 1) = R(f.ramp)
    BY <1>1, <1>2 DEF SeverityAt
  <1>5. ASSUME NEW i \in Nat, NEW j \in Nat, i <= j
        PROVE  R(i) \in Nat /\ R(i) <= R(j)
    BY <1>1, <1>5
  <1> HIDE DEF n, m, R
  <1>6. n <= 0 \/ n \in 1..f.ramp \/ n > f.ramp
    BY <1>1, <1>2
  <1>7. CASE n <= 0
    <2>1. m <= 0 \/ m \in 1..f.ramp
      BY <1>1, <1>2, <1>7
    <2>2. m \in 1..f.ramp => R(m) \in Nat
      BY <1>1, <1>5
    <2> QED
      BY <1>3, <1>4, <1>7, <2>1, <2>2
  <1>8. CASE n \in 1..f.ramp
    <2>1. /\ SeverityAt(f, k) = R(n) /\ n \in Nat /\ m \in Nat /\ n <= m
          /\ R(n) \in Nat /\ R(n) <= R(m) /\ R(n) <= R(f.ramp)
      BY <1>1, <1>2, <1>3, <1>5, <1>8
    <2>2. SeverityAt(f, k + 1) \in {R(m), R(f.ramp)}
      BY <1>1, <1>2, <1>4, <1>8
    <2> QED
      BY <2>1, <2>2
  <1>9. CASE n > f.ramp
    <2>1. SeverityAt(f, k) = R(f.ramp) /\ SeverityAt(f, k + 1) = R(f.ramp)
      BY <1>1, <1>2, <1>3, <1>4, <1>9
    <2>2. R(f.ramp) \in Nat
      BY <1>1, <1>5
    <2> QED
      BY <2>1, <2>2
  <1> QED
    BY <1>6, <1>7, <1>8, <1>9

\* The operations on the registry leave the channels of the scenario's valves.
LEMMA RemoveKeeps ==
  ASSUME NEW e, EngineInv(e), NEW v \in Valve, NEW w \in Valve, Covered(w)
  PROVE  Remove(e, v).channel[w] = e.channel[w]
  <1>1. e \in Engine /\ e.runtime[w] = NoFault
    BY DEF EngineInv, Faithful, FaithfulAt
  <1>2. CASE e.runtime[v] = NoFault
    BY <1>2 DEF Remove
  <1>3. CASE e.runtime[v] # NoFault
    <2> DEFINE C == [e.channel EXCEPT ![v] = Healthy]
    <2>1. Remove(e, v).channel = C /\ v # w
      BY <1>1, <1>3 DEF Remove, Engine
    <2>2. C[w] = e.channel[w]
      BY <1>1, <2>1 DEF Engine
    <2> QED
      BY <2>1, <2>2
  <1> QED
    BY <1>2, <1>3

LEMMA ApplyFaultKeeps ==
  ASSUME EngineInv(engine), equipped, NEW p \in Params, Accepts(p),
         NEW w \in Valve, Covered(w)
  PROVE  ApplyFault(p).channel[w] = engine.channel[w]
  <1> DEFINE a == Remove(engine, p.valve)
             b == Remove(a, p.valve)
  <1>1. p.valve \in Valve /\ p.valve # w
    BY DEF Params, Accepts
  <1>2. EngineInv(a) /\ a.channel[w] = engine.channel[w]
    BY <1>1, RemoveInv, RemoveKeeps
  <1> HIDE DEF a
  <1>3. EngineInv(b) /\ b.channel[w] = a.channel[w]
    BY <1>1, <1>2, RemoveInv, RemoveKeeps
  <1> HIDE DEF b
  <1>4. b \in Engine
    BY <1>3 DEF EngineInv
  <1> DEFINE x == Apply(b.channel[p.valve], p.type, Commanded(p.type, p.sev))
             C == [b.channel EXCEPT ![p.valve] = x]
             R == [b.runtime EXCEPT ![p.valve] =
                     [type |-> p.type, sev |-> Commanded(p.type, p.sev),
                      left |-> p.left]]
  <1>5. ApplyFault(p) = [b EXCEPT !.channel = C, !.runtime = R]
    BY <1>4 DEF ApplyFault, Inject, a, b, Engine
  <1>6. C[w] = b.channel[w]
    BY <1>1, <1>4 DEF Engine
  <1> HIDE DEF C, R
  <1>7. ApplyFault(p).channel = C
    BY <1>4, <1>5 DEF Engine
  <1> QED
    BY <1>2, <1>3, <1>6, <1>7

\* on_cycle: only the scenario's injection moves such a channel.
LEMMA OnCycleChannel ==
  ASSUME NEW e, EngineInv(e), NEW v \in Valve, NEW k \in Nat, NEW w \in Valve,
         Covered(w)
  PROVE  OnCycle(e, v, k).channel[w] =
           IF w = v THEN Apply(e.channel[w], FaultOn(w).type,
                               SeverityAt(FaultOn(w), k + 1))
                    ELSE e.channel[w]
  <1> DEFINE a == InjectionAhead(e, v, k)
             b == MarkFirst(a, v, k)
             c == Countdown(b, v)
  <1>1. EngineInv(a) /\ EngineInv(b)
    <2>1. EngineInv(a)
      BY InjectionAheadInv
    <2> HIDE DEF a
    <2> QED
      BY <2>1, MarkFirstInv
  <1>2. a.channel[w] = IF w = v THEN Apply(e.channel[w], FaultOn(w).type,
                                          SeverityAt(FaultOn(w), k + 1))
                               ELSE e.channel[w]
    <2> DEFINE x == Apply(e.channel[v], FaultOn(v).type, SeverityAt(FaultOn(v), k + 1))
               C == [e.channel EXCEPT ![v] = x]
    <2>1. e \in Engine
      BY DEF EngineInv
    <2>2. Covered(v) => a = [e EXCEPT !.channel = C]
      BY <2>1 DEF InjectionAhead, Engine
    <2>3. ~Covered(v) => a = e /\ w # v
      BY DEF InjectionAhead
    <2>4. C[w] = IF w = v THEN x ELSE e.channel[w]
      BY <2>1 DEF Engine
    <2>5. w = v => x = Apply(e.channel[w], FaultOn(w).type,
                             SeverityAt(FaultOn(w), k + 1))
      OBVIOUS
    <2> HIDE DEF C, x, a
    <2>6. Covered(v) => a.channel = C
      BY <2>1, <2>2 DEF Engine
    <2> QED
      BY <2>3, <2>4, <2>5, <2>6
  <1> HIDE DEF a
  <1>3. b.channel = a.channel
    BY <1>1 DEF MarkFirst, EngineInv, Engine
  <1> HIDE DEF b
  <1>4. c.channel[w] = b.channel[w]
    <2>1. b \in Engine
      BY <1>1 DEF EngineInv
    <2>2. CASE Countdown(b, v) = b
      BY <2>2
    <2>3. CASE Countdown(b, v) = Remove(b, v)
      BY <1>1, <2>3, RemoveKeeps
    <2>4. CASE Countdown(b, v) = [b EXCEPT !.runtime[v].left = @ - 1]
      BY <2>1, <2>4 DEF Engine
    <2>5. \/ b.runtime[v] = NoFault
          \/ b.runtime[v] # NoFault /\ b.runtime[v].left \in Nat
      BY <2>1 DEF Engine, RuntimeFault
    <2>6. \/ b.runtime[v] = NoFault
          \/ /\ b.runtime[v] # NoFault
             /\ \/ b.runtime[v].left = 0 \/ b.runtime[v].left = 1
                \/ b.runtime[v].left > 1
      BY <2>5
    <2> QED
      BY <2>2, <2>3, <2>4, <2>6 DEF Countdown
  <1> QED
    BY <1>2, <1>3, <1>4 DEF OnCycle, a, b, c

\* A valve v of the scenario with channels ch and last cycle k: the next cycle runs
\* under what its own severity applies, unless it follows a scrapped one (late),
\* whose record never came.
InjectedAt(v, ch, k, late) ==
  Covered(v) =>
    LET c == ch[FaultOn(v).type]
        n == Applied(FaultOn(v).type, SeverityAt(FaultOn(v), k + 1))
    IN c <= n /\ (~late => c = n)

TruthInv ==
  /\ RegistryInv
  /\ equipped =>
       \A v \in Valve : InjectedAt(v, engine.channel[v], cycle[v], v \in scrapped)
  /\ GroundTruthTrue

\* What the plant gets rises with the cycle too.
LEMMA AppliedRises ==
  ASSUME NEW f \in Scenario, NEW k \in Nat
  PROVE  /\ Applied(f.type, SeverityAt(f, k)) \in Nat
         /\ Applied(f.type, SeverityAt(f, k)) <= Applied(f.type, SeverityAt(f, k + 1))
  <1>1. f.type \in FaultType
    BY ScenarioAssumption
  <1>2. SeverityAt(f, k) \in Int /\ SeverityAt(f, k + 1) \in Int
    BY SeverityType
  <1>3. 0 <= SeverityAt(f, k) /\ SeverityAt(f, k) <= SeverityAt(f, k + 1)
    BY SeverityRises
  <1>4. SeverityAt(f, k) \in Nat /\ SeverityAt(f, k + 1) \in Nat
    BY <1>2, <1>3
  <1> QED
    BY <1>1, <1>3, <1>4, AppliedMonotone

\* The record of cycle k + 1 comes: what is injected is due for the next one.
LEMMA InjectionDue ==
  ASSUME NEW v \in Valve, Covered(v), NEW ch \in [FaultType -> Int], NEW k \in Nat,
         NEW late, InjectedAt(v, ch, k, late)
  PROVE  LET f == FaultOn(v)
             m == SeverityAt(f, k + 2)
         IN  Apply(ch, f.type, m)[f.type] = Applied(f.type, m)
  <1> DEFINE f == FaultOn(v)
             c == ch[f.type]
             n == Applied(f.type, SeverityAt(f, k + 1))
             s == SeverityAt(f, k + 2)
             m == Applied(f.type, s)
  <1>1. f \in Scenario /\ f.type \in FaultType
    BY CoveringFault
  <1>2. k + 1 \in Nat /\ k + 2 = (k + 1) + 1 /\ k + 2 \in Nat
    OBVIOUS
  <1>3. c <= n
    BY DEF InjectedAt
  <1>4. c \in Int /\ n \in Nat /\ n <= m /\ m \in Nat
    <2> HIDE DEF f
    <2> QED
      BY <1>1, <1>2, AppliedRises
  <1> HIDE DEF f, n, s
  <1>5. Apply(ch, f.type, s)[f.type] = m
    <2> DEFINE a == Applied(f.type, s)
    <2>1. a \in Nat /\ c <= a /\ m = a
      BY <1>3, <1>4
    <2>2. Apply(ch, f.type, s) = IF a > ch[f.type] THEN [ch EXCEPT ![f.type] = a] ELSE ch
      BY DEF Apply
    <2> HIDE DEF a, m
    <2> QED
      BY <1>1, <1>4, <2>1, <2>2
  <1> QED
    BY <1>5 DEF f, s

\* __init__: so it is for the first cycle.
LEMMA NewEngineInjected ==
  ASSUME NEW v \in Valve, NEW late
  PROVE  InjectedAt(v, NewEngine.channel[v], 0, late)
  <1> SUFFICES ASSUME Covered(v)
               PROVE  InjectedAt(v, NewEngine.channel[v], 0, late)
    BY DEF InjectedAt
  <1> DEFINE f == FaultOn(v)
             s == SeverityAt(f, 1)
             m == Applied(f.type, s)
  <1>1. f \in Scenario /\ f.type \in FaultType
    BY CoveringFault
  <1>2. m \in Nat
    BY <1>1, AppliedRises
  <1>3. NewEngine.channel[v] = Apply(Healthy, f.type, s)
    BY DEF NewEngine
  <1>4. 0 + 1 = 1
    OBVIOUS
  <1>5. Apply(Healthy, f.type, s)[f.type] = m
    <2>1. Apply(Healthy, f.type, s)
            = IF m > Healthy[f.type] THEN [Healthy EXCEPT ![f.type] = m] ELSE Healthy
      BY DEF Apply
    <2> HIDE DEF f, s, m
    <2> QED
      BY <1>1, <1>2, <2>1 DEF Healthy
  <1> QED
    BY <1>2, <1>3, <1>4, <1>5 DEF InjectedAt

LEMMA TruthInit == Init => TruthInv
  <1> SUFFICES ASSUME Init PROVE TruthInv
    OBVIOUS
  <1>1. truth = [valve |-> Exposed, said |-> 0, real |-> 0, gap |-> FALSE]
    BY DEF Init
  <1>2. Covered(Exposed) => Applied(FaultOn(Exposed).type, 0) = 0
    BY OpcuaAssumption, CoveringFault, AppliedZero
  <1>3. RegistryInv /\ GroundTruthTrue
    BY <1>1, <1>2, RegistryInit DEF GroundTruthTrue
  <1>4. equipped =>
          \A v \in Valve : engine.channel[v] = NewEngine.channel[v] /\ cycle[v] = 0
    BY DEF Init
  <1> QED
    BY <1>3, <1>4, NewEngineInjected DEF TruthInv

LEMMA TruthStep == TruthInv /\ [Next]_vars => TruthInv'
  <1> DEFINE Injected == equipped => \A v \in Valve :
                InjectedAt(v, engine.channel[v], cycle[v], v \in scrapped)
  <1> SUFFICES ASSUME TruthInv, [Next]_vars
               PROVE  Injected' /\ GroundTruthTrue'
    BY RegistryStep DEF TruthInv
  <1>1. /\ EngineInv(engine) /\ cycle \in [Valve -> Nat] /\ params \in Params
        /\ equipped \in BOOLEAN /\ Injected /\ GroundTruthTrue
    BY DEF TruthInv, RegistryInv
  <1>2. \A v \in Valve : engine.channel[v] \in [FaultType -> Int]
    BY <1>1 DEF EngineInv, Engine
  \* Steps that close or scrap no cycle and leave the channels of the scenario.
  <1>3. ASSUME UNCHANGED <<equipped, cycle, scrapped, truth>>,
               equipped =>
                 \A v \in Valve : Covered(v) => engine'.channel[v] = engine.channel[v]
        PROVE  Injected' /\ GroundTruthTrue'
    BY <1>1, <1>3 DEF InjectedAt, GroundTruthTrue
  <1>4. ASSUME NEW v \in Valve, NEW p \in Payload, CloseCycle(v, p)
        PROVE  Injected' /\ GroundTruthTrue'
    <2> DEFINE k == cycle[v] + 1
    <2>1. CASE ~equipped
      <3>1. equipped' = equipped /\ truth' = truth
        BY <1>4, <2>1 DEF CloseCycle
      <3> QED
        BY <1>1, <2>1, <3>1 DEF GroundTruthTrue
    <2>2. CASE equipped
      <3>1. /\ k \in Nat /\ cycle' = [cycle EXCEPT ![v] = k] /\ scrapped' = scrapped \ {v}
            /\ engine' = OnCycle(engine, v, k)
            /\ truth' = [valve |-> v, said |-> GroundTruth(v, k), gap |-> v \in scrapped,
                         real |-> IF Covered(v)
                                  THEN engine.channel[v][FaultOn(v).type] ELSE 0]
        BY <1>1, <1>4, <2>2 DEF CloseCycle
      <3>2. ASSUME NEW w \in Valve
            PROVE  InjectedAt(w, engine'.channel[w], cycle'[w], w \in scrapped')
        <4> SUFFICES ASSUME Covered(w)
                     PROVE  InjectedAt(w, engine'.channel[w], cycle'[w], w \in scrapped')
          BY DEF InjectedAt
        <4>1. engine'.channel[w] =
                IF w = v THEN Apply(engine.channel[w], FaultOn(w).type,
                                    SeverityAt(FaultOn(w), k + 1))
                         ELSE engine.channel[w]
          BY <1>1, <3>1, OnCycleChannel
        <4>2. InjectedAt(w, engine.channel[w], cycle[w], w \in scrapped)
          BY <1>1, <2>2
        <4>3. CASE w = v
          <5> DEFINE f == FaultOn(w)
                     s == SeverityAt(f, k + 1)
          <5>1. cycle'[w] = k /\ w \notin scrapped' /\ k + 1 = cycle[v] + 2 /\ cycle[v] \in Nat
            BY <1>1, <3>1, <4>3
          <5>2. engine'.channel[w][f.type] = Applied(f.type, s)
            BY <1>1, <1>2, <4>1, <4>2, <4>3, <5>1, InjectionDue
          <5>3. Applied(f.type, s) \in Nat
            <6>1. f \in Scenario /\ k + 1 \in Nat
              BY <3>1, CoveringFault
            <6> QED
              BY <6>1, AppliedRises
          <5> QED
            BY <5>1, <5>2, <5>3 DEF InjectedAt
        <4>4. CASE w # v
          <5>1. /\ cycle'[w] = cycle[w] /\ engine'.channel[w] = engine.channel[w]
                /\ w \in scrapped' <=> w \in scrapped
            BY <1>1, <3>1, <4>1, <4>4
          <5> QED
            BY <4>2, <5>1 DEF InjectedAt
        <4> QED
          BY <4>3, <4>4
      <3>3. GroundTruthTrue'
        <4>1. CASE ~Covered(v)
          BY <3>1, <4>1 DEF GroundTruthTrue, GroundTruth
        <4>2. CASE Covered(v)
          <5> DEFINE c == engine.channel[v][FaultOn(v).type]
                     s == SeverityAt(FaultOn(v), k)
                     n == Applied(FaultOn(v).type, s)
          <5>1. c <= n /\ (v \notin scrapped => c = n)
            BY <1>1, <2>2, <4>2 DEF InjectedAt
          <5>2. c \in Int /\ n \in Nat
            BY <1>2, <3>1, <4>2, CoveringFault, AppliedRises
          <5>3. truth' = [valve |-> v, said |-> s, gap |-> v \in scrapped, real |-> c]
            BY <3>1, <4>2 DEF GroundTruth
          <5>4. truth'.valve = v /\ truth'.gap = (v \in scrapped) /\ truth'.real = c
                /\ Applied(FaultOn(truth'.valve).type, truth'.said) = n
            BY <5>3
          <5> HIDE DEF c, n, s
          <5> QED
            BY <4>2, <5>1, <5>2, <5>4 DEF GroundTruthTrue
        <4> QED
          BY <4>1, <4>2
      <3> QED
        BY <3>2, <3>3
    <2> QED
      BY <2>1, <2>2
  <1>5. ASSUME NEW v \in Valve, ScrapCycle(v)
        PROVE  Injected' /\ GroundTruthTrue'
    <2>1. /\ cycle' = [cycle EXCEPT ![v] = cycle[v] + 1]
          /\ scrapped' = scrapped \cup {v} /\ UNCHANGED <<engine, truth, equipped>>
      BY <1>5 DEF ScrapCycle
    <2>2. ASSUME equipped, NEW w \in Valve
          PROVE  InjectedAt(w, engine.channel[w], cycle'[w], w \in scrapped')
      <3> SUFFICES ASSUME Covered(w)
                   PROVE  InjectedAt(w, engine.channel[w], cycle'[w], w \in scrapped')
        BY DEF InjectedAt
      <3>0. InjectedAt(w, engine.channel[w], cycle[w], w \in scrapped)
        BY <1>1, <2>2
      <3>1. CASE w = v
        <4> DEFINE f == FaultOn(w)
                   c == engine.channel[w][f.type]
                   n == Applied(f.type, SeverityAt(f, cycle[w] + 1))
                   m == Applied(f.type, SeverityAt(f, cycle[w] + 2))
        <4>1. cycle'[w] + 1 = cycle[w] + 2 /\ w \in scrapped' /\ cycle[w] \in Nat
          BY <1>1, <2>1, <3>1
        <4>2. f \in Scenario /\ f.type \in FaultType
          BY CoveringFault
        <4>3. cycle[w] + 1 \in Nat /\ cycle[w] + 2 = (cycle[w] + 1) + 1 /\ c \in Int
          BY <1>2, <4>1, <4>2
        <4>4. c <= n
          BY <3>0 DEF InjectedAt
        <4>5. n \in Nat /\ n <= m /\ m \in Nat
          <5>1. cycle[w] + 2 \in Nat
            BY <4>1
          <5> HIDE DEF f
          <5> QED
            BY <4>2, <4>3, <5>1, AppliedRises
        <4>6. c <= m
          <5> HIDE DEF c, n, m
          <5> QED
            BY <4>3, <4>4, <4>5
        <4> QED
          BY <4>1, <4>6 DEF InjectedAt
      <3>2. CASE w # v
        <4>1. cycle'[w] = cycle[w] /\ (w \in scrapped' <=> w \in scrapped)
          BY <1>1, <2>1, <3>2
        <4> QED
          BY <3>0, <4>1 DEF InjectedAt
      <3> QED
        BY <3>1, <3>2
    <2> QED
      BY <1>1, <2>1, <2>2 DEF GroundTruthTrue
  <1>6. CASE RestartServe
    <2>1. /\ equipped' => engine' = NewEngine
          /\ cycle' = [v \in Valve |-> 0] /\ scrapped' = {} /\ truth' = truth
      BY <1>6 DEF RestartServe
    <2>2. ASSUME NEW v \in Valve
          PROVE  InjectedAt(v, NewEngine.channel[v], 0, v \in {})
      BY NewEngineInjected
    <2> QED
      BY <1>1, <2>1, <2>2 DEF GroundTruthTrue
  <1>7. ASSUME NEW p \in Params, WriteParam(p)
        PROVE  /\ UNCHANGED <<equipped, cycle, scrapped, truth>>
               /\ equipped =>
                    \A v \in Valve : Covered(v) => engine'.channel[v] = engine.channel[v]
    <2>1. engine' = engine \/ (Accepts(p) /\ engine' = ApplyFault(p))
      BY <1>7 DEF WriteParam
    <2> QED
      BY <1>1, <1>7, <2>1, ApplyFaultKeeps DEF WriteParam
  <1>8. CASE ForceOn
    <2>1. engine' = engine \/ (Accepts(params) /\ engine' = ApplyFault(params))
      BY <1>8 DEF ForceOn
    <2>2. equipped =>
            \A v \in Valve : Covered(v) => engine'.channel[v] = engine.channel[v]
      BY <1>1, <2>1, ApplyFaultKeeps
    <2> QED
      BY <1>3, <1>8, <2>2 DEF ForceOn
  <1>9. CASE ForceOff
    <2>1. /\ params.valve \in Valve
          /\ equipped => engine' = Remove(engine, params.valve)
      BY <1>1, <1>9 DEF ForceOff, Params
    <2>2. equipped =>
            \A v \in Valve : Covered(v) => engine'.channel[v] = engine.channel[v]
      BY <1>1, <2>1, RemoveKeeps
    <2> QED
      BY <1>3, <1>9, <2>2 DEF ForceOff
  <1>10. CASE \/ Drain \/ WriteNode \/ FailWrite
              \/ LoseLink \/ EdgeLink \/ PublishItems \/ Notify \/ Deploy
    BY <1>3, <1>10 DEF Drain, WriteNode, FailWrite, LoseLink, EdgeLink, PublishItems,
                       Notify, Deploy, simVars
  <1>11. CASE UNCHANGED vars
    BY <1>3, <1>11 DEF vars, simVars
  <1> QED
    BY <1>3, <1>4, <1>5, <1>6, <1>7, <1>8, <1>9, <1>10, <1>11 DEF Next

\* The ground-truth row of a record states the severity its cycle ran under, whole
\* milliseconds of a delay, and overstates it only after a scrapped cycle, for
\* every scenario, ramps included, and every number of valves and cycles
\* (FaultEngine.ground_truth, on_cycle, _apply).
THEOREM GroundTruthCorrect == Spec => []GroundTruthTrue
  <1>1. TruthInv => GroundTruthTrue
    BY DEF TruthInv
  <1> QED
    BY <1>1, TruthInit, TruthStep, PTL DEF Spec

-----------------------------------------------------------------------------
(* The changes on their way: ids go up along log and out, and never go down   *)
(* along chan and items, which hold the values of the nodes                   *)

Contents == Payload \cup {Unset}

\* A change of log and out, or a notification of chan and items.
Change == ({"pay"} \X Contents) \cup ({"id"} \X Nat)
            \cup ({"pay"} \X Contents \X BOOLEAN) \cup ({"id"} \X Nat \X BOOLEAN)

Holds(s, k) == \E i \in DOMAIN s : s[i][1] = "id" /\ s[i][2] = k
Rises(s) == \A i, j \in DOMAIN s :
              i < j /\ s[i][1] = "id" /\ s[j][1] = "id" => s[i][2] <= s[j][2]
Climbs(s) == \A i, j \in DOMAIN s :
               i < j /\ s[i][1] = "id" /\ s[j][1] = "id" => s[i][2] < s[j][2]
AtLeast(s, n) == \A i \in DOMAIN s : s[i][1] = "id" => n <= s[i][2]
AtMost(s, n) == \A i \in DOMAIN s : s[i][1] = "id" => s[i][2] <= n
Over(s, n) == \A i \in DOMAIN s : s[i][1] = "id" => n < s[i][2]
Below(s, n) == \A i \in DOMAIN s : s[i][1] = "id" => s[i][2] < n
Apart(s, t) == \A i \in DOMAIN s, j \in DOMAIN t :
                 s[i][1] = "id" /\ t[j][1] = "id" => s[i][2] < t[j][2]

\* One value of a tag; the values x and k.
Lone(s) == \A i, j \in DOMAIN s : s[i][1] = s[j][1] => i = j
Are(s, x, k) == \A i \in DOMAIN s : s[i][2] = IF s[i][1] = "id" THEN k ELSE x

StreamType ==
  /\ out \in Seq(Change) /\ log \in Seq(Change)
  /\ items \in Seq(Change) /\ chan \in Seq(Change)
  /\ epoch \in Nat /\ cycle \in [Valve -> Nat]
  /\ snap \in [pay : Contents, id : Nat] /\ nodes \in [pay : Contents, id : Nat]
  /\ store \in [pay : Contents, id : Nat]
  /\ mark \in Nat \cup {None} /\ since \in Nat \cup {None}

StreamInv ==
  /\ StreamType
  /\ Climbs(out) /\ Climbs(log) /\ Apart(out, log)
  /\ Over(out, nodes.id) /\ Over(log, nodes.id)
  /\ AtMost(out, snap.id) /\ AtMost(log, snap.id)
  /\ nodes.id <= snap.id /\ snap.id <= cycle[Exposed]
  /\ Rises(chan) /\ AtMost(chan, nodes.id)
  /\ Lone(items) /\ Are(items, nodes.pay, nodes.id)
  /\ linked \/ (items = <<>> /\ chan = <<>>)

LEMMA ChangeId ==
  ASSUME NEW c \in Change
  PROVE  /\ c[1] \in {"pay", "id"}
         /\ c[1] = "id" => c[2] \in Nat
         /\ c[1] = "pay" => c[2] \in Contents
  BY DEF Change

LEMMA EmptyIds ==
  /\ <<>> \in Seq(Change) /\ Climbs(<<>>) /\ Rises(<<>>) /\ Lone(<<>>)
  /\ \A k : ~Holds(<<>>, k) /\ Over(<<>>, k) /\ AtMost(<<>>, k) /\ AtLeast(<<>>, k)
  /\ \A x, k : Are(<<>>, x, k)
  /\ \A t : Apart(<<>>, t) /\ Apart(t, <<>>)
  <1>1. DOMAIN <<>> = {}
    OBVIOUS
  <1> QED
    BY <1>1 DEF Holds, Climbs, Rises, Lone, Over, AtMost, AtLeast, Are, Apart

LEMMA TailIds ==
  ASSUME NEW s \in Seq(Change), s # <<>>
  PROVE  /\ Head(s) \in Change /\ Tail(s) \in Seq(Change)
         /\ Climbs(s) => Climbs(Tail(s))
         /\ Rises(s) => Rises(Tail(s))
         /\ \A n \in Nat : AtMost(s, n) => AtMost(Tail(s), n)
         /\ \A n \in Nat : AtLeast(s, n) => AtLeast(Tail(s), n)
         /\ \A n : Over(s, n) => Over(Tail(s), n)
         /\ \A t : Apart(s, t) => Apart(Tail(s), t)
         /\ \A k : Holds(s, k) <=>
                     Holds(Tail(s), k) \/ (Head(s)[1] = "id" /\ Head(s)[2] = k)
         /\ Head(s)[1] = "id" =>
              /\ Climbs(s) => Over(Tail(s), Head(s)[2])
              /\ Rises(s) => AtLeast(Tail(s), Head(s)[2])
              /\ \A n \in Nat : AtMost(s, n) => Head(s)[2] <= n
              /\ \A n \in Nat : AtLeast(s, n) => n <= Head(s)[2]
              /\ \A n : Over(s, n) => n < Head(s)[2]
              /\ \A t : Apart(s, t) => Over(t, Head(s)[2])
  <1>1. /\ Head(s) = s[1] /\ 1 \in DOMAIN s
        /\ Head(s) \in Change /\ Tail(s) \in Seq(Change)
    OBVIOUS
  <1>2. \A i \in DOMAIN Tail(s) : /\ i + 1 \in DOMAIN s /\ Tail(s)[i] = s[i + 1]
                                  /\ i \in Nat /\ 1 < i + 1
    OBVIOUS
  <1>3. ASSUME NEW i \in DOMAIN s, i # 1
        PROVE  i - 1 \in DOMAIN Tail(s) /\ Tail(s)[i - 1] = s[i]
    <2>1. i \in 1..Len(s) /\ Len(s) \in Nat
      OBVIOUS
    <2>2. Tail(s) \in Seq(Change) /\ Len(Tail(s)) = Len(s) - 1
      OBVIOUS
    <2>3. i - 1 \in 1..Len(Tail(s))
      BY <1>3, <2>1, <2>2
    <2> QED
      BY <2>1, <2>2, <2>3
  <1>4. (Climbs(s) => Climbs(Tail(s))) /\ (Rises(s) => Rises(Tail(s)))
    BY <1>2 DEF Climbs, Rises
  <1>5. /\ \A n : Over(s, n) => Over(Tail(s), n)
        /\ \A t : Apart(s, t) => Apart(Tail(s), t)
        /\ \A n \in Nat : AtMost(s, n) => AtMost(Tail(s), n)
        /\ \A n \in Nat : AtLeast(s, n) => AtLeast(Tail(s), n)
    BY <1>2 DEF Over, Apart, AtMost, AtLeast
  <1>6. ASSUME NEW k
        PROVE  Holds(s, k) <=> Holds(Tail(s), k) \/ (Head(s)[1] = "id" /\ Head(s)[2] = k)
    <2>1. ASSUME NEW i \in DOMAIN s, s[i][1] = "id", s[i][2] = k
          PROVE  Holds(Tail(s), k) \/ (Head(s)[1] = "id" /\ Head(s)[2] = k)
      BY <1>1, <1>3, <2>1 DEF Holds
    <2> QED
      BY <1>1, <1>2, <2>1 DEF Holds
  <1>7. ASSUME Head(s)[1] = "id"
        PROVE  /\ Climbs(s) => Over(Tail(s), Head(s)[2])
               /\ Rises(s) => AtLeast(Tail(s), Head(s)[2])
               /\ \A n \in Nat : AtMost(s, n) => Head(s)[2] <= n
               /\ \A n \in Nat : AtLeast(s, n) => n <= Head(s)[2]
               /\ \A n : Over(s, n) => n < Head(s)[2]
               /\ \A t : Apart(s, t) => Over(t, Head(s)[2])
    BY <1>1, <1>2, <1>7 DEF Climbs, Rises, AtMost, AtLeast, Over, Apart
  <1> QED
    BY <1>1, <1>4, <1>5, <1>6, <1>7

LEMMA AppendIds ==
  ASSUME NEW s \in Seq(Change), NEW c \in Change
  PROVE  /\ Climbs(s) /\ (c[1] = "id" => Below(s, c[2])) => Climbs(Append(s, c))
         /\ \A n : Over(s, n) /\ (c[1] = "id" => n < c[2]) => Over(Append(s, c), n)
         /\ \A k : Holds(Append(s, c), k) <=> Holds(s, k) \/ (c[1] = "id" /\ c[2] = k)
  <1> DEFINE q == Append(s, c)
  <1>1. /\ \A i \in DOMAIN q : \/ i \in DOMAIN s /\ q[i] = s[i]
                               \/ i = Len(s) + 1 /\ q[i] = c
        /\ \A i \in DOMAIN s : /\ i \in DOMAIN q /\ q[i] = s[i]
                               /\ i \in Nat /\ i <= Len(s)
        /\ Len(s) + 1 \in DOMAIN q /\ q[Len(s) + 1] = c /\ Len(s) \in Nat
    OBVIOUS
  <1> HIDE DEF q
  <1>2. ASSUME Climbs(s), c[1] = "id" => Below(s, c[2])
        PROVE  Climbs(q)
    <2> SUFFICES ASSUME NEW i \in DOMAIN q, NEW j \in DOMAIN q,
                        i < j, q[i][1] = "id", q[j][1] = "id"
                 PROVE  q[i][2] < q[j][2]
      BY DEF Climbs
    <2>1. i \in DOMAIN s /\ q[i] = s[i]
      BY <1>1
    <2> QED
      BY <1>1, <1>2, <2>1 DEF Climbs, Below
  <1>3. ASSUME NEW n, Over(s, n), c[1] = "id" => n < c[2]
        PROVE  Over(q, n)
    BY <1>1, <1>3 DEF Over
  <1>4. ASSUME NEW k
        PROVE  Holds(q, k) <=> Holds(s, k) \/ (c[1] = "id" /\ c[2] = k)
    BY <1>1 DEF Holds
  <1> QED
    BY <1>2, <1>3, <1>4 DEF q

\* What the deque may lose is its oldest ids.
LEMMA KeepIds ==
  ASSUME NEW s \in Seq(Change)
  PROVE  /\ Climbs(s) => Climbs(Keep(s))
         /\ \A n : Over(s, n) => Over(Keep(s), n)
         /\ \A t : Apart(t, s) => Apart(t, Keep(s))
         /\ \A n : AtMost(s, n) => AtMost(Keep(s), n)
         /\ \A k : Holds(Keep(s), k) => Holds(s, k)
         /\ s # <<>> /\ s[Len(s)][1] = "id" => Holds(Keep(s), s[Len(s)][2])
         /\ Keep(s) \in Seq(Change) /\ Len(Keep(s)) <= LogCap
  <1>1. CASE Len(s) <= LogCap
    <2>1. Keep(s) = s /\ (s # <<>> => Len(s) \in DOMAIN s)
      BY <1>1 DEF Keep
    <2> QED
      BY <1>1, <2>1 DEF Holds
  <1>2. CASE Len(s) > LogCap
    <2> DEFINE d == Len(s) - LogCap
    <2>1. /\ d \in Nat /\ d > 0 /\ d < Len(s) /\ Keep(s) = SubSeq(s, d + 1, Len(s))
          /\ Len(s) - d = LogCap
      BY <1>2, OpcuaAssumption DEF Keep
    <2> HIDE DEF d
    <2>2. /\ SubSeq(s, d + 1, Len(s)) \in Seq(Change)
          /\ Len(SubSeq(s, d + 1, Len(s))) = Len(s) - d
          /\ \A i \in DOMAIN SubSeq(s, d + 1, Len(s)) :
               i \in Nat /\ i + d \in DOMAIN s /\ SubSeq(s, d + 1, Len(s))[i] = s[i + d]
      BY <2>1
    <2>3. /\ Keep(s) \in Seq(Change) /\ Len(Keep(s)) = LogCap
          /\ \A i \in DOMAIN Keep(s) :
               i \in Nat /\ i + d \in DOMAIN s /\ Keep(s)[i] = s[i + d]
      BY <2>1, <2>2
    <2>4. ASSUME Climbs(s) PROVE Climbs(Keep(s))
      <3> SUFFICES ASSUME NEW i \in DOMAIN Keep(s), NEW j \in DOMAIN Keep(s), i < j,
                          Keep(s)[i][1] = "id", Keep(s)[j][1] = "id"
                   PROVE  Keep(s)[i][2] < Keep(s)[j][2]
        BY DEF Climbs
      <3>1. /\ i + d \in DOMAIN s /\ Keep(s)[i] = s[i + d]
            /\ j + d \in DOMAIN s /\ Keep(s)[j] = s[j + d] /\ i + d < j + d
        BY <2>1, <2>3
      <3> QED
        BY <2>4, <3>1 DEF Climbs
    <2>5. Len(Keep(s)) <= LogCap
      <3>1. LogCap \in Nat
        BY OpcuaAssumption
      <3> QED
        BY <2>3, <3>1
    <2>6. LogCap \in DOMAIN Keep(s) /\ LogCap + d = Len(s)
      <3>1. LogCap \in Nat \ {0}
        BY OpcuaAssumption
      <3> QED
        BY <2>1, <2>3, <3>1
    <2>7. Keep(s)[LogCap] = s[Len(s)]
      BY <2>3, <2>6
    <2> QED
      BY <2>3, <2>4, <2>5, <2>6, <2>7 DEF Over, Apart, AtMost, Holds
  <1> QED
    BY <1>1, <1>2, OpcuaAssumption

\* The block of a cycle numbered above all before it.
LEMMA BlockIds ==
  ASSUME NEW s \in Seq(Change), NEW k \in Nat, NEW p \in Payload
  PROVE  LET b == s \o Block(k, p)
         IN  /\ b \in Seq(Change)
             /\ Climbs(s) /\ Below(s, k) => Climbs(b)
             /\ \A n : Over(s, n) /\ n < k => Over(b, n)
             /\ \A t : Apart(t, s) /\ Below(t, k) => Apart(t, b)
             /\ Below(s, k) => AtMost(b, k)
             /\ \A m : Holds(b, m) <=> Holds(s, m) \/ m = k
             /\ b # <<>> /\ b[Len(b)] = <<"id", k>>
  <1> DEFINE r == IF snap.pay # p THEN Append(s, <<"pay", p>>) ELSE s
             q == Append(r, <<"id", k>>)
             c == <<"id", k>>
             d == <<"pay", p>>
  <1>1. /\ d \in Change /\ c \in Change /\ c[1] = "id" /\ c[2] = k
        /\ d[1] = "pay" /\ d[1] # "id"
    BY DEF Change, Contents
  <1>2. s \o Block(k, p) = Append(r, c) /\ r \in {s, Append(s, d)}
    BY <1>1 DEF Block
  <1> HIDE DEF c, d, r
  <1>3. /\ r \in Seq(Change)
        /\ Climbs(s) => Climbs(r)
        /\ \A n : Over(s, n) => Over(r, n)
        /\ \A m : Holds(r, m) <=> Holds(s, m)
        /\ \A i \in DOMAIN r : (i \in DOMAIN s /\ r[i] = s[i]) \/ r[i] = d
    <2>1. CASE r = s
      BY <2>1
    <2>2. CASE r = Append(s, d)
      <3>1. /\ Append(s, d) \in Seq(Change)
            /\ \A i \in DOMAIN Append(s, d) :
                 \/ i \in DOMAIN s /\ Append(s, d)[i] = s[i]
                 \/ Append(s, d)[i] = d
        BY <1>1
      <3> QED
        BY <1>1, <2>2, <3>1, AppendIds
    <2> QED
      BY <1>2, <2>1, <2>2
  <1>4. Below(s, k) => Below(r, k)
    BY <1>1, <1>3 DEF Below
  <1> DEFINE b == Append(r, c)
  <1>5. /\ b \in Seq(Change)
        /\ \A j \in DOMAIN b : (j \in DOMAIN r /\ b[j] = r[j]) \/ b[j] = c
        /\ b # <<>> /\ b[Len(b)] = c
    BY <1>1, <1>3
  <1>6. /\ Climbs(s) /\ Below(s, k) => Climbs(b)
        /\ \A n : Over(s, n) /\ n < k => Over(b, n)
        /\ \A m : Holds(b, m) <=> Holds(s, m) \/ m = k
    BY <1>1, <1>3, <1>4, AppendIds
  <1> HIDE DEF b
  <1>7. ASSUME NEW t, Apart(t, s), Below(t, k)
        PROVE  Apart(t, b)
    BY <1>1, <1>3, <1>5, <1>7 DEF Apart, Below
  <1>8. ASSUME Below(s, k)
        PROVE  AtMost(b, k)
    <2>1. ASSUME NEW j \in DOMAIN b, b[j][1] = "id"
          PROVE  b[j][2] <= k
      <3>1. CASE b[j] = c
        BY <1>1, <3>1
      <3>2. CASE j \in DOMAIN r /\ b[j] = r[j]
        <4>1. r[j] \in Change /\ r[j][2] < k
          BY <1>3, <1>4, <1>8, <2>1, <3>2 DEF Below
        <4> QED
          BY <2>1, <3>2, <4>1, ChangeId
      <3> QED
        BY <1>5, <3>1, <3>2
    <2> QED
      BY <2>1 DEF AtMost
  <1> QED
    BY <1>2, <1>5, <1>6, <1>7, <1>8 DEF b, c

\* A publish of the subscription: the ids of the items are all k.
LEMMA ConcatIds ==
  ASSUME NEW s \in Seq(Change), NEW t \in Seq(Change), NEW x, NEW k \in Nat,
         Rises(s), AtMost(s, k), Lone(t), Are(t, x, k)
  PROVE  LET q == s \o t
         IN  /\ q \in Seq(Change) /\ Rises(q) /\ AtMost(q, k)
             /\ \A n \in Nat : AtLeast(s, n) /\ n <= k => AtLeast(q, n)
             /\ \A n : Holds(q, n) <=> Holds(s, n) \/ Holds(t, n)
  <1> DEFINE q == s \o t
             m == Len(s)
  <1>1. /\ q \in Seq(Change) /\ m \in Nat /\ Len(t) \in Nat
        /\ DOMAIN q = 1..(m + Len(t)) /\ DOMAIN s = 1..m /\ DOMAIN t = 1..Len(t)
        /\ \A i \in 1..(m + Len(t)) : q[i] = IF i <= m THEN s[i] ELSE t[i - m]
    OBVIOUS
  <1> HIDE DEF q, m
  <1>2. \A i \in DOMAIN q : \/ i <= m /\ i \in DOMAIN s /\ q[i] = s[i]
                            \/ i > m /\ i - m \in DOMAIN t /\ q[i] = t[i - m]
    BY <1>1
  <1>3. /\ \A i \in DOMAIN s : i \in DOMAIN q /\ q[i] = s[i]
        /\ \A i \in DOMAIN t : i + m \in DOMAIN q /\ q[i + m] = t[i]
    BY <1>1
  <1>4. \A i \in DOMAIN t : t[i][1] = "id" => t[i][2] = k
    BY DEF Are
  <1>5. \A i \in DOMAIN q : q[i][1] = "id" => q[i][2] <= k
    BY <1>2, <1>4 DEF AtMost
  <1>6. Rises(q)
    <2> SUFFICES ASSUME NEW i \in DOMAIN q, NEW j \in DOMAIN q, i < j,
                        q[i][1] = "id", q[j][1] = "id"
                 PROVE  q[i][2] <= q[j][2]
      BY DEF Rises
    <2>1. CASE j <= m
      <3>1. i <= m
        BY <1>1, <2>1
      <3> QED
        BY <1>1, <1>2, <2>1, <3>1 DEF Rises
    <2>2. CASE j > m
      <3>1. q[j][2] = k
        BY <1>1, <1>2, <1>4, <2>2
      <3> QED
        BY <1>5, <3>1
    <2> QED
      BY <1>1, <2>1, <2>2
  <1>7. ASSUME NEW n \in Nat, AtLeast(s, n), n <= k
        PROVE  AtLeast(q, n)
    BY <1>2, <1>4, <1>7 DEF AtLeast
  <1>8. ASSUME NEW n
        PROVE  Holds(q, n) <=> Holds(s, n) \/ Holds(t, n)
    BY <1>2, <1>3 DEF Holds
  <1> QED
    BY <1>1, <1>5, <1>6, <1>7, <1>8 DEF AtMost, q

\* A monitored item takes the value of a write.
LEMMA SampleIds ==
  ASSUME NEW s \in Seq(Change), NEW c \in Change, NEW x, NEW k,
         Lone(s), Are(s, x, k)
  PROVE  LET q == Sample(s, c[1], c[2])
         IN  /\ q \in Seq(Change) /\ Lone(q)
             /\ c[1] = "id" => Are(q, x, c[2]) /\ Holds(q, c[2])
             /\ c[1] # "id" => Are(q, c[2], k) /\ (Holds(s, k) => Holds(q, k))
  <1> DEFINE q == Sample(s, c[1], c[2])
             tag == c[1]
             val == c[2]
  <1>1. /\ tag \in {"pay", "id"} /\ (tag = "id" => val \in Nat)
        /\ (tag = "pay" => val \in Contents)
    BY ChangeId
  <1> HIDE DEF tag, val
  <1>2. \A b \in BOOLEAN : <<tag, val, b>> \in Change
    BY <1>1 DEF Change
  <1>3. DOMAIN s = 1..Len(s) /\ Len(s) \in Nat /\ \A i \in DOMAIN s : s[i] \in Change
    OBVIOUS
  <1>4. CASE \E i \in DOMAIN s : s[i][1] = tag
    <2> DEFINE e(i) == <<s[i][1], IF s[i][1] = tag THEN val ELSE s[i][2], FALSE>>
    <2>1. q = [i \in DOMAIN s |-> e(i)]
      BY <1>4 DEF Sample, Overwrite, tag, val
    <2>2. ASSUME NEW i \in DOMAIN s
          PROVE  /\ e(i) \in Change /\ e(i)[1] = s[i][1]
                 /\ e(i)[2] = IF s[i][1] = tag THEN val ELSE s[i][2]
      <3>1. s[i][1] \in {"pay", "id"} /\ (s[i][1] = "id" => s[i][2] \in Nat)
            /\ (s[i][1] = "pay" => s[i][2] \in Contents)
        BY <1>3, ChangeId
      <3> QED
        BY <1>1, <3>1 DEF Change
    <2> HIDE DEF e
    <2>3. q \in Seq(Change)
      BY <1>3, <2>1, <2>2
    <2>4. /\ DOMAIN q = DOMAIN s
          /\ \A i \in DOMAIN s : /\ q[i][1] = s[i][1]
                                 /\ q[i][2] = IF s[i][1] = tag THEN val ELSE s[i][2]
      BY <2>1, <2>2
    <2> HIDE DEF q
    <2>5. Lone(q)
      BY <2>4 DEF Lone
    <2>6. ASSUME tag = "id"
          PROVE  Are(q, x, val) /\ Holds(q, val)
      <3>1. \A i \in DOMAIN s : s[i][2] = IF s[i][1] = "id" THEN k ELSE x
        BY DEF Are
      <3> QED
        BY <1>4, <2>4, <2>6, <3>1 DEF Are, Holds
    <2>7. ASSUME tag # "id"
          PROVE  Are(q, val, k) /\ (Holds(s, k) => Holds(q, k))
      <3>1. \A i \in DOMAIN s : s[i][2] = IF s[i][1] = "id" THEN k ELSE x
        BY DEF Are
      <3>2. \A i \in DOMAIN s : s[i][1] \in {tag, "id"}
        BY <1>1, <1>3, <2>7, ChangeId
      <3> QED
        BY <2>4, <2>7, <3>1, <3>2 DEF Are, Holds
    <2> QED
      BY <2>3, <2>5, <2>6, <2>7 DEF q, tag, val
  <1>5. CASE ~\E i \in DOMAIN s : s[i][1] = tag
    <2> DEFINE d == <<tag, val, TRUE>>
    <2>1. q = Append(s, d)
      BY <1>5 DEF Sample, tag, val
    <2>2. d \in Change /\ d[1] = tag /\ d[2] = val
      BY <1>2
    <2> HIDE DEF d
    <2>3. /\ q \in Seq(Change) /\ DOMAIN q = 1..(Len(s) + 1)
          /\ \A i \in DOMAIN s : i \in DOMAIN q /\ q[i] = s[i] /\ i \in Nat /\ i <= Len(s)
          /\ \A i \in DOMAIN q : (i \in DOMAIN s /\ q[i] = s[i]) \/ (i = Len(s) + 1 /\ q[i] = d)
          /\ Len(s) + 1 \in DOMAIN q /\ q[Len(s) + 1] = d
      BY <1>3, <2>1, <2>2
    <2> HIDE DEF q
    <2>4. Lone(q)
      BY <1>5, <2>2, <2>3 DEF Lone
    <2>5. tag = "id" => Are(q, x, val) /\ Holds(q, val)
      BY <1>5, <2>2, <2>3 DEF Are, Holds
    <2>6. tag # "id" => Are(q, val, k) /\ (Holds(s, k) => Holds(q, k))
      <3>1. tag # "id" => \A i \in DOMAIN s : s[i][1] = "id"
        BY <1>1, <1>3, <1>5, ChangeId
      <3> QED
        BY <2>2, <2>3, <3>1 DEF Are, Holds
    <2> QED
      BY <2>3, <2>4, <2>5, <2>6 DEF q, tag, val
  <1> QED
    BY <1>4, <1>5

\* What a step does to the changes on their way: the exposed valve's close, the
\* writing of a change, a subscription, a notification.
LEMMA CloseFields ==
  ASSUME StreamInv, NEW v \in Valve, NEW p \in Payload, CloseCycle(v, p)
  PROVE  LET k == cycle[Exposed] + 1
             b == log \o Block(k, p)
         IN  /\ UNCHANGED <<epoch, out, nodes, failed, linkVars, flowVars>>
             /\ cycle' \in [Valve -> Nat] /\ cycle[Exposed] <= cycle'[Exposed]
             /\ v # Exposed => UNCHANGED <<snap, log, dropped, made>>
             /\ v = Exposed =>
                  /\ k \in Nat /\ k = cycle'[Exposed]
                  /\ snap' = [pay |-> p, id |-> k] /\ log' = Keep(b)
                  /\ dropped' = (dropped \/ log' # b)
                  /\ made' = made \cup {[epoch |-> epoch, id |-> k, pay |-> p]}
                  /\ Below(log, k) /\ Below(out, k) /\ nodes.id < k /\ snap.id < k
  <1>1. /\ cycle[Exposed] \in Nat /\ nodes.id \in Nat /\ snap.id \in Nat
        /\ Exposed \in Valve /\ cycle \in [Valve -> Nat] /\ cycle[v] \in Nat
        /\ nodes.id <= snap.id /\ snap.id <= cycle[Exposed]
        /\ AtMost(out, snap.id) /\ AtMost(log, snap.id)
    BY OpcuaAssumption DEF StreamInv, StreamType
  <1>2. \A s \in Seq(Change) : AtMost(s, snap.id) => Below(s, cycle[Exposed] + 1)
    <2>1. ASSUME NEW s \in Seq(Change), NEW i \in DOMAIN s, s[i][1] = "id"
          PROVE  s[i][2] \in Nat
      <3>1. s[i] \in Change
        OBVIOUS
      <3> QED
        BY <2>1, <3>1, ChangeId
    <2> QED
      BY <1>1, <2>1 DEF AtMost, Below
  <1>3. Below(log, cycle[Exposed] + 1) /\ Below(out, cycle[Exposed] + 1)
    BY <1>1, <1>2 DEF StreamInv, StreamType
  <1>4. /\ nodes.id < cycle[Exposed] + 1 /\ snap.id < cycle[Exposed] + 1
        /\ cycle[Exposed] + 1 \in Nat
    BY <1>1
  <1>5. UNCHANGED <<epoch, out, nodes, failed, linkVars, flowVars>>
    BY DEF CloseCycle
  <1>6. v # Exposed => UNCHANGED <<snap, log, dropped, made>>
    BY DEF CloseCycle
  <1>7. v = Exposed =>
          /\ snap' = [pay |-> p, id |-> cycle[Exposed] + 1]
          /\ log' = Keep(log \o Block(cycle[Exposed] + 1, p))
          /\ dropped' = (dropped \/ log' # log \o Block(cycle[Exposed] + 1, p))
          /\ made' = made \cup {[epoch |-> epoch, id |-> cycle[Exposed] + 1, pay |-> p]}
    BY DEF CloseCycle
  <1>8. cycle' = [cycle EXCEPT ![v] = cycle[v] + 1]
    BY DEF CloseCycle
  <1>9. /\ cycle' \in [Valve -> Nat] /\ cycle[Exposed] <= cycle'[Exposed]
        /\ v = Exposed => cycle'[Exposed] = cycle[Exposed] + 1
    BY <1>1, <1>8
  <1> QED
    BY <1>3, <1>4, <1>5, <1>6, <1>7, <1>9

LEMMA WriteFields ==
  ASSUME StreamInv, WriteNode
  PROVE  LET c == Head(out)
         IN  /\ out # <<>> /\ c \in Change /\ out' = Tail(out) /\ out \in Seq(Change)
             /\ items' = IF linked THEN Sample(items, c[1], c[2]) ELSE items
             /\ failed' = (failed /\ c[1] # "id")
             /\ nodes' \in [pay : Contents, id : Nat]
             /\ c[1] = "id" => /\ nodes'.id = c[2] /\ nodes'.pay = nodes.pay
                               /\ c[2] \in Nat
             /\ c[1] # "id" => /\ c[1] = "pay" /\ c[2] \in Contents
                               /\ nodes'.id = nodes.id /\ nodes'.pay = c[2]
             /\ UNCHANGED <<simVars, log, dropped, linked, chan, flowVars>>
  <1> DEFINE c == Head(out)
  <1>1. /\ out # <<>> /\ out' = Tail(out) /\ out \in Seq(Change)
        /\ nodes' = [nodes EXCEPT ![c[1]] = c[2]]
        /\ items' = IF linked THEN Sample(items, c[1], c[2]) ELSE items
        /\ failed' = (failed /\ c[1] # "id")
        /\ UNCHANGED <<simVars, log, dropped, linked, chan, flowVars>>
    BY DEF WriteNode, StreamInv, StreamType
  <1>2. c \in Change
    BY <1>1
  <1> HIDE DEF c
  <1>3. nodes \in [pay : Contents, id : Nat]
    BY DEF StreamInv, StreamType
  <1>4. c[1] = "id" => /\ nodes'.id = c[2] /\ nodes'.pay = nodes.pay /\ c[2] \in Nat
                       /\ nodes' \in [pay : Contents, id : Nat]
    BY <1>1, <1>2, <1>3, ChangeId
  <1>5. c[1] # "id" => /\ c[1] = "pay" /\ c[2] \in Contents
                       /\ nodes'.id = nodes.id /\ nodes'.pay = c[2]
                       /\ nodes' \in [pay : Contents, id : Nat]
    BY <1>1, <1>2, <1>3, ChangeId
  <1> QED
    BY <1>1, <1>2, <1>4, <1>5 DEF c

LEMMA LinkFields ==
  ASSUME StreamInv, EdgeLink \/ Deploy
  PROVE  LET d == <<"pay", nodes.pay, ~MidBlock>>
             c == <<"id", nodes.id, ~MidBlock>>
         IN  /\ chan' = <<>> /\ items' = Append(Append(<<>>, d), c)
             /\ d \in Change /\ c \in Change /\ items' \in Seq(Change)
             /\ Lone(items') /\ Are(items', nodes.pay, nodes.id)
             /\ Holds(items', nodes.id) /\ linked' = TRUE
             /\ UNCHANGED <<simVars, ctlVars, pubVars, published, gaps>>
             /\ \/ UNCHANGED <<store, mark, since>>
                \/ store' = EmptyTags /\ mark' = None /\ since' = None
  <1> DEFINE due == ~MidBlock
             d == <<"pay", nodes.pay, due>>
             c == <<"id", nodes.id, due>>
  <1>1. /\ chan' = <<>> /\ items' = <<d, c>> /\ linked' = TRUE
        /\ UNCHANGED <<simVars, ctlVars, pubVars, published, gaps>>
        /\ \/ UNCHANGED <<store, mark, since>>
           \/ store' = EmptyTags /\ mark' = None /\ since' = None
    BY DEF EdgeLink, Deploy, Current, flowVars
  <1>2. due \in BOOLEAN
    OBVIOUS
  <1> HIDE DEF due
  <1>3. d \in Change /\ c \in Change
    BY <1>2 DEF StreamInv, StreamType, Change
  <1>4. d[1] = "pay" /\ d[2] = nodes.pay /\ c[1] = "id" /\ c[2] = nodes.id
    OBVIOUS
  <1> HIDE DEF c, d
  <1>5. /\ items' \in Seq(Change) /\ DOMAIN items' = {1, 2}
        /\ items'[1] = d /\ items'[2] = c
        /\ items' = Append(Append(<<>>, d), c)
    BY <1>1, <1>3
  <1>6. /\ Lone(items') /\ Are(items', nodes.pay, nodes.id) /\ Holds(items', nodes.id)
    BY <1>4, <1>5 DEF Lone, Are, Holds
  <1> QED
    BY <1>1, <1>3, <1>5, <1>6 DEF c, d, due

\* watermark-acquisition and builder-envelope, by the notified tag.
LEMMA NotifyFields ==
  ASSUME StreamInv, Notify
  PROVE  LET c == Head(chan)
         IN  /\ chan # <<>> /\ chan \in Seq(Change) /\ c \in Change
             /\ chan' = Tail(chan) /\ store' \in [pay : Contents, id : Nat]
             /\ UNCHANGED <<simVars, ctlVars, pubVars, linked, items>>
             /\ c[1] # "id" => /\ c[1] = "pay" /\ store'.pay = c[2]
                               /\ UNCHANGED <<mark, published, gaps, since>>
             /\ c[1] = "id" =>
                  /\ store'.pay = store.pay /\ mark' = c[2] /\ c[2] \in Nat
                  /\ c[2] <= nodes.id
                  /\ since' = IF since = None THEN c[2] ELSE since
                  /\ mark = None \/ c[2] <= mark => UNCHANGED <<published, gaps>>
                  /\ ~(mark = None \/ c[2] <= mark) =>
                       /\ mark \in Nat /\ mark < c[2] /\ gaps' = gaps \cup Skipped(c[2])
                       /\ \E e : /\ published' = published \cup {e}
                                 /\ e.epoch = epoch /\ e.id = c[2]
                                 /\ e.pay = store.pay
                                 /\ e.whole = (c[3] /\ ~dropped)
                                 /\ e.again = \E f \in published :
                                                f.epoch = epoch /\ f.id = c[2]
  <1> DEFINE c == Head(chan)
             env == [epoch |-> epoch, id |-> c[2], pay |-> store'.pay,
                     whole |-> c[3] /\ ~dropped,
                     again |-> \E e \in published : e.epoch = epoch /\ e.id = c[2]]
  <1>1. /\ chan # <<>> /\ chan' = Tail(chan) /\ chan \in Seq(Change)
        /\ mark \in Nat \cup {None} /\ AtMost(chan, nodes.id) /\ nodes.id \in Nat
        /\ store \in [pay : Contents, id : Nat]
        /\ store' = [store EXCEPT ![c[1]] = c[2]]
        /\ UNCHANGED <<simVars, ctlVars, pubVars, linked, items>>
        /\ c[1] = "pay" => UNCHANGED <<mark, published, gaps, since>>
        /\ c[1] # "pay" =>
             /\ mark' = c[2] /\ since' = IF since = None THEN c[2] ELSE since
             /\ mark = None \/ c[2] < mark \/ c[2] = mark
                  => UNCHANGED <<published, gaps>>
             /\ ~(mark = None \/ c[2] < mark \/ c[2] = mark)
                  => published' = published \cup {env} /\ gaps' = gaps \cup Skipped(c[2])
    BY DEF Notify, StreamInv, StreamType, NextMark, EpochReset, Known
  <1>2. c \in Change
    BY <1>1
  <1>3. /\ env.epoch = epoch /\ env.id = c[2] /\ env.pay = store'.pay
        /\ env.whole = (c[3] /\ ~dropped)
        /\ env.again = \E e \in published : e.epoch = epoch /\ e.id = c[2]
    OBVIOUS
  <1>4. c[1] = "id" => c[2] <= nodes.id
    BY <1>1, TailIds
  <1> HIDE DEF c, env
  <1>5. CASE c[1] = "id"
    <2>1. c[2] \in Nat
      BY <1>2, <1>5, ChangeId
    <2>2. store' \in [pay : Contents, id : Nat] /\ store'.pay = store.pay
      BY <1>1, <1>5, <2>1
    <2>3. mark = None \/ c[2] <= mark <=> mark = None \/ c[2] < mark \/ c[2] = mark
      BY <1>1, <2>1 DEF None
    <2>4. ~(mark = None \/ c[2] <= mark) => mark \in Nat /\ mark < c[2]
      BY <1>1, <2>1
    <2>5. ~(mark = None \/ c[2] <= mark) =>
            \E e : /\ published' = published \cup {e}
                   /\ e.epoch = epoch /\ e.id = c[2] /\ e.pay = store.pay
                   /\ e.whole = (c[3] /\ ~dropped)
                   /\ e.again = \E f \in published : f.epoch = epoch /\ f.id = c[2]
      BY <1>1, <1>3, <1>5, <2>2, <2>3
    <2> QED
      BY <1>1, <1>2, <1>4, <1>5, <2>1, <2>2, <2>3, <2>4, <2>5 DEF c
  <1>6. CASE c[1] # "id"
    <2>1. c[1] = "pay" /\ c[2] \in Contents
      BY <1>2, <1>6, ChangeId
    <2>2. store' \in [pay : Contents, id : Nat] /\ store'.pay = c[2]
      BY <1>1, <2>1
    <2> QED
      BY <1>1, <1>2, <1>6, <2>1, <2>2 DEF c
  <1> QED
    BY <1>5, <1>6

LEMMA StreamInit == Init => StreamInv
  <1> SUFFICES ASSUME Init PROVE StreamInv
    OBVIOUS
  <1> DEFINE d == <<"pay", Unset, TRUE>>
             c == <<"id", 0, TRUE>>
  <1>1. /\ chan = <<>> /\ items = <<d, c>> /\ out = <<>> /\ log = <<>>
        /\ nodes = [pay |-> Unset, id |-> 0] /\ snap = nodes /\ store = nodes
        /\ mark = None /\ since = None /\ epoch = 1 /\ linked = TRUE
        /\ cycle = [v \in Valve |-> 0]
    BY DEF Init, EmptyTags, Current
  <1>2. /\ d \in Change /\ d[1] = "pay" /\ d[2] = Unset
        /\ c \in Change /\ c[1] = "id" /\ c[2] = 0
    BY DEF Change, Contents
  <1> HIDE DEF c, d
  <1>3. items \in Seq(Change) /\ DOMAIN items = {1, 2} /\ items[1] = d /\ items[2] = c
    BY <1>1, <1>2
  <1>4. nodes.id = 0 /\ nodes.pay = Unset /\ snap.id = 0
    BY <1>1
  <1>5. Lone(items) /\ Are(items, Unset, 0)
    BY <1>2, <1>3 DEF Lone, Are
  <1>6. cycle[Exposed] = 0 /\ cycle \in [Valve -> Nat]
    BY <1>1, OpcuaAssumption
  <1>7. nodes \in [pay : Contents, id : Nat]
    BY <1>1 DEF Contents
  <1>8. StreamType
    BY <1>1, <1>3, <1>6, <1>7, EmptyIds DEF StreamType
  <1> QED
    BY <1>1, <1>4, <1>5, <1>6, <1>8, EmptyIds DEF StreamInv

LEMMA StreamStep == StreamInv /\ [Next]_vars => StreamInv'
  <1> SUFFICES ASSUME StreamInv, [Next]_vars
               PROVE  StreamInv'
    OBVIOUS
  <1> USE DEF StreamInv, StreamType
  <1>0. /\ Exposed \in Valve /\ cycle[Exposed] \in Nat /\ snap.id \in Nat
        /\ nodes.id \in Nat /\ nodes.pay \in Contents
    BY OpcuaAssumption
  <1>1. CASE UNCHANGED <<chan, items, out, log, epoch, cycle, snap, nodes, store, mark,
                         since, linked>>
    BY <1>1
  <1>2. ASSUME NEW v \in Valve, NEW p \in Payload, CloseCycle(v, p)
        PROVE  StreamInv'
    <2>1. /\ UNCHANGED <<epoch, out, nodes, items, chan, linked, store, mark, since>>
          /\ cycle' \in [Valve -> Nat] /\ cycle[Exposed] <= cycle'[Exposed]
          /\ cycle'[Exposed] \in Nat
      BY <1>0, <1>2, CloseFields DEF linkVars, flowVars
    <2>2. CASE v # Exposed
      <3>1. UNCHANGED <<snap, log>>
        BY <1>2, <2>2, CloseFields
      <3> QED
        BY <1>0, <2>1, <3>1
    <2>3. CASE v = Exposed
      <3> DEFINE k == cycle[Exposed] + 1
                 b == log \o Block(k, p)
      <3>1. /\ k \in Nat /\ k = cycle'[Exposed]
            /\ snap' = [pay |-> p, id |-> k] /\ log' = Keep(b)
            /\ Below(log, k) /\ Below(out, k) /\ nodes.id < k
        BY <1>2, <2>3, CloseFields
      <3> HIDE DEF k
      <3>2. /\ b \in Seq(Change) /\ Climbs(b) /\ Over(b, nodes.id) /\ Apart(out, b)
            /\ AtMost(b, k)
        BY <1>0, <3>1, BlockIds
      <3> HIDE DEF b
      <3>3. /\ log' \in Seq(Change) /\ Climbs(log') /\ Over(log', nodes.id)
            /\ Apart(out, log') /\ AtMost(log', k)
        BY <3>1, <3>2, KeepIds
      <3>4. snap' \in [pay : Contents, id : Nat] /\ snap'.id = k
        BY <3>1 DEF Contents
      <3>5. AtMost(out, k)
        <4>1. \A i \in DOMAIN out : out[i][1] = "id" => out[i][2] \in Nat
          <5> TAKE i \in DOMAIN out
          <5>1. out[i] \in Change
            OBVIOUS
          <5> QED
            BY <5>1, ChangeId
        <4> QED
          BY <3>1, <4>1 DEF Below, AtMost
      <3>6. nodes.id <= k /\ k <= cycle'[Exposed]
        BY <1>0, <3>1
      <3> QED
        BY <2>1, <3>3, <3>4, <3>5, <3>6
    <2> QED
      BY <2>2, <2>3
  <1>3. ASSUME NEW v \in Valve, ScrapCycle(v)
        PROVE  StreamInv'
    <2>1. /\ cycle' = [cycle EXCEPT ![v] = cycle[v] + 1] /\ cycle[v] + 1 \in Nat
          /\ UNCHANGED <<chan, items, out, log, epoch, snap, nodes, store, mark, since,
                         linked>>
      BY <1>3 DEF ScrapCycle, pubVars, linkVars, flowVars
    <2>2. cycle' \in [Valve -> Nat] /\ cycle[Exposed] <= cycle'[Exposed]
          /\ cycle'[Exposed] \in Nat
      BY <1>0, <2>1
    <2> QED
      BY <1>0, <2>1, <2>2
  <1>4. CASE RestartServe
    <2>1. /\ epoch' = epoch + 1 /\ cycle' = [v \in Valve |-> 0]
          /\ nodes' = [pay |-> Unset, id |-> 0] /\ snap' = [pay |-> Unset, id |-> 0]
          /\ chan' = <<>> /\ items' = <<>> /\ out' = <<>> /\ log' = <<>>
          /\ since' = None
          /\ UNCHANGED <<mark, store>>
      BY <1>4 DEF RestartServe, EmptyTags
    <2>2. cycle'[Exposed] = 0 /\ nodes'.id = 0 /\ snap'.id = 0
          /\ cycle' \in [Valve -> Nat]
      BY <1>0, <2>1
    <2>3. nodes' \in [pay : Contents, id : Nat] /\ snap' \in [pay : Contents, id : Nat]
      BY <2>1 DEF Contents
    <2> QED
      BY <2>1, <2>2, <2>3, EmptyIds
  <1>5. CASE Drain
    <2>1. /\ out = <<>> /\ out' = log /\ log' = <<>>
          /\ UNCHANGED <<chan, items, epoch, cycle, snap, nodes, store, mark, since,
                         linked>>
      BY <1>5 DEF Drain, simVars, linkVars, flowVars
    <2> QED
      BY <2>1, EmptyIds
  <1>6. CASE WriteNode
    <2> DEFINE c == Head(out)
    <2>1. /\ out # <<>> /\ c \in Change /\ out' = Tail(out)
          /\ items' = IF linked THEN Sample(items, c[1], c[2]) ELSE items
          /\ nodes' \in [pay : Contents, id : Nat]
          /\ c[1] = "id" => /\ nodes'.id = c[2] /\ nodes'.pay = nodes.pay
                            /\ c[2] \in Nat
          /\ c[1] # "id" => nodes'.id = nodes.id /\ nodes'.pay = c[2]
          /\ UNCHANGED <<log, epoch, cycle, snap, linked, chan, store, mark, since>>
      BY <1>6, WriteFields DEF simVars, flowVars
    <2>2. /\ out' \in Seq(Change) /\ Climbs(out') /\ Over(out', nodes.id)
          /\ AtMost(out', snap.id) /\ Apart(out', log)
          /\ c[1] = "id" => /\ Over(out', c[2]) /\ Over(log, c[2])
                            /\ nodes.id < c[2] /\ c[2] <= snap.id
      BY <1>0, <2>1, TailIds
    <2> HIDE DEF c
    <2>3. /\ Over(out', nodes'.id) /\ Over(log, nodes'.id) /\ nodes'.id <= snap.id
          /\ nodes.id <= nodes'.id /\ nodes'.id \in Nat
      BY <1>0, <2>1, <2>2
    <2>4. AtMost(chan, nodes'.id)
      <3>1. \A i \in DOMAIN chan : chan[i][1] = "id" => chan[i][2] \in Nat
        <4> TAKE i \in DOMAIN chan
        <4>1. chan[i] \in Change
          OBVIOUS
        <4> QED
          BY <4>1, ChangeId
      <3> QED
        BY <1>0, <2>3, <3>1 DEF AtMost
    <2>5. items' \in Seq(Change) /\ Lone(items') /\ Are(items', nodes'.pay, nodes'.id)
      <3>1. CASE linked
        BY <2>1, <3>1, SampleIds
      <3>2. CASE ~linked
        BY <2>1, <3>2, EmptyIds
      <3> QED
        BY <3>1, <3>2
    <2>6. linked' \/ (items' = <<>> /\ chan' = <<>>)
      BY <2>1
    <2> QED
      BY <2>1, <2>2, <2>3, <2>4, <2>5, <2>6
  <1>7. CASE FailWrite
    <2>1. /\ out # <<>> /\ out' = Tail(out)
          /\ UNCHANGED <<chan, items, log, epoch, cycle, snap, nodes, store, mark, since,
                         linked>>
      BY <1>7 DEF FailWrite, simVars, linkVars, flowVars
    <2>2. /\ out' \in Seq(Change) /\ Climbs(out') /\ Over(out', nodes.id)
          /\ AtMost(out', snap.id) /\ Apart(out', log)
      BY <1>0, <2>1, TailIds
    <2> QED
      BY <2>1, <2>2
  <1>8. CASE LoseLink
    <2>1. /\ chan' = <<>> /\ items' = <<>>
          /\ UNCHANGED <<out, log, epoch, cycle, snap, nodes, store, mark, since>>
      BY <1>8 DEF LoseLink, simVars, pubVars, flowVars
    <2> QED
      BY <2>1, EmptyIds
  <1>9. CASE EdgeLink \/ Deploy
    <2>1. /\ chan' = <<>> /\ items' \in Seq(Change) /\ linked' = TRUE
          /\ Lone(items') /\ Are(items', nodes.pay, nodes.id)
          /\ UNCHANGED <<out, log, epoch, cycle, snap, nodes>>
          /\ \/ UNCHANGED <<store, mark, since>>
             \/ store' = EmptyTags /\ mark' = None /\ since' = None
      BY <1>9, LinkFields DEF simVars, pubVars
    <2>2. EmptyTags \in [pay : Contents, id : Nat]
      BY DEF EmptyTags, Contents
    <2> QED
      BY <2>1, <2>2, EmptyIds
  <1>10. CASE PublishItems
    <2>1. /\ chan' = chan \o items /\ items' = <<>> /\ items # <<>>
          /\ UNCHANGED <<out, log, epoch, cycle, snap, nodes, store, mark, since, linked>>
      BY <1>10 DEF PublishItems, simVars, pubVars, flowVars
    <2>2. chan' \in Seq(Change) /\ Rises(chan') /\ AtMost(chan', nodes.id)
      BY <1>0, <2>1, ConcatIds
    <2> QED
      BY <2>1, <2>2, EmptyIds
  <1>11. CASE Notify
    <2>1. /\ chan # <<>> /\ chan' = Tail(chan)
          /\ store' \in [pay : Contents, id : Nat]
          /\ UNCHANGED <<items, out, log, epoch, cycle, snap, nodes, linked>>
          /\ mark' \in Nat \cup {None} /\ since' \in Nat \cup {None}
      BY <1>11, NotifyFields DEF simVars, pubVars
    <2>2. /\ chan' \in Seq(Change) /\ Rises(chan') /\ AtMost(chan', nodes.id)
      BY <1>0, <2>1, TailIds
    <2>3. linked
      BY <2>1
    <2> QED
      BY <2>1, <2>2, <2>3
  <1>12. CASE \/ \E p \in Params : WriteParam(p)
              \/ ForceOn \/ ForceOff
    BY <1>1, <1>12 DEF WriteParam, ForceOn, ForceOff, pubVars, linkVars, flowVars
  <1>13. CASE UNCHANGED vars
    BY <1>1, <1>13 DEF vars, simVars, pubVars, linkVars, flowVars
  <1> QED
    BY <1>2, <1>3, <1>4, <1>5, <1>6, <1>7, <1>8, <1>9, <1>10, <1>11, <1>12, <1>13 DEF Next

LEMMA StreamInvariant == Spec => []StreamInv
  BY StreamInit, StreamStep, PTL DEF Spec

-----------------------------------------------------------------------------
(* A cycle is published once                                                  *)

\* What is published of this process is behind everything still to arrive.
PublishedInv ==
  \A e \in published :
    /\ e.epoch \in Nat /\ e.id \in Nat /\ e.epoch <= epoch /\ ~e.again
    /\ e.epoch = epoch => /\ e.id <= nodes.id /\ AtLeast(chan, e.id)
                          /\ mark # None => e.id <= mark

LEMMA PublishedStep == StreamInv /\ PublishedInv /\ [Next]_vars => PublishedInv'
  <1> SUFFICES ASSUME StreamInv, PublishedInv, [Next]_vars
               PROVE  PublishedInv'
    OBVIOUS
  <1>0. /\ epoch \in Nat /\ nodes.id \in Nat /\ chan \in Seq(Change)
        /\ items \in Seq(Change) /\ out \in Seq(Change) /\ StreamInv'
    BY StreamStep DEF StreamInv, StreamType
  <1>1. CASE UNCHANGED <<chan, epoch, nodes, mark, published>>
    BY <1>1 DEF PublishedInv
  <1>2. ASSUME NEW v \in Valve, NEW p \in Payload, CloseCycle(v, p)
        PROVE  PublishedInv'
    BY <1>1, <1>2, CloseFields DEF linkVars, flowVars
  <1>3. CASE RestartServe
    <2>1. epoch' = epoch + 1 /\ published' = published
      BY <1>3 DEF RestartServe
    <2>2. \A e \in published : /\ e.epoch \in Nat /\ e.id \in Nat /\ ~e.again
                               /\ e.epoch <= epoch' /\ e.epoch # epoch'
      BY <1>0, <2>1 DEF PublishedInv
    <2> QED
      BY <2>1, <2>2 DEF PublishedInv
  <1>4. CASE WriteNode
    <2>1. /\ UNCHANGED <<chan, epoch, mark, published>>
          /\ nodes.id <= nodes'.id /\ nodes'.id \in Nat
      <3> DEFINE c == Head(out)
      <3>1. /\ out # <<>> /\ UNCHANGED <<chan, epoch, mark, published>>
            /\ c[1] = "id" => nodes'.id = c[2] /\ c[2] \in Nat
            /\ c[1] # "id" => nodes'.id = nodes.id
        BY <1>4, WriteFields DEF simVars, flowVars
      <3>2. c[1] = "id" => nodes.id < c[2]
        BY <1>0, <3>1, TailIds DEF StreamInv
      <3> HIDE DEF c
      <3> QED
        BY <1>0, <3>1, <3>2
    <2>2. \A e \in published : e.id \in Nat /\ e.id <= nodes.id => e.id <= nodes'.id
      BY <1>0, <2>1
    <2> QED
      BY <2>1, <2>2 DEF PublishedInv
  <1>5. CASE LoseLink \/ EdgeLink \/ Deploy
    <2>1. /\ chan' = <<>> /\ UNCHANGED <<epoch, nodes, published>>
          /\ mark' \in {mark, None}
      BY <1>5 DEF LoseLink, EdgeLink, Deploy, simVars, pubVars, flowVars
    <2> QED
      BY <2>1, EmptyIds DEF PublishedInv
  <1>6. CASE PublishItems
    <2>1. chan' = chan \o items /\ UNCHANGED <<epoch, nodes, mark, published>>
      BY <1>6 DEF PublishItems, simVars, pubVars, flowVars
    <2>2. \A n \in Nat : AtLeast(chan, n) /\ n <= nodes.id => AtLeast(chan', n)
      BY <1>0, <2>1, ConcatIds DEF StreamInv
    <2> QED
      BY <2>1, <2>2 DEF PublishedInv
  <1>7. CASE Notify
    <2> DEFINE c == Head(chan)
    <2>1. /\ chan # <<>> /\ chan' = Tail(chan) /\ UNCHANGED <<epoch, nodes>>
          /\ c \in Change
          /\ c[1] # "id" => UNCHANGED <<mark, published>>
          /\ c[1] = "id" =>
               /\ mark' = c[2] /\ c[2] \in Nat /\ c[2] <= nodes.id
               /\ mark = None \/ c[2] <= mark => published' = published
               /\ ~(mark = None \/ c[2] <= mark) =>
                    /\ mark \in Nat /\ mark < c[2]
                    /\ \E e : /\ published' = published \cup {e}
                              /\ e.epoch = epoch /\ e.id = c[2]
                              /\ e.again = \E f \in published :
                                             f.epoch = epoch /\ f.id = c[2]
      BY <1>7, NotifyFields DEF simVars, pubVars
    <2>2. /\ \A n \in Nat : AtLeast(chan, n) => AtLeast(chan', n)
          /\ c[1] = "id" => /\ AtLeast(chan', c[2])
                            /\ \A n \in Nat : AtLeast(chan, n) => n <= c[2]
      BY <1>0, <2>1, TailIds DEF StreamInv
    <2> HIDE DEF c
    <2>3. CASE c[1] # "id"
      BY <2>1, <2>2, <2>3 DEF PublishedInv
    <2>4. CASE c[1] = "id"
      <3>1. mark' = c[2] /\ c[2] \in Nat /\ mark' # None
        BY <2>1, <2>4 DEF None
      <3>2. ASSUME NEW e \in published
            PROVE  /\ e.epoch \in Nat /\ e.id \in Nat /\ e.epoch <= epoch /\ ~e.again
                   /\ e.epoch = epoch => /\ e.id <= nodes.id /\ AtLeast(chan', e.id)
                                         /\ e.id <= c[2]
        BY <2>2, <2>4, <3>2 DEF PublishedInv
      <3>3. CASE mark = None \/ c[2] <= mark
        <4>1. published' = published
          BY <2>1, <2>4, <3>3
        <4> QED
          BY <2>1, <3>1, <3>2, <4>1 DEF PublishedInv
      <3>4. CASE ~(mark = None \/ c[2] <= mark)
        <4>1. mark \in Nat /\ mark < c[2]
          BY <2>1, <2>4, <3>4
        <4>2. PICK e : /\ published' = published \cup {e}
                       /\ e.epoch = epoch /\ e.id = c[2]
                       /\ e.again = \E f \in published : f.epoch = epoch /\ f.id = c[2]
          BY <2>1, <2>4, <3>4
        <4>3. \A f \in published : f.epoch = epoch => f.id \in Nat /\ f.id <= mark
          BY <3>4 DEF PublishedInv
        <4>4. ~e.again
          BY <3>1, <4>1, <4>2, <4>3
        <4>5. ASSUME NEW f \in published'
              PROVE  /\ f.epoch \in Nat /\ f.id \in Nat /\ f.epoch <= epoch /\ ~f.again
                     /\ f.epoch = epoch => /\ f.id <= nodes.id /\ AtLeast(chan', f.id)
                                           /\ f.id <= c[2]
          <5>1. CASE f = e
            <6>1. /\ e.epoch \in Nat /\ e.id \in Nat /\ e.epoch <= epoch
                  /\ e.id <= nodes.id /\ AtLeast(chan', c[2]) /\ e.id <= c[2]
              BY <1>0, <2>1, <2>2, <2>4, <3>1, <4>2
            <6> QED
              BY <4>2, <4>4, <5>1, <6>1
          <5>2. CASE f \in published
            BY <3>2, <5>2
          <5> QED
            BY <4>2, <4>5, <5>1, <5>2
        <4> QED
          BY <2>1, <3>1, <4>5 DEF PublishedInv
      <3> QED
        BY <3>3, <3>4
    <2> QED
      BY <2>3, <2>4
  <1>8. CASE \/ \E v \in Valve : ScrapCycle(v)
             \/ \E p \in Params : WriteParam(p)
             \/ ForceOn \/ ForceOff \/ Drain \/ FailWrite
    BY <1>1, <1>8 DEF ScrapCycle, WriteParam, ForceOn, ForceOff, Drain, FailWrite,
                      simVars, pubVars, linkVars, flowVars
  <1>9. CASE UNCHANGED vars
    BY <1>1, <1>9 DEF vars, simVars, pubVars, linkVars, flowVars
  <1> QED
    BY <1>2, <1>3, <1>4, <1>5, <1>6, <1>7, <1>8, <1>9 DEF Next

\* Nothing already published of this process is still to arrive: the ids never
\* go down on their way out, so a watermark that only ever takes the id it reads
\* never publishes a cycle twice, across bursts, failed writes, lost connections,
\* restarts of the simulator and deploys of the flow (_publish_tick,
\* watermark-acquisition).
THEOREM PublishedOnceCorrect == Spec => []PublishedOnce
  <1>1. Init => PublishedInv
    BY DEF Init, PublishedInv
  <1>2. PublishedInv => PublishedOnce
    BY DEF PublishedInv, PublishedOnce
  <1> QED
    BY <1>1, <1>2, StreamInvariant, PublishedStep, PTL DEF Spec

-----------------------------------------------------------------------------
(* Every cycle is published or reported                                       *)

\* A cycle k of process n is among the envelopes or the gaps s.
Among(s, n, k) == \E e \in s : e.epoch = n /\ e.id = k
Pending(k) == Holds(out, k) \/ Holds(log, k)

\* The last record's id is on its way out, or was written, or its write failed.
RecordInv ==
  /\ \A m \in made : /\ m.epoch \in Nat /\ m.epoch <= epoch
                     /\ m.epoch = epoch => m.id \in Nat /\ m.id <= snap.id
  /\ \/ Pending(snap.id)
     \/ (\A k : ~Pending(k)) /\ (failed \/ nodes.id = snap.id)

LEMMA RecordStep == StreamInv /\ RecordInv /\ [Next]_vars => RecordInv'
  <1> SUFFICES ASSUME StreamInv, RecordInv, [Next]_vars
               PROVE  RecordInv'
    OBVIOUS
  <1>0. /\ epoch \in Nat /\ nodes.id \in Nat /\ snap.id \in Nat
        /\ out \in Seq(Change) /\ log \in Seq(Change)
    BY DEF StreamInv, StreamType
  <1>1. CASE UNCHANGED <<epoch, made, snap, out, log, nodes, failed>>
    BY <1>1 DEF RecordInv, Pending
  <1>2. ASSUME NEW v \in Valve, NEW p \in Payload, CloseCycle(v, p)
        PROVE  RecordInv'
    <2>1. UNCHANGED <<epoch, out, nodes, failed>>
      BY <1>2, CloseFields
    <2>2. CASE v # Exposed
      BY <1>1, <1>2, <2>1, <2>2, CloseFields
    <2>3. CASE v = Exposed
      <3> DEFINE k == cycle[Exposed] + 1
                 b == log \o Block(k, p)
                 m == [epoch |-> epoch, id |-> k, pay |-> p]
      <3>1. /\ k \in Nat /\ snap' = [pay |-> p, id |-> k] /\ log' = Keep(b)
            /\ made' = made \cup {m} /\ snap.id < k
        BY <1>2, <2>3, CloseFields
      <3>2. m.epoch = epoch /\ m.id = k
        OBVIOUS
      <3> HIDE DEF k, m
      <3>3. b \in Seq(Change) /\ b # <<>> /\ b[Len(b)] = <<"id", k>>
        BY <1>0, <3>1, BlockIds
      <3> HIDE DEF b
      <3>4. Holds(log', k) /\ snap'.id = k
        BY <3>1, <3>3, KeepIds
      <3>5. \A x \in made' : /\ x.epoch \in Nat /\ x.epoch <= epoch
                             /\ x.epoch = epoch => x.id \in Nat /\ x.id <= k
        BY <1>0, <3>1, <3>2 DEF RecordInv
      <3> QED
        BY <2>1, <3>4, <3>5 DEF RecordInv, Pending
    <2> QED
      BY <2>2, <2>3
  <1>3. CASE RestartServe
    <2>1. /\ epoch' = epoch + 1 /\ made' = made /\ nodes'.id = 0 /\ snap'.id = 0
          /\ out' = <<>> /\ log' = <<>>
      BY <1>3 DEF RestartServe, EmptyTags
    <2>2. \A m \in made : m.epoch \in Nat /\ m.epoch <= epoch' /\ m.epoch # epoch'
      BY <1>0, <2>1 DEF RecordInv
    <2> QED
      BY <2>1, <2>2, EmptyIds DEF RecordInv, Pending
  <1>4. CASE Drain
    <2>1. /\ out = <<>> /\ out' = log /\ log' = <<>>
          /\ UNCHANGED <<epoch, made, snap, nodes, failed>>
      BY <1>4 DEF Drain, simVars
    <2>2. \A k : Pending(k)' <=> Pending(k)
      BY <2>1, EmptyIds DEF Pending
    <2> QED
      BY <2>1, <2>2 DEF RecordInv
  <1>5. CASE WriteNode \/ FailWrite
    <2> DEFINE c == Head(out)
    <2>1. /\ out # <<>> /\ out' = Tail(out) /\ UNCHANGED <<epoch, made, snap, log>>
          /\ c[1] # "id" => nodes'.id = nodes.id /\ (failed => failed')
          /\ c[1] = "id" => failed' \/ nodes'.id = c[2]
          /\ out' \in Seq(Change)
      <3>1. CASE WriteNode
        <4>1. out # <<>> /\ out' = Tail(out) /\ UNCHANGED <<simVars, log>>
          BY <3>1, WriteFields
        <4>2. (c[1] = "id" => nodes'.id = c[2]) /\ (c[1] # "id" => nodes'.id = nodes.id)
          BY <3>1, WriteFields
        <4>3. failed' = (failed /\ c[1] # "id")
          BY <3>1 DEF WriteNode
        <4>4. out' \in Seq(Change)
          BY <1>0, <4>1, TailIds
        <4> HIDE DEF c
        <4> QED
          BY <4>1, <4>2, <4>3, <4>4 DEF simVars
      <3>2. CASE FailWrite
        <4>1. out # <<>> /\ out' = Tail(out) /\ UNCHANGED <<simVars, log, nodes>>
          BY <3>2 DEF FailWrite
        <4>2. failed' = (failed \/ c[1] = "id")
          BY <3>2 DEF FailWrite
        <4>3. out' \in Seq(Change)
          BY <1>0, <4>1, TailIds
        <4> HIDE DEF c
        <4> QED
          BY <4>1, <4>2, <4>3 DEF simVars
      <3> QED
        BY <1>5, <3>1, <3>2
    <2>2. /\ \A k : Holds(out, k) <=> Holds(out', k) \/ (c[1] = "id" /\ c[2] = k)
          /\ c[1] = "id" => /\ Over(out', c[2]) /\ Over(log, c[2]) /\ AtMost(out', snap.id)
                            /\ c[2] \in Nat /\ c[2] <= snap.id
      <3>1. out # <<>>
        BY <2>1
      <3> QED
        BY <1>0, <2>1, <3>1, TailIds, ChangeId DEF StreamInv
    <2> HIDE DEF c
    <2>3. CASE c[1] # "id"
      <3>1. \A k : Pending(k)' <=> Pending(k)
        BY <2>1, <2>2, <2>3 DEF Pending
      <3> QED
        BY <2>1, <2>3, <3>1 DEF RecordInv
    <2>4. CASE c[1] = "id"
      <3>1. Pending(snap.id)
        BY <2>2, <2>4 DEF RecordInv, Pending
      <3>2. CASE c[2] # snap.id
        <4>1. Pending(snap.id)'
          BY <2>1, <2>2, <3>1, <3>2 DEF Pending
        <4> QED
          BY <2>1, <4>1 DEF RecordInv
      <3>3. CASE c[2] = snap.id
        <4>1. ASSUME NEW k, Pending(k)'
              PROVE  FALSE
          <5>1. Holds(out', k) \/ Holds(log, k)
            BY <2>1, <4>1 DEF Pending
          <5>2. PICK s \in {out', log} : Holds(s, k)
            BY <5>1
          <5>3. PICK i \in DOMAIN s : s[i][1] = "id" /\ s[i][2] = k
            BY <5>2 DEF Holds
          <5>4. c[2] < k
            BY <2>2, <2>4, <5>2, <5>3 DEF Over
          <5>5. k <= snap.id
            BY <2>2, <2>4, <5>2, <5>3 DEF AtMost, StreamInv
          <5>6. k \in Nat
            <6>1. s \in Seq(Change)
              BY <1>0, <2>1
            <6>2. s[i] \in Change
              BY <5>3, <6>1
            <6> QED
              BY <5>3, <6>2, ChangeId
          <5> QED
            BY <1>0, <3>3, <5>4, <5>5, <5>6
        <4> QED
          BY <2>1, <2>4, <3>3, <4>1 DEF RecordInv
      <3> QED
        BY <3>2, <3>3
    <2> QED
      BY <2>3, <2>4
  <1>6. CASE \/ \E v \in Valve : ScrapCycle(v)
             \/ \E p \in Params : WriteParam(p)
             \/ ForceOn \/ ForceOff
    BY <1>1, <1>6 DEF ScrapCycle, WriteParam, ForceOn, ForceOff, pubVars
  <1>7. CASE LoseLink \/ EdgeLink \/ Deploy \/ PublishItems \/ Notify
    BY <1>1, <1>7 DEF LoseLink, EdgeLink, Deploy, PublishItems, Notify, simVars, pubVars
  <1>8. CASE UNCHANGED vars
    BY <1>1, <1>8 DEF vars, simVars, pubVars
  <1> QED
    BY <1>2, <1>3, <1>4, <1>5, <1>6, <1>7, <1>8 DEF Next

\* What the watermark has passed since its first id is published or reported, and a
\* linked edge has, or will have, the id of the node.
AccountInv ==
  /\ since # None =>
       /\ mark \in Nat /\ since <= mark /\ mark <= nodes.id /\ AtLeast(chan, mark)
       /\ since < mark => Among(published, epoch, mark)
       /\ \A k \in Nat : since < k /\ k <= mark =>
                          Among(published, epoch, k) \/ Among(gaps, epoch, k)
  /\ linked => \/ Holds(items, nodes.id) \/ Holds(chan, nodes.id)
               \/ since # None /\ mark = nodes.id /\ \A k : ~Holds(chan, k)

LEMMA AccountStep == StreamInv /\ AccountInv /\ [Next]_vars => AccountInv'
  <1> SUFFICES ASSUME StreamInv, AccountInv, [Next]_vars
               PROVE  AccountInv'
    OBVIOUS
  <1>0. /\ nodes.id \in Nat /\ chan \in Seq(Change) /\ items \in Seq(Change)
        /\ out \in Seq(Change) /\ mark \in Nat \cup {None} /\ since \in Nat \cup {None}
        /\ epoch \in Nat
    BY DEF StreamInv, StreamType
  <1>1. CASE UNCHANGED <<epoch, nodes, items, chan, linked, mark, published, gaps, since>>
    BY <1>1 DEF AccountInv
  <1>2. ASSUME NEW v \in Valve, NEW p \in Payload, CloseCycle(v, p)
        PROVE  AccountInv'
    BY <1>1, <1>2, CloseFields DEF linkVars, flowVars
  <1>3. CASE RestartServe
    <2>1. since' = None /\ linked' = FALSE
      BY <1>3 DEF RestartServe
    <2> QED
      BY <2>1 DEF AccountInv
  <1>4. CASE WriteNode
    <2> DEFINE c == Head(out)
    <2>1. /\ out # <<>> /\ c \in Change
          /\ items' = IF linked THEN Sample(items, c[1], c[2]) ELSE items
          /\ c[1] = "id" => nodes'.id = c[2] /\ c[2] \in Nat
          /\ c[1] # "id" => nodes'.id = nodes.id
          /\ UNCHANGED <<epoch, chan, linked, mark, published, gaps, since>>
      BY <1>4, WriteFields DEF simVars, flowVars
    <2>2. c[1] = "id" => nodes.id < c[2]
      BY <1>0, <2>1, TailIds DEF StreamInv
    <2>3. linked => /\ c[1] = "id" => Holds(items', c[2])
                    /\ c[1] # "id" => (Holds(items, nodes.id) => Holds(items', nodes.id))
      BY <1>0, <2>1, SampleIds DEF StreamInv
    <2> HIDE DEF c
    <2>4. nodes.id <= nodes'.id /\ nodes'.id \in Nat
      BY <1>0, <2>1, <2>2
    <2>5. mark \in Nat /\ mark <= nodes.id => mark <= nodes'.id
      BY <1>0, <2>1, <2>4
    <2>6. linked => \/ Holds(items', nodes'.id) \/ Holds(chan, nodes'.id)
                    \/ since # None /\ mark = nodes'.id /\ \A k : ~Holds(chan, k)
      BY <2>1, <2>3 DEF AccountInv
    <2> QED
      BY <2>1, <2>5, <2>6 DEF AccountInv
  <1>5. CASE LoseLink
    <2>1. /\ chan' = <<>> /\ linked' = FALSE
          /\ UNCHANGED <<epoch, nodes, mark, published, gaps, since>>
      BY <1>5 DEF LoseLink, simVars, pubVars, flowVars
    <2> QED
      BY <2>1, EmptyIds DEF AccountInv
  <1>6. CASE EdgeLink \/ Deploy
    <2>1. /\ chan' = <<>> /\ Holds(items', nodes.id)
          /\ UNCHANGED <<epoch, nodes, published, gaps>>
          /\ UNCHANGED <<mark, since>> \/ since' = None
      BY <1>6, LinkFields DEF simVars, pubVars
    <2> QED
      BY <2>1, EmptyIds DEF AccountInv
  <1>7. CASE PublishItems
    <2>1. /\ chan' = chan \o items /\ items' = <<>>
          /\ UNCHANGED <<epoch, nodes, linked, mark, published, gaps, since>>
      BY <1>7 DEF PublishItems, simVars, pubVars, flowVars
    <2>2. /\ \A n \in Nat : AtLeast(chan, n) /\ n <= nodes.id => AtLeast(chan', n)
          /\ \A n : Holds(chan', n) <=> Holds(chan, n) \/ Holds(items, n)
      BY <1>0, <2>1, ConcatIds DEF StreamInv
    <2>3. \A n : Holds(items, n) => n = nodes.id
      BY DEF StreamInv, Are, Holds
    <2>4. linked => \/ Holds(chan', nodes.id)
                    \/ since # None /\ mark = nodes.id /\ \A k : ~Holds(chan', k)
      BY <2>2, <2>3 DEF AccountInv
    <2> QED
      BY <2>1, <2>2, <2>4 DEF AccountInv
  <1>8. CASE Notify
    <2> DEFINE c == Head(chan)
    <2>1. /\ chan # <<>> /\ chan' = Tail(chan) /\ c \in Change
          /\ UNCHANGED <<epoch, nodes, linked, items>>
          /\ c[1] # "id" => UNCHANGED <<mark, published, gaps, since>>
          /\ c[1] = "id" =>
               /\ mark' = c[2] /\ c[2] \in Nat /\ c[2] <= nodes.id
               /\ since' = IF since = None THEN c[2] ELSE since
               /\ mark = None \/ c[2] <= mark => UNCHANGED <<published, gaps>>
               /\ ~(mark = None \/ c[2] <= mark) =>
                    /\ mark \in Nat /\ mark < c[2] /\ gaps' = gaps \cup Skipped(c[2])
                    /\ \E e : published' = published \cup {e} /\ e.epoch = epoch /\ e.id = c[2]
      BY <1>8, NotifyFields DEF simVars, pubVars
    <2>2. /\ \A n \in Nat : AtLeast(chan, n) => AtLeast(chan', n)
          /\ \A k : Holds(chan, k) <=> Holds(chan', k) \/ (c[1] = "id" /\ c[2] = k)
          /\ c[1] = "id" => /\ AtLeast(chan', c[2])
                            /\ \A n \in Nat : AtLeast(chan, n) => n <= c[2]
          /\ AtMost(chan', nodes.id) /\ chan' \in Seq(Change)
      BY <1>0, <2>1, TailIds DEF StreamInv
    <2> HIDE DEF c
    <2>3. CASE c[1] # "id"
      <3>1. UNCHANGED <<mark, published, gaps, since>> /\ \A k : Holds(chan, k) <=> Holds(chan', k)
        BY <2>1, <2>2, <2>3
      <3> QED
        BY <2>1, <2>2, <3>1 DEF AccountInv
    <2>4. CASE c[1] = "id"
      <3>1. /\ mark' = c[2] /\ c[2] \in Nat /\ c[2] <= nodes.id /\ AtLeast(chan', c[2])
            /\ since' = IF since = None THEN c[2] ELSE since
            /\ since' # None
        BY <1>0, <2>1, <2>2, <2>4 DEF None
      \* What the edge still has to read.
      <3>2. linked => \/ Holds(items, nodes.id) \/ Holds(chan', nodes.id)
                      \/ mark' = nodes.id /\ \A k : ~Holds(chan', k)
        <4> SUFFICES ASSUME linked, ~Holds(items, nodes.id), ~Holds(chan', nodes.id)
                     PROVE  mark' = nodes.id /\ \A k : ~Holds(chan', k)
          OBVIOUS
        <4>1. c[2] = nodes.id
          BY <2>2, <2>4 DEF AccountInv
        <4>2. ASSUME NEW k, Holds(chan', k)
              PROVE  FALSE
          <5>1. PICK i \in DOMAIN chan' : chan'[i][1] = "id" /\ chan'[i][2] = k
            BY <4>2 DEF Holds
          <5>2. c[2] <= k /\ k <= nodes.id
            BY <2>2, <3>1, <5>1 DEF AtLeast, AtMost
          <5>3. chan'[i] \in Change
            BY <2>2, <5>1
          <5>4. k \in Nat
            BY <5>1, <5>3, ChangeId
          <5> QED
            BY <1>0, <4>1, <4>2, <5>2, <5>4
        <4> QED
          BY <3>1, <4>1, <4>2
      \* What the watermark has passed.
      <3>3. /\ since' <= c[2]
            /\ since' < c[2] => Among(published', epoch, c[2])
            /\ \A k \in Nat : since' < k /\ k <= c[2] =>
                               Among(published', epoch, k) \/ Among(gaps', epoch, k)
        <4>1. CASE since = None
          BY <3>1, <4>1
        <4>2. CASE since # None
          <5>1. /\ mark \in Nat /\ since \in Nat /\ since <= mark /\ mark <= c[2]
                /\ since' = since
            BY <1>0, <2>2, <2>4, <3>1, <4>2 DEF AccountInv
          <5>2. CASE c[2] <= mark
            <6>1. c[2] = mark /\ published' = published /\ gaps' = gaps
              BY <2>1, <2>4, <3>1, <5>1, <5>2
            <6> QED
              BY <4>2, <5>1, <6>1 DEF AccountInv
          <5>3. CASE ~(c[2] <= mark)
            <6>1. ~(mark = None \/ c[2] <= mark)
              BY <5>1, <5>3 DEF None
            <6>2. /\ mark < c[2] /\ gaps' = gaps \cup Skipped(c[2])
                  /\ \E e : published' = published \cup {e} /\ e.epoch = epoch /\ e.id = c[2]
              BY <2>1, <2>4, <6>1
            <6>3. PICK e : published' = published \cup {e} /\ e.epoch = epoch /\ e.id = c[2]
              BY <6>2
            <6>4. /\ Among(published', epoch, c[2])
                  /\ \A k : Among(published, epoch, k) => Among(published', epoch, k)
                  /\ \A k : Among(gaps, epoch, k) => Among(gaps', epoch, k)
              BY <6>2, <6>3 DEF Among
            <6>5. ASSUME NEW k \in (mark + 1)..(c[2] - 1)
                  PROVE  Among(gaps', epoch, k)
              <7> DEFINE g == [epoch |-> epoch, id |-> k]
              <7>1. g \in Skipped(c[2]) /\ g.epoch = epoch /\ g.id = k
                BY DEF Skipped
              <7> QED
                BY <6>2, <7>1 DEF Among
            <6>6. ASSUME NEW k \in Nat, since < k, k <= c[2]
                  PROVE  Among(published', epoch, k) \/ Among(gaps', epoch, k)
              <7>1. k <= mark \/ k \in (mark + 1)..(c[2] - 1) \/ k = c[2]
                BY <3>1, <5>1, <6>6
              <7>2. CASE k <= mark
                BY <4>2, <6>4, <6>6, <7>2 DEF AccountInv
              <7> QED
                BY <6>4, <6>5, <7>1, <7>2
            <6> QED
              BY <3>1, <5>1, <6>2, <6>4, <6>6
          <5> QED
            BY <5>2, <5>3
        <4> QED
          BY <4>1, <4>2
      <3> QED
        BY <2>1, <3>1, <3>2, <3>3 DEF AccountInv
    <2> QED
      BY <2>3, <2>4
  <1>9. CASE \/ \E v \in Valve : ScrapCycle(v)
             \/ \E p \in Params : WriteParam(p)
             \/ ForceOn \/ ForceOff \/ Drain \/ FailWrite
    BY <1>1, <1>9 DEF ScrapCycle, WriteParam, ForceOn, ForceOff, Drain, FailWrite,
                      simVars, pubVars, linkVars, flowVars
  <1>10. CASE UNCHANGED vars
    BY <1>1, <1>10 DEF vars, simVars, pubVars, linkVars, flowVars
  <1> QED
    BY <1>2, <1>3, <1>4, <1>5, <1>6, <1>7, <1>8, <1>9, <1>10 DEF Next

FlowInv == StreamInv /\ RecordInv /\ AccountInv

LEMMA FlowInvariant == Spec => []FlowInv
  <1>1. Init => RecordInv /\ AccountInv
    <2> SUFFICES ASSUME Init
                 PROVE  RecordInv /\ AccountInv
      OBVIOUS
    <2> DEFINE d == <<"pay", Unset, TRUE>>
               c == <<"id", 0, TRUE>>
    <2>1. /\ out = <<>> /\ log = <<>> /\ made = {} /\ since = None
          /\ nodes.id = 0 /\ snap.id = 0 /\ items = <<d, c>>
      BY DEF Init, EmptyTags, Current
    <2>2. c[1] = "id" /\ c[2] = 0
      OBVIOUS
    <2> HIDE DEF c, d
    <2>3. 2 \in DOMAIN items /\ items[2] = c
      BY <2>1
    <2>4. Holds(items, 0)
      BY <2>2, <2>3 DEF Holds
    <2> QED
      BY <2>1, <2>4, EmptyIds DEF RecordInv, AccountInv, Pending
  <1>2. FlowInv /\ [Next]_vars => FlowInv'
    BY StreamStep, RecordStep, AccountStep DEF FlowInv
  <1> QED
    BY <1>1, <1>2, StreamInit, PTL DEF Spec, FlowInv

\* Once everything has arrived, a linked edge has published the last record and has
\* published or reported every record since its first id of the process, for every
\* number of cycles, bursts, failed writes, restarts and lost links and every
\* length of the change log (_publish_tick, watermark-acquisition).
THEOREM EveryCycleCorrect == Spec => []EveryCycleAccounted
  <1>1. FlowInv => EveryCycleAccounted
    <2> DEFINE now(s) == {x.id : x \in {y \in s : y.epoch = epoch}}
    <2> SUFFICES ASSUME FlowInv, linked, ~failed, log = <<>>, out = <<>>,
                        items = <<>>, chan = <<>>
                 PROVE  /\ mark = snap.id
                        /\ snap.id > since => snap.id \in now(published)
                        /\ \A k \in now(made) :
                             k > since => k \in now(published) \cup now(gaps)
      BY DEF EveryCycleAccounted
    <2>1. since # None /\ mark = nodes.id /\ nodes.id = snap.id /\ snap.id \in Nat
      BY EmptyIds DEF FlowInv, StreamInv, StreamType, RecordInv, AccountInv, Pending
    <2>2. \A s, k : Among(s, epoch, k) => k \in now(s)
      BY DEF Among
    <2>3. ASSUME NEW k \in now(made), k > since
          PROVE  Among(published, epoch, k) \/ Among(gaps, epoch, k)
      <3>1. k \in Nat /\ k <= snap.id
        BY DEF FlowInv, RecordInv
      <3> QED
        BY <2>1, <2>3, <3>1 DEF FlowInv, AccountInv
    <2>4. since \in Nat /\ (snap.id > since => Among(published, epoch, snap.id))
      BY <2>1 DEF FlowInv, StreamInv, StreamType, AccountInv
    <2> HIDE DEF now
    <2> QED
      BY <2>1, <2>2, <2>3, <2>4
  <1> QED
    BY <1>1, FlowInvariant, PTL

-----------------------------------------------------------------------------
(* The bounds                                                                 *)

BoundInv ==
  /\ cycle \in [Valve -> 0..MaxCycle] /\ scrapped \subseteq Valve
  /\ snap.pay \in Payload \cup {Unset} /\ snap.id \in 0..MaxCycle
  /\ Len(log) <= LogCap
  /\ mark \in {None} \cup 0..MaxCycle

LEMMA BoundInit == Init => BoundInv
  <1> SUFFICES ASSUME Init
               PROVE  BoundInv
    OBVIOUS
  <1>1. LogCap \in Nat /\ MaxCycle \in Nat /\ 0 \in 0..MaxCycle
    BY OpcuaAssumption
  <1>2. /\ cycle = [v \in Valve |-> 0] /\ scrapped = {} /\ log = <<>> /\ mark = None
        /\ snap.pay = Unset /\ snap.id = 0
    BY DEF Init, EmptyTags
  <1>3. Len(log) = 0
    BY <1>2
  <1> QED
    BY <1>1, <1>2, <1>3 DEF BoundInv

LEMMA BoundStep == StreamInv /\ BoundInv /\ [Next]_vars => BoundInv'
  <1> SUFFICES ASSUME StreamInv, BoundInv, [Next]_vars
               PROVE  BoundInv'
    OBVIOUS
  <1>1. LogCap \in Nat /\ MaxCycle \in Nat /\ 0 \in 0..MaxCycle /\ Exposed \in Valve
    BY OpcuaAssumption
  <1>2. CASE UNCHANGED <<cycle, scrapped, snap, log, mark>>
    BY <1>2 DEF BoundInv
  <1>3. ASSUME NEW v \in Valve, NEW p \in Payload, CloseCycle(v, p)
        PROVE  BoundInv'
    <2>1. /\ cycle' = [cycle EXCEPT ![v] = cycle[v] + 1] /\ cycle[v] + 1 <= MaxCycle
          /\ scrapped' = scrapped \ {v} /\ mark' = mark
      BY <1>3 DEF CloseCycle, flowVars
    <2>2. cycle \in [Valve -> 0..MaxCycle] /\ cycle[v] + 1 \in 0..MaxCycle
      BY <1>1, <2>1 DEF BoundInv
    <2>3. cycle' \in [Valve -> 0..MaxCycle] /\ scrapped' \subseteq Valve
      BY <2>1, <2>2 DEF BoundInv
    <2>4. CASE v # Exposed
      <3>1. UNCHANGED <<snap, log>>
        BY <1>3, <2>4 DEF CloseCycle
      <3> QED
        BY <2>1, <2>3, <3>1 DEF BoundInv
    <2>5. CASE v = Exposed
      <3> DEFINE k == cycle[v] + 1
                 b == log \o Block(k, p)
      <3>1. snap' = [pay |-> p, id |-> k] /\ log' = Keep(b)
        BY <1>3, <2>5 DEF CloseCycle
      <3>2. k \in Nat /\ k \in 0..MaxCycle /\ log \in Seq(Change)
        BY <2>2 DEF StreamInv, StreamType
      <3> HIDE DEF k
      <3>3. b \in Seq(Change)
        BY <3>2, BlockIds
      <3> HIDE DEF b
      <3>4. Len(log') <= LogCap
        BY <3>1, <3>3, KeepIds
      <3>5. snap'.pay \in Payload /\ snap'.id \in 0..MaxCycle
        BY <3>1, <3>2
      <3> QED
        BY <2>1, <2>3, <3>4, <3>5 DEF BoundInv
    <2> QED
      BY <2>4, <2>5
  <1>4. ASSUME NEW v \in Valve, ScrapCycle(v)
        PROVE  BoundInv'
    <2>1. /\ cycle' = [cycle EXCEPT ![v] = cycle[v] + 1] /\ cycle[v] < MaxCycle
          /\ scrapped' = scrapped \cup {v} /\ UNCHANGED <<snap, log, mark>>
      BY <1>4 DEF ScrapCycle, pubVars, flowVars
    <2>2. cycle \in [Valve -> 0..MaxCycle] /\ cycle[v] + 1 \in 0..MaxCycle
      BY <1>1, <2>1 DEF BoundInv
    <2> QED
      BY <2>1, <2>2 DEF BoundInv
  <1>5. CASE RestartServe
    <2>1. /\ cycle' = [v \in Valve |-> 0] /\ scrapped' = {} /\ log' = <<>> /\ mark' = mark
          /\ snap'.pay = Unset /\ snap'.id = 0
      BY <1>5 DEF RestartServe, EmptyTags
    <2>2. Len(log') = 0
      BY <2>1
    <2> QED
      BY <1>1, <2>1, <2>2 DEF BoundInv
  <1>6. CASE Drain
    <2>1. log' = <<>> /\ UNCHANGED <<cycle, scrapped, snap, mark>>
      BY <1>6 DEF Drain, simVars, flowVars
    <2>2. Len(log') = 0
      BY <2>1
    <2> QED
      BY <1>1, <2>1, <2>2 DEF BoundInv
  <1>7. CASE Notify
    <2> DEFINE c == Head(chan)
    <2>1. /\ UNCHANGED <<cycle, scrapped, snap, log>>
          /\ c[1] # "id" => mark' = mark
          /\ c[1] = "id" => mark' = c[2] /\ c[2] \in Nat /\ c[2] <= nodes.id
      BY <1>7, NotifyFields DEF simVars, pubVars
    <2>2. nodes.id \in Nat /\ nodes.id <= MaxCycle
      <3>1. /\ nodes.id \in Nat /\ nodes.id <= snap.id /\ snap.id \in 0..MaxCycle
        BY <1>1 DEF StreamInv, StreamType, BoundInv
      <3> QED
        BY <1>1, <3>1
    <2> HIDE DEF c
    <2>3. c[1] = "id" => mark' \in 0..MaxCycle
      BY <1>1, <2>1, <2>2
    <2> QED
      BY <2>1, <2>3 DEF BoundInv
  <1>8. CASE Deploy
    BY <1>8 DEF Deploy, simVars, pubVars, BoundInv
  <1>9. CASE WriteNode \/ FailWrite \/ LoseLink \/ EdgeLink \/ PublishItems
    BY <1>2, <1>9 DEF WriteNode, FailWrite, LoseLink, EdgeLink, PublishItems, simVars,
                      pubVars, flowVars
  <1>10. CASE \E p \in Params : WriteParam(p)
    BY <1>2, <1>10 DEF WriteParam, pubVars, flowVars
  <1>11. CASE ForceOn \/ ForceOff
    BY <1>2, <1>11 DEF ForceOn, ForceOff, pubVars, flowVars
  <1>12. CASE UNCHANGED vars
    BY <1>2, <1>12 DEF vars, simVars, pubVars, flowVars
  <1> QED
    BY <1>3, <1>4, <1>5, <1>6, <1>7, <1>8, <1>9, <1>10, <1>11, <1>12 DEF Next

\* Every variable keeps its shape, the change log its bound, a monitored item one
\* value of its tag, the watermark a number a cycle can have, and nothing is on the
\* way to an edge that is not linked, for every number of valves, cycles and log
\* length (TagSnapshot, server).
THEOREM TypeCorrect == Spec => []TypeInvariant
  <1>1. RegistryInv /\ StreamInv /\ BoundInv => TypeInvariant
    <2> SUFFICES ASSUME RegistryInv, StreamInv, BoundInv
                 PROVE  TypeInvariant
      OBVIOUS
    <2>1. \A i \in DOMAIN chan : chan[i][1] \in Tag
      <3> TAKE i \in DOMAIN chan
      <3>1. chan[i] \in Change
        BY DEF StreamInv, StreamType
      <3> QED
        BY <3>1, ChangeId DEF Tag
    <2> QED
      BY <2>1 DEF TypeInvariant, RegistryInv, StreamInv, Lone, BoundInv
  <1>2. Spec => []BoundInv
    BY BoundStep, BoundInit, StreamInvariant, PTL DEF Spec
  <1> QED
    BY <1>1, <1>2, RegistryInvariant, StreamInvariant, PTL

-----------------------------------------------------------------------------
(* The payload an id travels with                                             *)

\* Id k was read with payload y: the initial 0, or the record's.
Match(M, ep, k, y) == k = 0 \/ [epoch |-> ep, id |-> k, pay |-> y] \in M

\* F: what a reader of the changes s has for payload before each, from x to y.
Reads(F, x, s, y) ==
  /\ F \in [1..(Len(s) + 1) -> Contents]
  /\ F[1] = x /\ F[Len(s) + 1] = y
  /\ \A i \in DOMAIN s : F[i + 1] = IF s[i][1] = "pay" THEN s[i][2] ELSE F[i]

\* Every id meets its payload; without t, those marked whole.
Truthful(F, s, M, ep, t) ==
  \A i \in DOMAIN s :
    s[i][1] = "id" /\ (t \/ s[i][3]) => Match(M, ep, s[i][2], F[i])

Carries(x, s, y, M, ep, t) ==
  \E F \in [1..(Len(s) + 1) -> Contents] : Reads(F, x, s, y) /\ Truthful(F, s, M, ep, t)

\* A payload is followed by its id.
Whole(s) == \A i \in DOMAIN s : s[i][1] = "pay" => i + 1 \in DOMAIN s /\ s[i + 1][1] = "id"

LEMMA CarriesEmpty ==
  ASSUME NEW x \in Contents, NEW y, NEW M, NEW ep, NEW t \in BOOLEAN
  PROVE  /\ Carries(x, <<>>, y, M, ep, t) <=> x = y
         /\ Whole(<<>>)
  <1>1. Len(<<>>) = 0 /\ DOMAIN <<>> = {}
    OBVIOUS
  <1>2. ASSUME Carries(x, <<>>, y, M, ep, t)
        PROVE  x = y
    BY <1>1, <1>2 DEF Carries, Reads
  <1>3. ASSUME x = y
        PROVE  Carries(x, <<>>, y, M, ep, t)
    <2> DEFINE F == [i \in 1..1 |-> x]
    <2>1. F \in [1..(Len(<<>>) + 1) -> Contents] /\ F[1] = x /\ F[Len(<<>>) + 1] = y
      BY <1>1, <1>3
    <2> HIDE DEF F
    <2> QED
      BY <1>1, <2>1 DEF Carries, Reads, Truthful
  <1> QED
    BY <1>1, <1>2, <1>3 DEF Whole

LEMMA CarriesMore ==
  ASSUME NEW s, NEW x, NEW y, NEW M, NEW ep, NEW t \in BOOLEAN, Carries(x, s, y, M, ep, t),
         NEW N, M \subseteq N
  PROVE  Carries(x, s, y, N, ep, t)
  <1>1. PICK F \in [1..(Len(s) + 1) -> Contents] :
               Reads(F, x, s, y) /\ Truthful(F, s, M, ep, t)
    BY DEF Carries
  <1>2. Truthful(F, s, N, ep, t)
    BY <1>1 DEF Truthful, Match
  <1> QED
    BY <1>1, <1>2 DEF Carries

LEMMA CarriesAppend ==
  ASSUME NEW s \in Seq(Change), NEW c \in Change, NEW x, NEW y, NEW M, NEW ep, NEW t \in BOOLEAN,
         Carries(x, s, y, M, ep, t)
  PROVE  /\ c[1] = "pay" => Carries(x, Append(s, c), c[2], M, ep, t)
         /\ c[1] = "id" /\ (t \/ c[3] => Match(M, ep, c[2], y))
              => Carries(x, Append(s, c), y, M, ep, t)
  <1>1. PICK F \in [1..(Len(s) + 1) -> Contents] :
               Reads(F, x, s, y) /\ Truthful(F, s, M, ep, t)
    BY DEF Carries
  <1> DEFINE q == Append(s, c)
             n == Len(s)
             z == IF c[1] = "pay" THEN c[2] ELSE y
             G == [i \in 1..(n + 2) |-> IF i <= n + 1 THEN F[i] ELSE z]
  <1>2. /\ n \in Nat /\ Len(q) = n + 1 /\ DOMAIN s = 1..n /\ DOMAIN q = 1..(n + 1)
        /\ \A i \in 1..n : q[i] = s[i]
        /\ q[n + 1] = c
    OBVIOUS
  <1>3. y \in Contents /\ z \in Contents
    <2>1. y \in Contents
      BY <1>1, <1>2 DEF Reads
    <2>2. c[1] = "pay" => c[2] \in Contents
      BY ChangeId DEF Contents
    <2> QED
      BY <2>1, <2>2
  <1> HIDE DEF q, z
  <1>4. /\ G \in [1..(Len(q) + 1) -> Contents]
        /\ \A i \in 1..(n + 1) : G[i] = F[i]
        /\ G[n + 2] = z
    BY <1>1, <1>2, <1>3 DEF Reads
  <1> HIDE DEF n, G
  <1>5. F[1] = x /\ F[n + 1] = y /\ \A i \in 1..n : F[i + 1] = IF s[i][1] = "pay" THEN s[i][2] ELSE F[i]
    BY <1>1, <1>2 DEF Reads, n
  <1>6. Reads(G, x, q, z)
    <2>1. G[1] = x /\ G[Len(q) + 1] = z
      BY <1>2, <1>4, <1>5
    <2>2. ASSUME NEW i \in DOMAIN q
          PROVE  G[i + 1] = IF q[i][1] = "pay" THEN q[i][2] ELSE G[i]
      <3>1. CASE i = n + 1
        BY <1>2, <1>4, <1>5, <3>1 DEF z
      <3>2. CASE i # n + 1
        <4>1. i \in 1..n /\ i \in 1..(n + 1) /\ i + 1 \in 1..(n + 1)
          BY <1>2, <3>2
        <4> QED
          BY <1>2, <1>4, <1>5, <4>1
      <3> QED
        BY <3>1, <3>2
    <2> QED
      BY <1>4, <2>1, <2>2 DEF Reads
  <1>7. ASSUME c[1] = "id" => (t \/ c[3] => Match(M, ep, c[2], y))
        PROVE  Truthful(G, q, M, ep, t)
    <2> SUFFICES ASSUME NEW i \in DOMAIN q, q[i][1] = "id", t \/ q[i][3]
                 PROVE  Match(M, ep, q[i][2], G[i])
      BY DEF Truthful
    <2>1. CASE i = n + 1
      <3>1. q[i] = c /\ G[i] = y
        BY <1>2, <1>4, <1>5, <2>1
      <3> QED
        BY <1>7, <3>1
    <2>2. CASE i # n + 1
      <3>1. i \in DOMAIN s /\ q[i] = s[i] /\ G[i] = F[i]
        BY <1>2, <1>4, <2>2
      <3> QED
        BY <1>1, <3>1 DEF Truthful
    <2> QED
      BY <2>1, <2>2
  <1>8. c[1] = "pay" => z = c[2]
    BY DEF z
  <1>9. c[1] = "id" => z = y
    BY DEF z
  <1> QED
    BY <1>4, <1>6, <1>7, <1>8, <1>9 DEF Carries, q

LEMMA CarriesTail ==
  ASSUME NEW s \in Seq(Change), s # <<>>, NEW x, NEW y, NEW M, NEW ep, NEW t \in BOOLEAN,
         Carries(x, s, y, M, ep, t)
  PROVE  /\ Head(s)[1] = "pay" => Carries(Head(s)[2], Tail(s), y, M, ep, t)
         /\ Head(s)[1] = "id" => /\ Carries(x, Tail(s), y, M, ep, t)
                                 /\ t \/ Head(s)[3] => Match(M, ep, Head(s)[2], x)
  <1>1. PICK F \in [1..(Len(s) + 1) -> Contents] :
               Reads(F, x, s, y) /\ Truthful(F, s, M, ep, t)
    BY DEF Carries
  <1> DEFINE q == Tail(s)
             n == Len(s)
             c == Head(s)
             G == [i \in 1..n |-> F[i + 1]]
  <1>2. /\ n \in Nat /\ n > 0 /\ Len(q) = n - 1 /\ DOMAIN s = 1..n /\ DOMAIN q = 1..(n - 1)
        /\ \A i \in 1..(n - 1) : q[i] = s[i + 1]
        /\ s[1] = c /\ 1 \in DOMAIN s
    OBVIOUS
  <1>3. c \in Change
    OBVIOUS
  <1> HIDE DEF q, c
  <1>4. F \in [1..(n + 1) -> Contents]
    BY <1>1
  <1>5. F[1] = x /\ F[n + 1] = y /\ \A i \in 1..n : F[i + 1] = IF s[i][1] = "pay" THEN s[i][2] ELSE F[i]
    BY <1>1, <1>2 DEF Reads
  <1> HIDE DEF n
  <1>6. /\ G \in [1..(Len(q) + 1) -> Contents]
        /\ \A i \in 1..n : G[i] = F[i + 1]
    <2>1. \A i \in 1..n : F[i + 1] \in Contents
      BY <1>2, <1>4
    <2>2. Len(q) + 1 = n
      BY <1>2
    <2> QED
      BY <2>1, <2>2
  <1> HIDE DEF G
  <1>7. Reads(G, G[1], q, y)
    <2>1. G[Len(q) + 1] = y
      BY <1>2, <1>5, <1>6
    <2>2. ASSUME NEW i \in DOMAIN q
          PROVE  G[i + 1] = IF q[i][1] = "pay" THEN q[i][2] ELSE G[i]
      <3>1. i \in 1..n /\ i + 1 \in 1..n /\ q[i] = s[i + 1]
        BY <1>2
      <3> QED
        BY <1>5, <1>6, <3>1
    <2> QED
      BY <1>6, <2>1, <2>2 DEF Reads
  <1>8. 1 \in 1..n /\ G[1] = IF c[1] = "pay" THEN c[2] ELSE x
    <2>1. 1 \in 1..n
      BY <1>2
    <2>2. F[1 + 1] = IF s[1][1] = "pay" THEN s[1][2] ELSE F[1]
      BY <1>5, <2>1
    <2> QED
      BY <1>2, <1>5, <1>6, <2>1, <2>2
  <1>9. Truthful(G, q, M, ep, t)
    <2> SUFFICES ASSUME NEW i \in DOMAIN q, q[i][1] = "id", t \/ q[i][3]
                 PROVE  Match(M, ep, q[i][2], G[i])
      BY DEF Truthful
    <2>1. i \in 1..n /\ i + 1 \in DOMAIN s /\ q[i] = s[i + 1] /\ G[i] = F[i + 1]
      BY <1>2, <1>6
    <2> QED
      BY <1>1, <2>1 DEF Truthful
  <1>10. c[1] = "id" /\ (t \/ c[3]) => Match(M, ep, c[2], x)
    BY <1>1, <1>2, <1>5 DEF Truthful
  <1>11. c[1] = "pay" => Carries(c[2], q, y, M, ep, t)
    BY <1>6, <1>7, <1>8, <1>9 DEF Carries
  <1>12. c[1] = "id" => Carries(x, q, y, M, ep, t)
    <2>1. c[1] = "id" => c[1] # "pay"
      OBVIOUS
    <2> QED
      BY <1>6, <1>7, <1>8, <1>9, <2>1 DEF Carries
  <1> QED
    BY <1>10, <1>11, <1>12 DEF c, q

\* One reader after the other.
LEMMA CarriesConcat ==
  ASSUME NEW s \in Seq(Change), NEW u \in Seq(Change), NEW x, NEW y, NEW z,
         NEW M, NEW ep, NEW t \in BOOLEAN,
         Carries(x, s, y, M, ep, t), Carries(y, u, z, M, ep, t)
  PROVE  Carries(x, s \o u, z, M, ep, t)
  <1>1. PICK F \in [1..(Len(s) + 1) -> Contents] :
               Reads(F, x, s, y) /\ Truthful(F, s, M, ep, t)
    BY DEF Carries
  <1>2. PICK G \in [1..(Len(u) + 1) -> Contents] :
               Reads(G, y, u, z) /\ Truthful(G, u, M, ep, t)
    BY DEF Carries
  <1> DEFINE q == s \o u
             n == Len(s)
             m == Len(u)
             H == [i \in 1..(n + m + 1) |-> IF i <= n THEN F[i] ELSE G[i - n]]
  <1>3. /\ n \in Nat /\ m \in Nat /\ Len(q) = n + m /\ q \in Seq(Change)
        /\ DOMAIN s = 1..n /\ DOMAIN u = 1..m /\ DOMAIN q = 1..(n + m)
        /\ \A i \in 1..(n + m) : q[i] = IF i <= n THEN s[i] ELSE u[i - n]
    OBVIOUS
  <1> HIDE DEF q, n, m
  <1>4. /\ F \in [1..(n + 1) -> Contents] /\ G \in [1..(m + 1) -> Contents]
        /\ F[1] = x /\ F[n + 1] = y /\ G[1] = y /\ G[m + 1] = z
        /\ \A i \in 1..n : F[i + 1] = IF s[i][1] = "pay" THEN s[i][2] ELSE F[i]
        /\ \A i \in 1..m : G[i + 1] = IF u[i][1] = "pay" THEN u[i][2] ELSE G[i]
    BY <1>1, <1>2, <1>3 DEF Reads, n, m
  <1>5. \A i \in 1..(n + m + 1) : (IF i <= n THEN F[i] ELSE G[i - n]) \in Contents
    <2> TAKE i \in 1..(n + m + 1)
    <2>1. CASE i <= n
      BY <1>3, <1>4, <2>1
    <2>2. CASE ~(i <= n)
      <3>1. i - n \in 1..(m + 1)
        BY <1>3, <2>2
      <3> QED
        BY <1>4, <2>2, <3>1
    <2> QED
      BY <2>1, <2>2
  <1>6. /\ H \in [1..(Len(q) + 1) -> Contents]
        /\ \A i \in 1..(n + m + 1) : H[i] = IF i <= n THEN F[i] ELSE G[i - n]
    BY <1>3, <1>5
  <1> HIDE DEF H
  <1>7. \A i \in 1..(n + 1) : H[i] = F[i]
    <2> TAKE i \in 1..(n + 1)
    <2>1. i \in 1..(n + m + 1)
      BY <1>3
    <2>2. CASE i <= n
      BY <1>6, <2>1, <2>2
    <2>3. CASE i = n + 1
      <3>1. i - n = 1 /\ ~(i <= n)
        BY <1>3, <2>3
      <3> QED
        BY <1>4, <1>6, <2>1, <2>3, <3>1
    <2> QED
      BY <1>3, <2>2, <2>3
  <1>8. \A i \in 1..(m + 1) : H[n + i] = G[i]
    <2> TAKE i \in 1..(m + 1)
    <2>1. n + i \in 1..(n + m + 1) /\ ~(n + i <= n) /\ (n + i) - n = i
      BY <1>3
    <2> QED
      BY <1>6, <2>1
  <1>9. \A i \in DOMAIN q : \/ i \in 1..n /\ q[i] = s[i] /\ H[i] = F[i] /\ H[i + 1] = F[i + 1]
                            \/ \E j \in 1..m : /\ q[i] = u[j] /\ H[i] = G[j]
                                              /\ H[i + 1] = G[j + 1]
    <2> TAKE i \in DOMAIN q
    <2>1. CASE i <= n
      <3>1. i \in 1..n /\ i \in 1..(n + 1) /\ i + 1 \in 1..(n + 1)
        BY <1>3, <2>1
      <3> QED
        BY <1>3, <1>7, <2>1, <3>1
    <2>2. CASE ~(i <= n)
      <3> DEFINE j == i - n
      <3>1. /\ j \in 1..m /\ j \in 1..(m + 1) /\ j + 1 \in 1..(m + 1)
            /\ n + j = i /\ n + (j + 1) = i + 1 /\ q[i] = u[j]
        BY <1>3, <2>2
      <3> HIDE DEF j
      <3>2. H[i] = G[j] /\ H[i + 1] = G[j + 1]
        BY <1>8, <3>1
      <3> QED
        BY <3>1, <3>2
    <2> QED
      BY <2>1, <2>2
  <1>10. Reads(H, x, q, z)
    <2>1. H[1] = x
      BY <1>3, <1>4, <1>7
    <2>2. H[Len(q) + 1] = z
      <3>1. m + 1 \in 1..(m + 1) /\ n + (m + 1) = Len(q) + 1
        BY <1>3
      <3> QED
        BY <1>4, <1>8, <3>1
    <2>3. \A i \in DOMAIN q : H[i + 1] = IF q[i][1] = "pay" THEN q[i][2] ELSE H[i]
      BY <1>4, <1>9
    <2> QED
      BY <1>6, <2>1, <2>2, <2>3 DEF Reads
  <1>11. Truthful(H, q, M, ep, t)
    BY <1>1, <1>2, <1>3, <1>9 DEF Truthful
  <1> QED
    BY <1>6, <1>10, <1>11 DEF Carries, q

\* The items s bring a reader from the payload x to the node's, y.
Brings(s, x, y, M, ep) ==
  /\ (\E i \in DOMAIN s : s[i][1] = "pay") \/ x = y
  /\ \A i \in DOMAIN s : s[i][1] = "id" /\ s[i][3] =>
       Match(M, ep, s[i][2],
             IF \E j \in DOMAIN s : j < i /\ s[j][1] = "pay" THEN y ELSE x)

LEMMA BringsCarries ==
  ASSUME NEW s \in Seq(Change), NEW x \in Contents, NEW y \in Contents, NEW M, NEW ep,
         NEW k, Are(s, y, k), Brings(s, x, y, M, ep)
  PROVE  Carries(x, s, y, M, ep, FALSE)
  <1> DEFINE n == Len(s)
             Paid(i) == \E j \in DOMAIN s : j < i /\ s[j][1] = "pay"
             F == [i \in 1..(n + 1) |-> IF Paid(i) THEN y ELSE x]
  <1>1. n \in Nat /\ DOMAIN s = 1..n
    OBVIOUS
  <1>2. F \in [1..(n + 1) -> Contents] /\ \A i \in 1..(n + 1) : F[i] = IF Paid(i) THEN y ELSE x
    OBVIOUS
  <1> HIDE DEF F, n
  <1>3. F[1] = x
    <2>1. ~Paid(1) /\ 1 \in 1..(n + 1)
      BY <1>1
    <2> QED
      BY <1>2, <2>1
  <1>4. F[n + 1] = y
    <2>1. Paid(n + 1) \/ x = y
      BY <1>1 DEF Brings
    <2>2. n + 1 \in 1..(n + 1)
      BY <1>1
    <2> QED
      BY <1>2, <2>1, <2>2
  <1>5. ASSUME NEW i \in DOMAIN s
        PROVE  F[i + 1] = IF s[i][1] = "pay" THEN s[i][2] ELSE F[i]
    <2>1. i \in 1..(n + 1) /\ i + 1 \in 1..(n + 1)
      BY <1>1
    <2>2. Paid(i + 1) <=> Paid(i) \/ s[i][1] = "pay"
      BY <1>1
    <2>3. s[i][1] = "pay" => s[i][2] = y
      BY DEF Are
    <2> QED
      BY <1>2, <2>1, <2>2, <2>3
  <1>6. Reads(F, x, s, y)
    BY <1>2, <1>3, <1>4, <1>5 DEF Reads, n
  <1>7. \A i \in DOMAIN s : F[i] = IF Paid(i) THEN y ELSE x
    BY <1>1, <1>2
  <1>8. Truthful(F, s, M, ep, FALSE)
    BY <1>7 DEF Truthful, Brings
  <1> QED
    BY <1>2, <1>6, <1>8 DEF Carries, n

LEMMA WholeTail ==
  ASSUME NEW s \in Seq(Change), s # <<>>, Whole(s)
  PROVE  /\ Whole(Tail(s))
         /\ Head(s)[1] = "pay" => Tail(s) # <<>> /\ Head(Tail(s))[1] = "id"
  <1> DEFINE q == Tail(s)
  <1>1. /\ Len(s) \in Nat /\ Len(q) = Len(s) - 1 /\ DOMAIN s = 1..Len(s)
        /\ DOMAIN q = 1..Len(q) /\ Head(s) = s[1] /\ 1 \in DOMAIN s
        /\ \A i \in 1..Len(q) : q[i] = s[i + 1]
        /\ q \in Seq(Change)
    OBVIOUS
  <1> HIDE DEF q
  <1>2. ASSUME NEW i \in DOMAIN q, q[i][1] = "pay"
        PROVE  i + 1 \in DOMAIN q /\ q[i + 1][1] = "id"
    <2>1. i + 1 \in DOMAIN s /\ s[i + 1][1] = "pay"
      BY <1>1, <1>2
    <2>2. (i + 1) + 1 \in DOMAIN s /\ s[(i + 1) + 1][1] = "id"
      BY <2>1 DEF Whole
    <2> QED
      BY <1>1, <2>2
  <1>3. ASSUME Head(s)[1] = "pay"
        PROVE  q # <<>> /\ Head(q)[1] = "id"
    <2>1. 1 + 1 \in DOMAIN s /\ s[1 + 1][1] = "id"
      BY <1>1, <1>3 DEF Whole
    <2>2. 1 \in 1..Len(q)
      BY <1>1, <2>1
    <2>3. q # <<>> /\ Head(q) = q[1]
      BY <1>1, <2>2
    <2> QED
      BY <1>1, <2>1, <2>2, <2>3
  <1> QED
    BY <1>2, <1>3 DEF Whole, q

\* The block of a cycle brings the reader to the cycle's payload, then its id.
LEMMA BlockCarries ==
  ASSUME NEW s \in Seq(Change), NEW k \in Nat, NEW p \in Payload, NEW x, NEW M, NEW ep,
         Carries(x, s, snap.pay, M, ep, TRUE), Whole(s), Match(M, ep, k, p)
  PROVE  Carries(x, s \o Block(k, p), p, M, ep, TRUE) /\ Whole(s \o Block(k, p))
  <1> DEFINE c == <<"id", k>>
             d == <<"pay", p>>
             r == IF snap.pay # p THEN Append(s, d) ELSE s
             b == Append(r, c)
  <1>1. /\ d \in Change /\ c \in Change /\ c[1] = "id" /\ c[2] = k
        /\ d[1] = "pay" /\ d[2] = p
    BY DEF Change, Contents
  <1>2. s \o Block(k, p) = b
    BY <1>1 DEF Block
  <1> HIDE DEF c, d
  <1>3. r \in Seq(Change) /\ Carries(x, r, p, M, ep, TRUE)
    <2>1. CASE snap.pay = p
      BY <2>1
    <2>2. CASE snap.pay # p
      <3>1. Append(s, d) \in Seq(Change)
        BY <1>1
      <3>2. Carries(x, Append(s, d), d[2], M, ep, TRUE)
        BY <1>1, CarriesAppend
      <3> QED
        BY <1>1, <2>2, <3>1, <3>2
    <2> QED
      BY <2>1, <2>2
  <1>4. \A i \in DOMAIN r : r[i][1] = "pay" =>
          (i + 1 \in DOMAIN r /\ r[i + 1][1] = "id") \/ i = Len(r)
    <2>1. CASE snap.pay = p
      BY <2>1 DEF Whole
    <2>2. CASE snap.pay # p
      <3>1. /\ r = Append(s, d) /\ Len(r) = Len(s) + 1 /\ Len(s) \in Nat
            /\ DOMAIN s = 1..Len(s) /\ DOMAIN r = 1..(Len(s) + 1)
            /\ \A i \in 1..Len(s) : r[i] = s[i]
        BY <1>1, <2>2
      <3> HIDE DEF r
      <3> QED
        BY <3>1 DEF Whole
    <2> QED
      BY <2>1, <2>2
  <1> HIDE DEF r
  <1>5. Carries(x, b, p, M, ep, TRUE)
    BY <1>1, <1>3, CarriesAppend
  <1>6. /\ Len(r) \in Nat /\ DOMAIN r = 1..Len(r) /\ DOMAIN b = 1..(Len(r) + 1)
        /\ \A i \in 1..Len(r) : b[i] = r[i]
        /\ b[Len(r) + 1] = c
    BY <1>1, <1>3
  <1> HIDE DEF b
  <1>7. ASSUME NEW i \in DOMAIN b, b[i][1] = "pay"
        PROVE  i + 1 \in DOMAIN b /\ b[i + 1][1] = "id"
    <2>1. i \in DOMAIN r /\ r[i][1] = "pay"
      BY <1>1, <1>6, <1>7
    <2> QED
      BY <1>1, <1>4, <1>6, <2>1
  <1> QED
    BY <1>2, <1>5, <1>7 DEF Whole

\* What the edge, linked, still receives: notifications, then the items.
EdgeCarries ==
  \E mid \in Contents : /\ Carries(store.pay, chan, mid, made, epoch, FALSE)
                        /\ Brings(items, mid, nodes.pay, made, epoch)

\* While no change is lost, whoever reads the changes on their way meets every id
\* with the payload of its record; the edge every id whose value is of one block.
CarryInv ==
  ~dropped =>
    /\ \E mid \in Contents : /\ Carries(nodes.pay, out, mid, made, epoch, TRUE)
                             /\ Carries(mid, log, snap.pay, made, epoch, TRUE)
    /\ Whole(out) /\ Whole(log)
    /\ ~MidBlock => Match(made, epoch, nodes.id, nodes.pay)
    /\ linked => EdgeCarries

\* What an item adds for its reader: the payload, or an id its payload matches.
LEMMA BringsSample ==
  ASSUME NEW s \in Seq(Change), NEW c \in Change, NEW x, NEW y, NEW M, NEW ep,
         Brings(s, x, y, M, ep), c[1] = "id" => Match(M, ep, c[2], y)
  PROVE  LET q == Sample(s, c[1], c[2])
         IN  /\ c[1] = "id" => Brings(q, x, y, M, ep)
             /\ c[1] = "pay" => Brings(q, x, c[2], M, ep)
  <1> DEFINE tag == c[1]
             val == c[2]
             q == Sample(s, tag, val)
             z == IF tag = "pay" THEN val ELSE y
  <1>1. tag \in {"pay", "id"}
    BY ChangeId
  <1>2. /\ tag = "id" => Match(M, ep, val, y)
        /\ (\E i \in DOMAIN s : s[i][1] = "pay") \/ x = y
        /\ \A i \in DOMAIN s : s[i][1] = "id" /\ s[i][3] =>
             Match(M, ep, s[i][2],
                   IF \E j \in DOMAIN s : j < i /\ s[j][1] = "pay" THEN y ELSE x)
    BY DEF Brings
  <1>3. /\ tag = "id" => z = y
        /\ tag = "pay" => z = val
    OBVIOUS
  <1> HIDE DEF tag, val, z
  <1>4. CASE \E i \in DOMAIN s : s[i][1] = tag
    <2> DEFINE e(i) == <<s[i][1], IF s[i][1] = tag THEN val ELSE s[i][2], FALSE>>
    <2>1. q = [i \in DOMAIN s |-> e(i)]
      BY <1>4 DEF Sample, Overwrite
    <2>2. \A i \in DOMAIN s : e(i)[1] = s[i][1] /\ e(i)[3] = FALSE
      OBVIOUS
    <2> HIDE DEF e
    <2>3. DOMAIN q = DOMAIN s /\ \A i \in DOMAIN q : q[i][1] = s[i][1] /\ q[i][3] = FALSE
      BY <2>1, <2>2
    <2> HIDE DEF q
    <2>4. (\E i \in DOMAIN q : q[i][1] = "pay") \/ x = z
      BY <1>1, <1>2, <1>3, <1>4, <2>3
    <2>5. Brings(q, x, z, M, ep)
      BY <2>3, <2>4 DEF Brings
    <2> QED
      BY <1>1, <1>3, <2>5 DEF q, tag, val
  <1>5. CASE ~\E i \in DOMAIN s : s[i][1] = tag
    <2> DEFINE d == <<tag, val, TRUE>>
    <2>1. q = Append(s, d) /\ d[1] = tag /\ d[2] = val
      BY <1>5 DEF Sample
    <2> HIDE DEF d
    <2>2. /\ DOMAIN s = 1..Len(s) /\ Len(s) \in Nat /\ DOMAIN q = 1..(Len(s) + 1)
          /\ \A i \in DOMAIN s : q[i] = s[i]
          /\ q[Len(s) + 1] = d
      BY <2>1
    <2> HIDE DEF q
    <2>3. CASE tag = "pay"
      <3>1. \E i \in DOMAIN q : q[i][1] = "pay"
        BY <2>1, <2>2, <2>3
      <3>2. \A i \in DOMAIN s : s[i][1] # "pay"
        BY <1>5, <2>3
      <3>3. ASSUME NEW i \in DOMAIN q, q[i][1] = "id", q[i][3]
            PROVE  Match(M, ep, q[i][2],
                         IF \E j \in DOMAIN q : j < i /\ q[j][1] = "pay" THEN z ELSE x)
        <4>1. i \in DOMAIN s /\ q[i] = s[i]
          BY <2>1, <2>2, <2>3, <3>3
        <4>2. ~\E j \in DOMAIN q : j < i /\ q[j][1] = "pay"
          BY <2>2, <3>2, <4>1
        <4>3. Match(M, ep, s[i][2], x)
          BY <1>2, <3>2, <3>3, <4>1
        <4> QED
          BY <4>1, <4>2, <4>3
      <3> QED
        BY <1>3, <2>3, <3>1, <3>3 DEF Brings, q, tag, val
    <2>4. CASE tag = "id"
      <3>1. \A i \in DOMAIN s : s[i][1] # "id"
        BY <1>5, <2>4
      <3>2. (\E i \in DOMAIN q : q[i][1] = "pay") \/ x = y
        BY <1>2, <2>2
      <3>3. ASSUME NEW i \in DOMAIN q, q[i][1] = "id"
            PROVE  Match(M, ep, q[i][2],
                         IF \E j \in DOMAIN q : j < i /\ q[j][1] = "pay" THEN y ELSE x)
        <4>1. i = Len(s) + 1 /\ q[i][2] = val
          BY <2>1, <2>2, <3>1, <3>3
        <4>2. (\E j \in DOMAIN q : j < i /\ q[j][1] = "pay") \/ x = y
          BY <1>2, <2>2, <4>1
        <4> QED
          BY <1>2, <2>4, <4>1, <4>2
      <3> QED
        BY <1>3, <2>4, <3>2, <3>3 DEF Brings, q, tag, val
    <2> QED
      BY <1>1, <2>3, <2>4
  <1> QED
    BY <1>4, <1>5

LEMMA BringsMore ==
  ASSUME NEW s, NEW x, NEW y, NEW M, NEW ep, Brings(s, x, y, M, ep), NEW N, M \subseteq N
  PROVE  Brings(s, x, y, N, ep)
  BY DEF Brings, Match

LEMMA BringsNothing == \A x, M, ep : Brings(<<>>, x, x, M, ep)
  <1>1. DOMAIN <<>> = {}
    OBVIOUS
  <1> QED
    BY <1>1 DEF Brings

\* The two current values of a subscription.
LEMMA BringsCurrent ==
  ASSUME NEW d \in Change, NEW c \in Change, NEW x, NEW M, NEW ep, d[1] = "pay",
         c[1] = "id", c[3] => Match(M, ep, c[2], d[2])
  PROVE  Brings(Append(Append(<<>>, d), c), x, d[2], M, ep)
  <1> DEFINE q == Append(Append(<<>>, d), c)
  <1>1. DOMAIN q = {1, 2} /\ q[1] = d /\ q[2] = c
    OBVIOUS
  <1> HIDE DEF q
  <1>2. (\E i \in DOMAIN q : q[i][1] = "pay")
    BY <1>1
  <1>3. ASSUME NEW i \in DOMAIN q, q[i][1] = "id", q[i][3]
        PROVE  Match(M, ep, q[i][2],
                     IF \E j \in DOMAIN q : j < i /\ q[j][1] = "pay" THEN d[2] ELSE x)
    <2>1. i = 2 /\ \E j \in DOMAIN q : j < i /\ q[j][1] = "pay"
      BY <1>1, <1>3
    <2> QED
      BY <1>1, <1>3, <2>1
  <1> QED
    BY <1>2, <1>3 DEF Brings, q

LEMMA CarryInit == Init => CarryInv /\ EnvelopeIsItsCycle
  <1> SUFFICES ASSUME Init
               PROVE  CarryInv /\ EnvelopeIsItsCycle
    OBVIOUS
  <1> DEFINE d == <<"pay", Unset, TRUE>>
             c == <<"id", 0, TRUE>>
  <1>1. /\ out = <<>> /\ log = <<>> /\ chan = <<>> /\ published = {} /\ items = <<d, c>>
        /\ nodes.id = 0 /\ nodes.pay = Unset /\ snap.pay = Unset /\ store.pay = Unset
    BY DEF Init, EmptyTags, Current
  <1>2. /\ Unset \in Contents /\ d \in Change /\ c \in Change
        /\ d[1] = "pay" /\ d[2] = Unset /\ c[1] = "id" /\ c[2] = 0
    BY DEF Contents, Change
  <1> HIDE DEF c, d
  <1>3. items = Append(Append(<<>>, d), c)
    BY <1>1, <1>2
  <1>4. Brings(items, Unset, Unset, made, epoch)
    <2>1. Match(made, epoch, c[2], d[2])
      BY <1>2 DEF Match
    <2> QED
      BY <1>2, <1>3, <2>1, BringsCurrent
  <1>5. /\ Carries(Unset, <<>>, Unset, made, epoch, TRUE) /\ Whole(<<>>)
        /\ Carries(Unset, <<>>, Unset, made, epoch, FALSE)
    <2>1. Unset \in Contents
      BY DEF Contents
    <2>2. Carries(Unset, <<>>, Unset, made, epoch, TRUE) /\ Whole(<<>>)
      BY <2>1, CarriesEmpty
    <2>3. Carries(Unset, <<>>, Unset, made, epoch, FALSE)
      BY <2>1, CarriesEmpty
    <2> QED
      BY <2>2, <2>3
  <1>6. EdgeCarries
    BY <1>1, <1>2, <1>4, <1>5 DEF EdgeCarries
  <1> QED
    BY <1>1, <1>2, <1>5, <1>6 DEF CarryInv, EnvelopeIsItsCycle, Match

LEMMA CarryStep == StreamInv /\ CarryInv /\ [Next]_vars => CarryInv'
  <1> SUFFICES ASSUME StreamInv, CarryInv, [Next]_vars
               PROVE  CarryInv'
    OBVIOUS
  <1>1. /\ out \in Seq(Change) /\ log \in Seq(Change) /\ chan \in Seq(Change)
        /\ nodes.pay \in Contents /\ nodes.id \in Nat /\ items \in Seq(Change)
        /\ store.pay \in Contents /\ snap.pay \in Contents
    BY DEF StreamInv, StreamType
  <1>2. CASE UNCHANGED <<epoch, made, nodes, out, log, snap, linked, chan, items,
                         store, dropped>>
    BY <1>2 DEF CarryInv, EdgeCarries, MidBlock
  <1>3. ASSUME NEW v \in Valve, NEW p \in Payload, CloseCycle(v, p)
        PROVE  CarryInv'
    <2>1. CASE v # Exposed
      BY <1>2, <1>3, <2>1, CloseFields DEF linkVars, flowVars
    <2>2. CASE v = Exposed
      <3> DEFINE k == cycle[Exposed] + 1
                 b == log \o Block(k, p)
                 m == [epoch |-> epoch, id |-> k, pay |-> p]
      <3>1. /\ UNCHANGED <<epoch, out, nodes, linked, chan, items, store>>
            /\ k \in Nat /\ snap' = [pay |-> p, id |-> k] /\ log' = Keep(b)
            /\ dropped' = (dropped \/ log' # b) /\ made' = made \cup {m}
        BY <1>3, <2>2, CloseFields DEF linkVars, flowVars
      <3>2. Match(made', epoch, k, p)
        BY <3>1 DEF Match
      <3>3. made \subseteq made' /\ snap'.pay = p /\ p \in Contents
        BY <3>1 DEF Contents
      <3> HIDE DEF k, m
      <3> SUFFICES ASSUME ~dropped'
                   PROVE  CarryInv'
        BY DEF CarryInv
      <3>4. ~dropped /\ log' = b
        BY <3>1
      <3>5. PICK mid \in Contents : /\ Carries(nodes.pay, out, mid, made, epoch, TRUE)
                                    /\ Carries(mid, log, snap.pay, made, epoch, TRUE)
        BY <3>4 DEF CarryInv
      <3>6. /\ Carries(nodes.pay, out, mid, made', epoch, TRUE)
            /\ Carries(mid, log, snap.pay, made', epoch, TRUE)
        BY <3>3, <3>5, CarriesMore
      <3>7. Whole(log)
        BY <3>4 DEF CarryInv
      <3>8. Carries(mid, b, p, made', epoch, TRUE) /\ Whole(b)
        BY <1>1, <3>1, <3>2, <3>6, <3>7, BlockCarries
      <3> HIDE DEF b
      <3>9. ASSUME linked
            PROVE  EdgeCarries'
        <4>1. PICK n \in Contents : /\ Carries(store.pay, chan, n, made, epoch, FALSE)
                                    /\ Brings(items, n, nodes.pay, made, epoch)
          BY <3>4, <3>9 DEF CarryInv, EdgeCarries
        <4>2. /\ Carries(store.pay, chan, n, made', epoch, FALSE)
              /\ Brings(items, n, nodes.pay, made', epoch)
          BY <3>3, <4>1, CarriesMore, BringsMore
        <4> QED
          BY <3>1, <4>2 DEF EdgeCarries
      <3>10. /\ ~MidBlock => Match(made', epoch, nodes.id, nodes.pay)
             /\ Whole(out)
        BY <3>3, <3>4 DEF CarryInv, Match
      <3>11. MidBlock' = MidBlock
        BY <3>1 DEF MidBlock
      <3> QED
        BY <3>1, <3>3, <3>4, <3>6, <3>8, <3>9, <3>10, <3>11 DEF CarryInv
    <2> QED
      BY <2>1, <2>2
  <1>4. CASE RestartServe
    <2>1. /\ out' = <<>> /\ log' = <<>> /\ linked' = FALSE
          /\ nodes'.id = 0 /\ nodes'.pay = Unset /\ snap'.pay = Unset
      BY <1>4 DEF RestartServe, EmptyTags
    <2>2. Unset \in Contents
      BY DEF Contents
    <2>3. Carries(Unset, <<>>, Unset, made', epoch', TRUE) /\ Whole(<<>>)
      BY <2>2, CarriesEmpty
    <2> QED
      BY <2>1, <2>2, <2>3 DEF CarryInv, Match
  <1>5. CASE Drain
    <2>1. /\ out = <<>> /\ out' = log /\ log' = <<>>
          /\ UNCHANGED <<epoch, made, nodes, snap, linked, chan, items, store, dropped>>
      BY <1>5 DEF Drain, simVars, linkVars, flowVars
    <2> SUFFICES ASSUME ~dropped
                 PROVE  CarryInv'
      BY <2>1 DEF CarryInv
    <2>2. PICK mid \in Contents : /\ Carries(nodes.pay, out, mid, made, epoch, TRUE)
                                  /\ Carries(mid, log, snap.pay, made, epoch, TRUE)
      BY DEF CarryInv
    <2>3. mid = nodes.pay
      BY <1>1, <2>1, <2>2, CarriesEmpty
    <2>4. Carries(snap.pay, <<>>, snap.pay, made, epoch, TRUE) /\ Whole(<<>>)
      BY <1>1, CarriesEmpty
    <2>5. Match(made, epoch, nodes.id, nodes.pay)
      BY <2>1 DEF CarryInv, MidBlock
    <2>6. linked => EdgeCarries'
      BY <2>1 DEF CarryInv, EdgeCarries
    <2> QED
      BY <1>1, <2>1, <2>2, <2>3, <2>4, <2>5, <2>6 DEF CarryInv
  <1>6. CASE WriteNode
    <2> DEFINE c == Head(out)
    <2>1. /\ out # <<>> /\ c \in Change /\ out' = Tail(out)
          /\ items' = IF linked THEN Sample(items, c[1], c[2]) ELSE items
          /\ c[1] = "id" => nodes'.id = c[2] /\ nodes'.pay = nodes.pay
          /\ c[1] # "id" => c[1] = "pay" /\ nodes'.id = nodes.id /\ nodes'.pay = c[2]
          /\ UNCHANGED <<epoch, made, snap, log, linked, chan, store, dropped>>
      BY <1>6, WriteFields DEF simVars, flowVars
    <2> SUFFICES ASSUME ~dropped
                 PROVE  CarryInv'
      BY <2>1 DEF CarryInv
    <2>2. PICK mid \in Contents : /\ Carries(nodes.pay, out, mid, made, epoch, TRUE)
                                  /\ Carries(mid, log, snap.pay, made, epoch, TRUE)
      BY DEF CarryInv
    <2>3. /\ c[1] = "pay" => Carries(c[2], out', mid, made, epoch, TRUE)
          /\ c[1] = "id" => /\ Carries(nodes.pay, out', mid, made, epoch, TRUE)
                            /\ Match(made, epoch, c[2], nodes.pay)
      BY <1>1, <2>1, <2>2, CarriesTail
    <2>4. /\ Whole(out')
          /\ c[1] = "pay" => out' # <<>> /\ Head(out')[1] = "id"
      BY <1>1, <2>1, WholeTail DEF CarryInv
    <2>5. ASSUME linked
          PROVE  EdgeCarries'
      <3> HIDE DEF c
      <3>1. PICK n \in Contents : /\ Carries(store.pay, chan, n, made, epoch, FALSE)
                                  /\ Brings(items, n, nodes.pay, made, epoch)
        BY <2>5 DEF CarryInv, EdgeCarries
      <3>2. items' = Sample(items, c[1], c[2]) /\ c[1] \in {"id", "pay"}
        BY <2>1, <2>5
      <3>3. c[1] = "id" => Match(made, epoch, c[2], nodes.pay)
        BY <2>3
      <3>4. /\ c[1] = "id" => Brings(items', n, nodes.pay, made, epoch)
            /\ c[1] = "pay" => Brings(items', n, c[2], made, epoch)
        BY <1>1, <2>1, <3>1, <3>2, <3>3, BringsSample
      <3>5. Brings(items', n, nodes'.pay, made, epoch)
        BY <2>1, <3>2, <3>4
      <3> QED
        BY <2>1, <3>1, <3>5 DEF EdgeCarries
    <2>6. /\ Carries(mid, log', snap'.pay, made', epoch', TRUE)
          /\ Whole(out') /\ Whole(log') /\ (linked' => EdgeCarries')
      BY <2>1, <2>2, <2>4, <2>5 DEF CarryInv
    <2> HIDE DEF c
    <2>7. CASE c[1] = "id"
      <3>1. Match(made, epoch, nodes'.id, nodes'.pay)
        BY <2>1, <2>3, <2>7
      <3>2. Match(made', epoch', nodes'.id, nodes'.pay)
        BY <2>1, <3>1
      <3>3. Carries(nodes'.pay, out', mid, made', epoch', TRUE)
        BY <2>1, <2>3, <2>7
      <3> QED
        BY <2>6, <3>2, <3>3 DEF CarryInv
    <2>8. CASE c[1] # "id"
      <3>1. MidBlock'
        BY <2>1, <2>4, <2>8 DEF MidBlock
      <3>2. Carries(nodes'.pay, out', mid, made', epoch', TRUE)
        BY <2>1, <2>3, <2>8
      <3> QED
        BY <2>6, <3>1, <3>2 DEF CarryInv
    <2> QED
      BY <2>7, <2>8
  <1>7. CASE LoseLink
    <2>1. linked' = FALSE /\ UNCHANGED <<epoch, made, nodes, out, log, snap, dropped>>
      BY <1>7 DEF LoseLink, simVars, pubVars
    <2> QED
      BY <2>1 DEF CarryInv, MidBlock
  <1>8. CASE EdgeLink \/ Deploy
    <2> DEFINE d == <<"pay", nodes.pay, ~MidBlock>>
               c == <<"id", nodes.id, ~MidBlock>>
    <2>1. /\ chan' = <<>> /\ items' = Append(Append(<<>>, d), c)
          /\ d \in Change /\ c \in Change
          /\ UNCHANGED <<epoch, made, nodes, out, log, snap, dropped>>
          /\ store' \in {store, EmptyTags}
      BY <1>8, LinkFields DEF simVars, pubVars
    <2>2. /\ d[1] = "pay" /\ d[2] = nodes.pay /\ c[1] = "id" /\ c[2] = nodes.id
          /\ c[3] = ~MidBlock
      OBVIOUS
    <2> HIDE DEF c, d
    <2> SUFFICES ASSUME ~dropped
                 PROVE  CarryInv'
      BY <2>1 DEF CarryInv
    <2>3. c[3] => Match(made, epoch, c[2], d[2])
      BY <2>2 DEF CarryInv
    <2>4. store'.pay \in Contents
      BY <1>1, <2>1 DEF EmptyTags, Contents
    <2>5. Carries(store'.pay, <<>>, store'.pay, made, epoch, FALSE)
      BY <2>4, CarriesEmpty
    <2>6. Brings(items', store'.pay, nodes.pay, made, epoch)
      BY <2>1, <2>2, <2>3, BringsCurrent
    <2>7. EdgeCarries'
      BY <2>1, <2>4, <2>5, <2>6 DEF EdgeCarries
    <2>8. MidBlock' = MidBlock
      BY <2>1 DEF MidBlock
    <2> QED
      BY <2>1, <2>7, <2>8 DEF CarryInv
  <1>9. CASE Notify
    <2> DEFINE c == Head(chan)
    <2>1. /\ chan # <<>> /\ chan' = Tail(chan) /\ c \in Change
          /\ UNCHANGED <<epoch, made, nodes, out, log, snap, linked, items, dropped>>
          /\ c[1] # "id" => c[1] = "pay" /\ store'.pay = c[2]
          /\ c[1] = "id" => store'.pay = store.pay
      BY <1>9, NotifyFields DEF simVars, pubVars
    <2> SUFFICES ASSUME ~dropped
                 PROVE  CarryInv'
      BY <2>1 DEF CarryInv
    <2>2. MidBlock' = MidBlock
      BY <2>1 DEF MidBlock
    <2>3. ASSUME linked
          PROVE  EdgeCarries'
      <3>1. PICK n \in Contents : /\ Carries(store.pay, chan, n, made, epoch, FALSE)
                                  /\ Brings(items, n, nodes.pay, made, epoch)
        BY <2>3 DEF CarryInv, EdgeCarries
      <3>2. /\ c[1] = "pay" => Carries(c[2], chan', n, made, epoch, FALSE)
            /\ c[1] = "id" => Carries(store.pay, chan', n, made, epoch, FALSE)
        BY <1>1, <2>1, <3>1, CarriesTail
      <3> HIDE DEF c
      <3>3. Carries(store'.pay, chan', n, made, epoch, FALSE)
        BY <2>1, <3>2
      <3> QED
        BY <2>1, <3>1, <3>3 DEF EdgeCarries
    <2> QED
      BY <2>1, <2>2, <2>3 DEF CarryInv
  <1>10. CASE PublishItems
    <2>1. /\ chan' = chan \o items /\ items' = <<>>
          /\ UNCHANGED <<epoch, made, nodes, out, log, snap, linked, store, dropped>>
      BY <1>10 DEF PublishItems, simVars, pubVars, flowVars
    <2> SUFFICES ASSUME ~dropped
                 PROVE  CarryInv'
      BY <2>1 DEF CarryInv
    <2>2. MidBlock' = MidBlock
      BY <2>1 DEF MidBlock
    <2>3. ASSUME linked
          PROVE  EdgeCarries'
      <3>1. PICK n \in Contents : /\ Carries(store.pay, chan, n, made, epoch, FALSE)
                                  /\ Brings(items, n, nodes.pay, made, epoch)
        BY <2>3 DEF CarryInv, EdgeCarries
      <3>2. Are(items, nodes.pay, nodes.id)
        BY DEF StreamInv
      <3>3. Carries(n, items, nodes.pay, made, epoch, FALSE)
        BY <1>1, <3>1, <3>2, BringsCarries
      <3>4. Carries(store.pay, chan', nodes.pay, made, epoch, FALSE)
        BY <1>1, <2>1, <3>1, <3>3, CarriesConcat
      <3>5. Brings(items', nodes.pay, nodes.pay, made, epoch)
        BY <2>1, BringsNothing
      <3> QED
        BY <1>1, <2>1, <3>4, <3>5 DEF EdgeCarries
    <2> QED
      BY <2>1, <2>2, <2>3 DEF CarryInv
  <1>11. CASE FailWrite
    BY <1>11 DEF FailWrite, CarryInv
  <1>12. CASE \/ \E p \in Params : WriteParam(p)
              \/ ForceOn \/ ForceOff \/ \E v \in Valve : ScrapCycle(v)
    BY <1>2, <1>12 DEF WriteParam, ForceOn, ForceOff, ScrapCycle, pubVars, linkVars,
                       flowVars
  <1>13. CASE UNCHANGED vars
    BY <1>2, <1>13 DEF vars, simVars, pubVars, linkVars, flowVars
  <1> QED
    BY <1>3, <1>4, <1>5, <1>6, <1>7, <1>8, <1>9, <1>10, <1>11, <1>12, <1>13 DEF Next

LEMMA EnvelopeStep ==
  StreamInv /\ CarryInv /\ EnvelopeIsItsCycle /\ [Next]_vars => EnvelopeIsItsCycle'
  <1> SUFFICES ASSUME StreamInv, CarryInv, EnvelopeIsItsCycle, [Next]_vars
               PROVE  EnvelopeIsItsCycle'
    OBVIOUS
  <1>1. CASE published' = published /\ made \subseteq made'
    BY <1>1 DEF EnvelopeIsItsCycle
  <1>2. CASE Notify
    <2> DEFINE c == Head(chan)
    <2>1. /\ chan # <<>> /\ chan \in Seq(Change) /\ made' = made
          /\ c[1] # "id" => published' = published
          /\ c[1] = "id" =>
               /\ c[2] \in Nat
               /\ mark = None \/ c[2] <= mark => published' = published
               /\ ~(mark = None \/ c[2] <= mark) =>
                    /\ mark \in Nat /\ mark < c[2]
                    /\ \E e : /\ published' = published \cup {e}
                              /\ e.epoch = epoch /\ e.id = c[2] /\ e.pay = store.pay
                              /\ e.whole = (c[3] /\ ~dropped)
      BY <1>2, NotifyFields DEF simVars
    <2>2. CASE published' = published
      BY <1>1, <2>1, <2>2
    <2>3. CASE published' # published
      <3>1. c[1] = "id" /\ ~(mark = None \/ c[2] <= mark)
        BY <2>1, <2>3
      <3>2. c[2] \in Nat /\ c[2] # 0
        BY <2>1, <3>1
      <3>3. PICK e : /\ published' = published \cup {e}
                     /\ e.epoch = epoch /\ e.id = c[2] /\ e.pay = store.pay
                     /\ e.whole = (c[3] /\ ~dropped)
        BY <2>1, <3>1
      <3>4. ASSUME e.whole
            PROVE  [epoch |-> e.epoch, id |-> e.id, pay |-> e.pay] \in made
        <4>1. c[3] /\ ~dropped /\ linked
          BY <2>1, <3>3, <3>4 DEF StreamInv
        <4>2. PICK n \in Contents : Carries(store.pay, chan, n, made, epoch, FALSE)
          BY <4>1 DEF CarryInv, EdgeCarries
        <4>3. Match(made, epoch, c[2], store.pay)
          BY <2>1, <3>1, <4>1, <4>2, CarriesTail
        <4> QED
          BY <3>2, <3>3, <4>3 DEF Match
      <3> QED
        BY <2>1, <3>3, <3>4 DEF EnvelopeIsItsCycle
    <2> QED
      BY <2>2, <2>3
  <1>3. ASSUME NEW v \in Valve, NEW p \in Payload, CloseCycle(v, p)
        PROVE  published' = published /\ made \subseteq made'
    BY <1>3 DEF CloseCycle, flowVars
  <1>4. CASE \/ RestartServe \/ Drain \/ WriteNode \/ FailWrite \/ LoseLink \/ EdgeLink
             \/ PublishItems \/ Deploy
    BY <1>1, <1>4 DEF RestartServe, Drain, WriteNode, FailWrite, LoseLink, EdgeLink,
                      PublishItems, Deploy, simVars, flowVars
  <1>5. CASE \/ \E p \in Params : WriteParam(p)
             \/ ForceOn \/ ForceOff \/ \E v \in Valve : ScrapCycle(v)
    BY <1>1, <1>5 DEF WriteParam, ForceOn, ForceOff, ScrapCycle, flowVars
  <1>6. CASE UNCHANGED vars
    BY <1>1, <1>6 DEF vars, simVars, flowVars
  <1> QED
    BY <1>1, <1>2, <1>3, <1>4, <1>5, <1>6 DEF Next

\* An envelope whose id the server sampled as part of one block, while no change
\* was lost, carries the block of the cycle it names, for every content of the
\* blocks, number of cycles, restarts and lost links (TagSnapshot.on_cycle,
\* _publish_loop, builder-envelope).
THEOREM EnvelopeCorrect == Spec => []EnvelopeIsItsCycle
  <1>1. StreamInv /\ CarryInv /\ EnvelopeIsItsCycle /\ [Next]_vars
          => CarryInv' /\ EnvelopeIsItsCycle'
    BY CarryStep, EnvelopeStep
  <1> QED
    BY <1>1, CarryInit, StreamInvariant, PTL DEF Spec
=============================================================================
