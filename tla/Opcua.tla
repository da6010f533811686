------------------------------- MODULE Opcua -------------------------------
(***************************************************************************)
(* The way of a closed cycle out of the simulator, and of a fault into it: *)
(* TagSnapshot (realtime.py), the publishing task and the write hook of    *)
(* OpcuaServer (opcua_server.py) over the engine of module Faults, and the *)
(* Node-RED flow of the edge that turns node changes into envelopes.       *)
(*                                                                         *)
(* Three threads of control: the loop that closes cycles, the asyncio      *)
(* thread of the server, which may be suspended at every await of its      *)
(* publishing task, and the edge.  The monitored items of the edge's       *)
(* subscription keep, of each tag, the last value that changed until the   *)
(* next publish of the subscription, whose notifications travel in order.  *)
(*                                                                         *)
(* Abstractions.  One exposed valve; its block of tags is one payload tag  *)
(* and LastCycleId, written in this order.  Machine tags are left out.     *)
(* The machine's commands are in module Filler.                            *)
(***************************************************************************)
EXTENDS Faults

CONSTANTS
  Exposed,      \* the exposed valve
  Payload,      \* contents of a cycle's block
  Severity,     \* levels a client may write; Ms levels are a hundredth
  Duration,     \* values of FaultDurationCycles
  LogCap,       \* maxlen of the change log
  MaxCycle,     \* bound: cycles of a valve
  MaxInput      \* bound: cycles, writes, restarts and lost connections

ASSUME OpcuaAssumption ==
  /\ Exposed \in Valve /\ Severity \subseteq Nat \ {0} /\ Duration \subseteq Nat
  /\ LogCap \in Nat \ {0} /\ MaxCycle \in Nat /\ MaxInput \in Nat
  /\ Payload # {} /\ FaultType # {} /\ Severity # {} /\ 0 \in Duration

VARIABLES
  epoch,      \* which process of the simulator
  equipped,   \* serve was given a scenario: there is a fault engine
  cycle,      \* cycle_id of each valve
  scrapped,   \* history: valves whose last cycle was aborted
  engine,     \* the fault engine
  truth,      \* ground-truth row of the last record, with what was in force
  params,     \* _fault_params
  force,      \* _force
  snap,       \* the exposed valve's tags in the snapshot
  log,        \* _changes
  out,        \* the publishing task's list of changes still to be written
  nodes,      \* the exposed valve's OPC UA nodes
  made,       \* history: [epoch, id, pay] of every record of the exposed valve
  linked,     \* the edge's subscription is up
  items,      \* what its monitored items hold for the next publish
  chan,       \* notifications on their way to the edge
  store,      \* m7.tagStore: the last value of each tag
  mark,       \* m7.watermarks, or None
  published,  \* history: envelopes built
  gaps,       \* history: cycles reported by a GAP warning
  since,      \* history: first id the watermark took from this process, or None
  dropped,    \* history: this process lost a change, by overflow or a failed write
  failed,     \* history: the last write of the id failed
  inputs      \* bound

simVars == <<epoch, equipped, cycle, scrapped, engine, truth, snap, made>>
ctlVars == <<params, force>>
pubVars == <<log, out, nodes, dropped, failed>>
linkVars == <<linked, items, chan>>
flowVars == <<store, mark, published, gaps, since>>
vars == <<simVars, ctlVars, pubVars, linkVars, flowVars, inputs>>

None == -1
Tag == {"pay", "id"}
Unset == "unset"
DefaultParams == [valve |-> Exposed, type |-> CHOOSE c \in FaultType : TRUE,
                  sev |-> CHOOSE s \in Severity : TRUE, left |-> 0]
EmptyTags == [pay |-> Unset, id |-> 0]

\* The current values, in the mapping's order, and whether they are of one block.
Current(id_due) ==
  << <<"pay", nodes.pay, ~id_due>>, <<"id", nodes.id, ~id_due>> >>

Init ==
  /\ epoch = 1 /\ inputs = 0 /\ equipped \in BOOLEAN
  /\ cycle = [v \in Valve |-> 0] /\ scrapped = {}
  /\ engine = IF equipped THEN NewEngine ELSE NoEngine
  /\ truth = [valve |-> Exposed, said |-> 0, real |-> 0, gap |-> FALSE]
  /\ params = DefaultParams /\ force = FALSE
  /\ snap = EmptyTags /\ nodes = EmptyTags /\ log = <<>> /\ out = <<>>
  /\ made = {} /\ published = {} /\ gaps = {} /\ since = None
  /\ linked = TRUE /\ dropped = FALSE /\ failed = FALSE
  /\ items = Current(FALSE) /\ chan = <<>>
  /\ store = EmptyTags /\ mark = None

Input == inputs < MaxInput /\ inputs' = inputs + 1

----------------------------------------------------------------------------
(* The loop of the simulator *)

\* Mutant: one change too many.
KeepOneMore(s) == IF Len(s) <= LogCap + 1 THEN s ELSE SubSeq(s, Len(s) - LogCap, Len(s))

\* A bounded deque: the oldest changes fall out.
Keep(s) == IF Len(s) <= LogCap THEN s ELSE SubSeq(s, Len(s) - LogCap + 1, Len(s))

\* Mutant: the id first.
BlockIdFirst(k, p) ==
  << <<"id", k>> >> \o (IF snap.pay # p THEN << <<"pay", p>> >> ELSE <<>>)

\* on_cycle: tags that changed, LastCycleId last.
Block(k, p) ==
  (IF snap.pay # p THEN << <<"pay", p>> >> ELSE <<>>) \o << <<"id", k>> >>

\* _on_cycle: the snapshot, then the engine if there is one.
CloseCycle(v, p) ==
  LET k == cycle[v] + 1 IN
  /\ Input /\ k <= MaxCycle
  /\ cycle' = [cycle EXCEPT ![v] = k]
  /\ scrapped' = scrapped \ {v}
  /\ IF equipped
     THEN /\ truth' = [valve |-> v, said |-> GroundTruth(v, k), gap |-> v \in scrapped,
                       real |-> IF Covered(v) THEN engine.channel[v][FaultOn(v).type]
                                ELSE 0]
          /\ engine' = OnCycle(engine, v, k)
     ELSE UNCHANGED <<truth, engine>>
  /\ IF v = Exposed
     THEN /\ snap' = [pay |-> p, id |-> k]
          /\ log' = Keep(log \o Block(k, p))
          /\ dropped' = (dropped \/ log' # log \o Block(k, p))
          /\ made' = made \cup {[epoch |-> epoch, id |-> k, pay |-> p]}
     ELSE UNCHANGED <<snap, log, dropped, made>>
  /\ UNCHANGED <<epoch, equipped, ctlVars, out, nodes, failed, linkVars, flowVars>>

\* A stop scraps the cycle: it took its number and leaves no record.
ScrapCycle(v) ==
  /\ Input /\ cycle[v] < MaxCycle
  /\ cycle' = [cycle EXCEPT ![v] = @ + 1]
  /\ scrapped' = scrapped \cup {v}
  /\ UNCHANGED <<epoch, equipped, engine, truth, snap, made, ctlVars, pubVars,
                 linkVars, flowVars>>

\* serve ends and starts again, with a scenario or without: simulator and server
\* are one process.
RestartServe ==
  /\ Input
  /\ epoch' = epoch + 1 /\ equipped' \in BOOLEAN
  /\ cycle' = [v \in Valve |-> 0] /\ scrapped' = {}
  /\ engine' = IF equipped' THEN NewEngine ELSE NoEngine
  /\ params' = DefaultParams /\ force' = FALSE
  /\ snap' = EmptyTags /\ nodes' = EmptyTags /\ log' = <<>> /\ out' = <<>>
  /\ linked' = FALSE /\ items' = <<>> /\ chan' = <<>>
  /\ dropped' = FALSE /\ failed' = FALSE /\ since' = None
  /\ UNCHANGED <<truth, made, store, mark, published, gaps>>

----------------------------------------------------------------------------
(* The server: publishing task *)

Drain ==
  /\ out = <<>> /\ log # <<>>
  /\ out' = log /\ log' = <<>>
  /\ UNCHANGED <<simVars, ctlVars, nodes, dropped, failed, linkVars, flowVars, inputs>>

\* A newer value takes the place of one not yet published.
Overwrite(s, tag, val) ==
  [i \in DOMAIN s |-> <<s[i][1], IF s[i][1] = tag THEN val ELSE s[i][2], FALSE>>]
Sample(s, tag, val) ==
  IF \E i \in DOMAIN s : s[i][1] = tag THEN Overwrite(s, tag, val)
  ELSE Append(s, <<tag, val, TRUE>>)

\* One awaited write; the item of a linked edge takes the value.
WriteNode ==
  /\ out # <<>>
  /\ LET tag == Head(out)[1]
         val == Head(out)[2]
     IN /\ nodes' = [nodes EXCEPT ![tag] = val]
        /\ items' = IF linked THEN Sample(items, tag, val) ELSE items
        /\ failed' = (failed /\ tag # "id")
  /\ out' = Tail(out)
  /\ UNCHANGED <<simVars, ctlVars, log, dropped, linked, chan, flowVars, inputs>>

\* One write raises: it is logged, the change is gone, the loop goes on.
FailWrite ==
  /\ Input /\ out # <<>>
  /\ out' = Tail(out)
  /\ dropped' = TRUE
  /\ failed' = (failed \/ Head(out)[1] = "id")
  /\ UNCHANGED <<simVars, ctlVars, log, nodes, linkVars, flowVars>>

----------------------------------------------------------------------------
(* The server: client writes on SimulationControl *)

\* round(): to the nearest whole hundredth, a half to the even one.
Rounded(s) ==
  LET q == s \div Ms
      half == 2 * (s % Ms)
  IN IF half < Ms \/ (half = Ms /\ q % 2 = 0) THEN q ELSE q + 1

\* A hundredth of FaultSeverity is a millisecond of a delay, at least one.
Commanded(c, s) ==
  IF c \in Delay THEN Ms * (IF Rounded(s) < 1 THEN 1 ELSE Rounded(s)) ELSE s

\* _apply_fault: the engine refuses a valve of the scenario; without an engine the
\* write is accepted and nothing happens.
Accepts(p) == equipped => ~Covered(p.valve)

ApplyFault(p) ==
  IF equipped
  THEN Inject(Remove(engine, p.valve), p.valve, p.type, Commanded(p.type, p.sev), p.left)
  ELSE engine

Params == [valve : Valve, type : FaultType, sev : Severity, left : Duration]

\* Mutant: a parameter alone, whatever is in force.
WriteParamOnly(p) ==
  /\ Input
  /\ Cardinality({k \in DOMAIN params : p[k] # params[k]}) <= 1
  /\ params' = p
  /\ UNCHANGED <<simVars, force, pubVars, linkVars, flowVars>>

\* _commit_fault_param: one parameter; in force, the new set is applied.
WriteParam(p) ==
  /\ Input
  /\ Cardinality({k \in DOMAIN params : p[k] # params[k]}) <= 1
  /\ IF force /\ ~Accepts(p)
     THEN UNCHANGED <<params, engine>>          \* the write is refused
     ELSE /\ params' = p
          /\ engine' = IF force THEN ApplyFault(p) ELSE engine
  /\ UNCHANGED <<epoch, equipped, cycle, scrapped, truth, snap, made, force, pubVars,
                 linkVars, flowVars>>

ForceOn ==
  /\ Input
  /\ IF Accepts(params)
     THEN force' = TRUE /\ engine' = ApplyFault(params)
     ELSE UNCHANGED <<force, engine>>
  /\ UNCHANGED <<epoch, equipped, cycle, scrapped, truth, snap, made, params, pubVars,
                 linkVars, flowVars>>

ForceOff ==
  /\ Input
  /\ force' = FALSE
  /\ engine' = IF equipped THEN Remove(engine, params.valve) ELSE engine
  /\ UNCHANGED <<epoch, equipped, cycle, scrapped, truth, snap, made, params, pubVars,
                 linkVars, flowVars>>

----------------------------------------------------------------------------
(* The edge *)

LoseLink ==
  /\ Input /\ linked
  /\ linked' = FALSE /\ items' = <<>> /\ chan' = <<>>
  /\ UNCHANGED <<simVars, ctlVars, pubVars, flowVars>>

\* The publishing task has written some tags of a block and not its id.
MidBlock == out # <<>> /\ Head(out)[1] = "id"

\* Subscribing samples the current values.
EdgeLink ==
  /\ ~linked
  /\ linked' = TRUE
  /\ items' = Current(MidBlock) /\ chan' = <<>>
  /\ UNCHANGED <<simVars, ctlVars, pubVars, flowVars, inputs>>

\* A publish of the subscription: what changed since the last one.
PublishItems ==
  /\ items # <<>>
  /\ chan' = chan \o items /\ items' = <<>>
  /\ UNCHANGED <<simVars, ctlVars, pubVars, linked, flowVars, inputs>>

\* Mutant: an id is published again.
KnownNever(id) == FALSE
Known(id) == id = mark

\* A lower id is the epoch reset: the server has restarted.
EpochReset(id) == id < mark

\* Mutant: a lower id leaves the watermark where it was.
MarkStays(id) == IF mark # None /\ EpochReset(id) THEN mark ELSE id

\* First notification, epoch reset or new cycle: the watermark takes the id.
NextMark(id) == id

\* GAP: the cycles between the watermark and the id were not readable any more.
Skipped(id) == {[epoch |-> epoch, id |-> k] : k \in (mark + 1)..(id - 1)}

\* watermark-acquisition and builder-envelope on one notification.
Notify ==
  /\ chan # <<>>
  /\ chan' = Tail(chan)
  /\ LET tag == Head(chan)[1]
         val == Head(chan)[2]
     IN /\ store' = [store EXCEPT ![tag] = val]
        /\ IF tag = "pay" THEN UNCHANGED <<mark, published, gaps, since>>
           ELSE /\ mark' = NextMark(val)
                /\ since' = IF since = None THEN val ELSE since
                /\ IF mark = None \/ EpochReset(val) \/ Known(val)
                   THEN UNCHANGED <<published, gaps>>
                   ELSE /\ published' = published \cup
                             {[epoch |-> epoch, id |-> val, pay |-> store'.pay,
                               whole |-> Head(chan)[3] /\ ~dropped,
                               again |-> \E e \in published :
                                           e.epoch = epoch /\ e.id = val]}
                        /\ gaps' = gaps \cup Skipped(val)
  /\ UNCHANGED <<simVars, ctlVars, pubVars, linked, items, inputs>>

\* A deploy of the flow: the loader forgets store and watermarks, subscribes.
Deploy ==
  /\ Input
  /\ linked' = TRUE
  /\ store' = EmptyTags /\ mark' = None /\ since' = None
  /\ items' = Current(MidBlock) /\ chan' = <<>>
  /\ UNCHANGED <<simVars, ctlVars, pubVars, published, gaps>>

Next ==
  \/ \E v \in Valve, p \in Payload : CloseCycle(v, p)
  \/ \E v \in Valve : ScrapCycle(v)
  \/ RestartServe
  \/ Drain \/ WriteNode \/ FailWrite
  \/ \E p \in Params : WriteParam(p)
  \/ ForceOn \/ ForceOff
  \/ LoseLink \/ EdgeLink \/ PublishItems \/ Notify \/ Deploy

Spec == Init /\ [][Next]_vars

----------------------------------------------------------------------------
(* Properties *)

\* Every variable keeps its shape, a monitored item holds one value of its tag, and
\* nothing reaches the edge while it is not linked.
TypeInvariant ==
  /\ cycle \in [Valve -> 0..MaxCycle] /\ scrapped \subseteq Valve
  /\ params \in Params /\ {force, equipped} \subseteq BOOLEAN
  /\ snap.pay \in Payload \cup {Unset} /\ snap.id \in 0..MaxCycle
  /\ Len(log) <= LogCap
  /\ \A i, j \in DOMAIN items : items[i][1] = items[j][1] => i = j
  /\ \A i \in DOMAIN chan : chan[i][1] \in Tag
  /\ mark \in {None} \cup 0..MaxCycle
  /\ linked \/ (items = <<>> /\ chan = <<>>)

\* An envelope carries the block of the cycle it names, although the tags of a
\* block travel one by one and only those that changed: unless the edge subscribed
\* in the middle of the block, a burst put a later value in the place of one not
\* yet published, or the server lost a change (overflow, failed write).
EnvelopeIsItsCycle ==
  \A e \in published :
    e.whole => [epoch |-> e.epoch, id |-> e.id, pay |-> e.pay] \in made

\* The watermark publishes a cycle at most once: across lost connections,
\* restarts of the simulator (whose ids start again) and deploys of the flow.
PublishedOnce == \A e \in published : ~e.again

\* Nothing is lost in silence: once everything has arrived at a linked edge, its
\* watermark is at the last record, and every record after the first id it took
\* from this process is published or was reported by a GAP warning, the last one
\* published: whatever bursts, overflows, failed writes and lost connections did.
\* But when the write of the last id itself failed.
EveryCycleAccounted ==
  LET now(s) == {x.id : x \in {y \in s : y.epoch = epoch}} IN
  (linked /\ ~failed /\ log = <<>> /\ out = <<>> /\ items = <<>> /\ chan = <<>>) =>
    /\ mark = snap.id
    /\ snap.id > since => snap.id \in now(published)
    /\ \A k \in now(made) : k > since => k \in now(published) \cup now(gaps)

\* A valve outside the scenario is as sick as its registry entry says and no
\* sicker: replacing, removing or counting down a fault leaves no residue on
\* any channel.  A valve of the scenario is never in the registry.
ChannelsFollowRegistry ==
  \A v \in Valve :
    LET f == engine.runtime[v]
    IN IF Covered(v) THEN f = NoFault
       ELSE engine.channel[v] = IF f = NoFault THEN Healthy
                                ELSE [Healthy EXCEPT ![f.type] = f.sev]

\* The ground-truth row of a record states what was in force while the cycle ran,
\* ramps included, in a delay's whole milliseconds; it overstates it only for the
\* cycle that follows a scrapped one, whose record never came to inject the next
\* severity.
GroundTruthTrue ==
  LET due == IF Covered(truth.valve)
             THEN Applied(FaultOn(truth.valve).type, truth.said) ELSE truth.said
  IN /\ due >= truth.real
     /\ due # truth.real => truth.gap

\* While ForceFault is TRUE and there is an engine, the target valve has the fault
\* the parameters describe, through every accepted or refused write, until its
\* countdown ends.  Without an engine ForceFault may be TRUE and no valve is sick.
ForceMeansFault ==
  LET f == engine.runtime[params.valve] IN
  force => IF equipped
           THEN \/ f = NoFault /\ params.left > 0
                \/ /\ f # NoFault /\ f.type = params.type
                   /\ f.sev = Commanded(params.type, params.sev)
                   /\ f.left \in 0..params.left
           ELSE engine = NoEngine
=============================================================================
