------------------------------ MODULE MCOpcua ------------------------------
(* Three valves: 1 is exposed, 3 is under a delay that grows to 2 ms in four *)
(* cycles, half a millisecond at a time.                                    *)
EXTENDS Opcua

MCScenario == {[type |-> "delay", valves |-> {3}, step |-> 1, start |-> 1, ramp |-> 4]}
=============================================================================
