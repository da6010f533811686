------------------------------ MODULE MCFiller ------------------------------
(* Two valves half a rotation apart; a day whose first Running phase begins *)
(* inside the second valve's zone.                                            *)
EXTENDS Filler

MCPhase == [v \in Valves |-> IF v = 1 THEN 0 ELSE 4]
MCDay == << [status |-> "Idle", dur |-> 4], [status |-> "Starting", dur |-> 2],
            [status |-> "Running", dur |-> 12], [status |-> "Stopping", dur |-> 1],
            [status |-> "Stopped", dur |-> 2] >>
=============================================================================
