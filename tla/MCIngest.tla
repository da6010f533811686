------------------------------ MODULE MCIngest ------------------------------
(* Small instances of Ingest: two events of one day and one of the next, plus *)
(* a payload the validation rejects.                                          *)
EXTENDS Ingest

MCEvent == {"e1", "e3", "bad"}
MCValid == {"e1", "e2", "e3"}
MCDate == {"d1", "d2"}
MCDateOf == [e \in Event |-> IF e = "e3" THEN "d2" ELSE "d1"]
=============================================================================
