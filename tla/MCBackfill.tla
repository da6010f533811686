----------------------------- MODULE MCBackfill -----------------------------
(* Small instances of Backfill: rows of two valves, on one date or on two.    *)
EXTENDS Backfill

MCEvent == {"e1", "e2", "e3"}
MCKey == {<<"v1", 1>>, <<"v2", 1>>, <<"v1", 2>>}
MCValve == {"v1", "v2"}
MCValveOf == [k \in Key |-> k[1]]

MCDate == {"d1", "d2"}
MCDateOf == [e \in Event |-> IF e = "e3" THEN "d2" ELSE "d1"]
OneDate == {"d1"}
OneDateOf == [e \in Event |-> "d1"]

MCKeyOf == [e \in Event |-> CASE e = "e1" -> <<"v1", 1>>
                              [] e = "e2" -> <<"v2", 1>>
                              [] e = "e3" -> <<"v1", 2>>]
AllRows == {AllValves}
OneValve == {AllValves, "v1"}
=============================================================================
