------------------------------ MODULE MCAlerts ------------------------------
(* Small instances of Alerts: one valve, one inference process at a time.     *)
EXTENDS Alerts

OneValve == {1}
Live == {"live"}
=============================================================================
