------------------------------ MODULE MCAlerts ------------------------------
(***************************************************************************)
(* Alerts for TLC: one subscription, one request at a time, one endpoint   *)
(* that takes every event, a queue one job deep.                           *)
(***************************************************************************)
EXTENDS Alerts

CONSTANTS s1, r1, hook

\* The events column is "*".
Everything == [ep \in Endpoints |-> EventNames]
=============================================================================
