-------------------------- MODULE MCHealthMonitor ---------------------------
(* HealthMonitor for TLC.                                                   *)
EXTENDS HealthMonitor, TLC

CONSTANTS h1, h2, c1

MCBackends == {h1, h2}
MCCallers == {c1}
=============================================================================
