--------------------------- MODULE MCSimulatedNode --------------------------
(* Constants for checking SimulatedNode: a Critical, a High and a Normal   *)
(* job, so that an overloaded node takes some and refuses others.          *)
EXTENDS SimulatedNode

CONSTANTS j1, j2, j3

PrioMixed == [j \in Jobs |-> CASE j = j1 -> 0 [] j = j2 -> 1 [] j = j3 -> 2]
=============================================================================
