---------------------------- MODULE MCSupervision ---------------------------
(* Constants for checking Supervision: the thresholds of the code, and a   *)
(* chain for the composite policy.                                         *)
EXTENDS Supervision

DefaultNames == <<"earliest_deadline_first", "least_loaded">>
=============================================================================
