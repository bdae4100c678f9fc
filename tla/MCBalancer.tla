------------------------------ MODULE MCBalancer -----------------------------
(* Constants for checking Balancer: two jobs, of two bands or of one.       *)
EXTENDS Balancer

CONSTANTS j1, j2

PrioTwoBands == (j1 :> "Critical") @@ (j2 :> "High")
PrioOneBand == (j1 :> "High") @@ (j2 :> "High")
=============================================================================
