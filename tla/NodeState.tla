------------------------------ MODULE NodeState -----------------------------
(***************************************************************************)
(* The states of a node, and the priorities that a node in each of them    *)
(* accepts.  A priority is its rank: 0 Critical, 1 High, 2 Normal, 3 Low,  *)
(* 4 Bulk.                                                                 *)
(***************************************************************************)
EXTENDS Naturals

NodeStates == {"Offline", "Initializing", "Idle", "Busy", "Overloaded",
               "Draining", "Failed", "Recovering"}

nodeAcceptsPriority(state, p) ==
    \/ state \in {"Idle", "Busy"}
    \/ state \in {"Overloaded", "Recovering"} /\ p <= 1
    \/ state = "Draining" /\ p = 0
=============================================================================
