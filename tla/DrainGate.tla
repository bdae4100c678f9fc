------------------------------ MODULE DrainGate ------------------------------
(***************************************************************************)
(* What the drain gate promises: the scheduling policy is exchanged only   *)
(* while nobody is behind the gate, so that whoever is behind it meets one *)
(* policy from the moment of entering to that of leaving.                  *)
(*                                                                         *)
(* Three modules implement it, each with its own idea of who enters:       *)
(* PolicySwitch (the threads of submit(), with the memory orders of the    *)
(* code), Balancer (the jobs, from the gate to their end) and Supervision  *)
(* (as many as there are in flight).                                       *)
(***************************************************************************)
CONSTANT Entrants

VARIABLES
    behind,     \* the entrants that are behind the gate
    policy      \* the active policy

gateVars == <<behind, policy>>

(* Whatever the policy is.                                                 *)
Init == behind = {}

Enter(e) == behind' = behind \cup {e} /\ UNCHANGED policy

Leave(e) == behind' = behind \ {e} /\ UNCHANGED policy

Exchange == behind = {} /\ behind' = {}

Next == (\E e \in Entrants : Enter(e) \/ Leave(e)) \/ Exchange

Spec == Init /\ [][Next]_gateVars
=============================================================================
