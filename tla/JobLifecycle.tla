---------------------------- MODULE JobLifecycle ----------------------------
(***************************************************************************)
(* What the Balancer promises about a job, whatever its threads do:        *)
(*                                                                         *)
(*   - a submission is rejected, or accepted; once rejected it stays so,   *)
(*     once accepted it is never rejected;                                 *)
(*   - an accepted job finishes once, however it ends (executed, failed,   *)
(*     cancelled, expired or dropped);                                     *)
(*   - the scheduling policy changes only while no job is between the gate *)
(*     of submit() and its end, so that no job meets two policies.         *)
(*                                                                         *)
(* Balancer implements this specification.                                 *)
(***************************************************************************)
EXTENDS Naturals

CONSTANT Jobs

VARIABLES
    phase,      \* phase[j] \in {"new", "routing", "accepted", "rejected", "finished"}
    policy      \* 0 or 1: the active policy object

lifecycleVars == <<phase, policy>>

Init ==
    /\ phase = [j \in Jobs |-> "new"]
    /\ policy = 0

Becomes(j, to) == phase' = [phase EXCEPT ![j] = to] /\ UNCHANGED policy

(* The job passes the gate: the active policy may now be asked for a node. *)
Route(j) == phase[j] = "new" /\ Becomes(j, "routing")

(* An error return, at the gate or behind it.                              *)
Reject(j) == phase[j] \in {"new", "routing"} /\ Becomes(j, "rejected")

(* A node or the holding queue has taken the job.                          *)
Accept(j) == phase[j] = "routing" /\ Becomes(j, "accepted")

Finish(j) == phase[j] = "accepted" /\ Becomes(j, "finished")

(* switchPolicy.                                                           *)
Swap ==
    /\ \A j \in Jobs : phase[j] \notin {"routing", "accepted"}
    /\ policy' = 1 - policy
    /\ UNCHANGED phase

Next ==
    \/ \E j \in Jobs : Route(j) \/ Reject(j) \/ Accept(j) \/ Finish(j)
    \/ Swap

Spec == Init /\ [][Next]_lifecycleVars
=============================================================================
