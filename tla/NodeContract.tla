---------------------------- MODULE NodeContract ----------------------------
(***************************************************************************)
(* What INode promises of the jobs that a node takes: a job is taken once; *)
(* it then runs and its completion callback is invoked once, unless it was *)
(* cancelled before it started, and then the callback is never invoked.    *)
(*                                                                         *)
(* Balancer uses its nodes by this contract, and SimulatedNode implements  *)
(* it.                                                                     *)
(***************************************************************************)
CONSTANT Jobs

VARIABLE task   \* task[j] \in {"none", "queued", "running", "called", "cancelled"}

Init == task = [j \in Jobs |-> "none"]

Becomes(j, from, to) == task[j] = from /\ task' = [task EXCEPT ![j] = to]

Accept(j) == Becomes(j, "none", "queued")      \* submit() returns a handle
Start(j) == Becomes(j, "queued", "running")
Callback(j) == Becomes(j, "running", "called")
Cancel(j) == Becomes(j, "queued", "cancelled") \* cancel() succeeds

Next == \E j \in Jobs : Accept(j) \/ Start(j) \/ Callback(j) \/ Cancel(j)

Spec == Init /\ [][Next]_task
=============================================================================
