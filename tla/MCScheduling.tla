---------------------------- MODULE MCScheduling ----------------------------
(* Constants for checking Scheduling: two nodes that share the last row of *)
(* the matrix, one fast and one slow, and jobs of three kinds: one has a   *)
(* class beyond the last column and a deadline, one has no known cost.     *)
EXTENDS Scheduling

CONSTANTS j1, j2

Routing == {"learns", "fails", "toggles"}

AllSetups ==
    {[policy |-> "policy.least_loaded",     does |-> Routing],
     [policy |-> "policy.work_stealing",    does |-> Routing],
     [policy |-> "policy.affinity_routing", does |-> Routing],
     [policy |-> "policy.composite",        does |-> Routing],
     [policy |-> "shortest_job_first",      does |-> Routing],
     [policy |-> "weighted_capacity",       does |-> {"fails"}],
     [policy |-> "policy.round_robin",      does |-> {"ages"}],
     [policy |-> "policy.least_loaded",     does |-> {"learns", "persists"}]}

ThreeKinds ==
    {[class |-> 0, estimate |-> 2, prio |-> 4, deadline |-> Never],
     [class |-> 0, estimate |-> 0, prio |-> 4, deadline |-> Never],
     [class |-> 2, estimate |-> 2, prio |-> 2, deadline |-> 4]}

FastAndSlow ==
    [n \in NodeIds |-> [c \in JobClasses |-> IF n = 1 /\ c = 0 THEN 1 ELSE 6]]
=============================================================================
