-------------------------- MODULE SchedulingPolicies ------------------------
(***************************************************************************)
(* The scheduling policies: which node of a ClusterView each of them       *)
(* selects for a job, by what the CostModel has learned.                   *)
(*                                                                         *)
(* A view holds what every node has reported.  The nodes are in the order  *)
(* of their ids, so the first of several equals is the least.  The two     *)
(* errors of a policy are one, NoNode: Balancer makes the same of both.    *)
(***************************************************************************)
EXTENDS CostModel, NodeState, PolicyFactory

CONSTANT stealThreshold         \* of WorkStealing

ASSUME PolicyAssumption ==
    /\ 0 \notin NodeIds         \* WorkStealing takes id 0 for no node
    /\ stealThreshold \in Nat

NoNode == 0

Eligible(job, view) ==
    {n \in NodeIds : nodeAcceptsPriority(view[n].state, job.prio)}

(* The node of S that no other one precedes; the least id of equals.       *)
FirstBy(S, Precedes(_, _)) ==
    CHOOSE n \in S : \A m \in S \ {n} :
        Precedes(n, m) \/ (~Precedes(m, n) /\ n < m)

(* Every job ahead of it is taken to cost what this one does.              *)
Waiting(n, view) == view[n].depth + 1

Completion(n, job, view) == Predict(job, n) * Waiting(n, view)

LeastLoaded(job, view) ==
    FirstBy(Eligible(job, view),
            LAMBDA n, m : Waiting(n, view) * NodeMultiplier(n)
                              < Waiting(m, view) * NodeMultiplier(m))

(* A policy that sees the predicted cost alone.                            *)
CheapestNode(job, view) ==
    FirstBy(Eligible(job, view),
            LAMBDA n, m : Predict(job, n) < Predict(job, m))

ShortestJobFirst(job, view) ==
    FirstBy(Eligible(job, view),
            LAMBDA n, m : Completion(n, job, view) < Completion(m, job, view))

(* The node of the greatest slack is the one that completes first: the     *)
(* deadline and the time are the same for all.                             *)
EarliestDeadlineFirst(job, view) ==
    IF job.hasDeadline
    THEN ShortestJobFirst(job, view)
    ELSE FirstBy(Eligible(job, view),
                 LAMBDA n, m : view[n].depth < view[m].depth)

WorkStealing(job, view) ==
    LET Underloaded(n) == view[n].depth < stealThreshold
    IN  FirstBy(Eligible(job, view),
                LAMBDA n, m :
                    \/ Underloaded(n) /\ ~Underloaded(m)
                    \/ /\ Underloaded(n) <=> Underloaded(m)
                       /\ Completion(n, job, view) < Completion(m, job, view))

(* The completion is divided by the affinity once any eligible node's cell *)
(* is warm.  (The quotients are compared as products.)                     *)
AffinityRouting(job, view) ==
    LET anyWarm == \E n \in Eligible(job, view) : IsAffinityCellWarm(n, job.class)
        Affinity(n) ==
            LET score == AffinityScore(n, job.class)
            IN  IF anyWarm /\ score > 0 THEN score ELSE Unit
    IN  FirstBy(Eligible(job, view),
                LAMBDA n, m : Completion(n, job, view) * Affinity(m)
                                  < Completion(m, job, view) * Affinity(n))

(* The factory gives every node the weight 1.                              *)
WeightedCapacity(job, view) ==
    FirstBy(Eligible(job, view),
            LAMBDA n, m : view[n].utilization < view[m].utilization)

(* The first eligible node from the cursor on, in a circle.                *)
RoundRobin(job, view, cursor) ==
    LET count == Cardinality(NodeIds)
        start == cursor % count
        Position(n) == Cardinality({m \in NodeIds : m < n})
        Distance(n) == (Position(n) + count - start) % count
    IN  FirstBy(Eligible(job, view), LAMBDA n, m : Distance(n) < Distance(m))

----------------------------------------------------------------------------
SelectSimple(kind, job, view, cursor) ==
    IF Eligible(job, view) = {} THEN NoNode
    ELSE CASE kind = "policy.least_loaded"      -> LeastLoaded(job, view)
           [] kind = "policy.work_stealing"     -> WorkStealing(job, view)
           [] kind = "policy.affinity_routing"  -> AffinityRouting(job, view)
           [] kind = "shortest_job_first"       -> ShortestJobFirst(job, view)
           [] kind = "weighted_capacity"        -> WeightedCapacity(job, view)
           [] kind = "earliest_deadline_first"  -> EarliestDeadlineFirst(job, view)
           [] OTHER                             -> RoundRobin(job, view, cursor)

(* The first child that selects a node decides.                            *)
FirstSuccess(children, Selects(_)) ==
    LET succeeding == {i \in DOMAIN children : Selects(children[i]) # NoNode}
    IN  IF succeeding = {} THEN NoNode
        ELSE Selects(children[CHOOSE i \in succeeding :
                                 \A k \in succeeding : i <= k])

(* A composite whose children are no composites.                           *)
SelectFlat(p, job, view, cursor) ==
    IF p.kind = "policy.composite"
    THEN FirstSuccess(p.children,
                      LAMBDA q : SelectSimple(q.kind, job, view, cursor))
    ELSE SelectSimple(p.kind, job, view, cursor)

(* ISchedulingPolicy::selectNode() of a policy that the factory makes.     *)
SelectNode(p, job, view, cursor) ==
    IF p.kind = "policy.composite"
    THEN FirstSuccess(p.children, LAMBDA q : SelectFlat(q, job, view, cursor))
    ELSE SelectSimple(p.kind, job, view, cursor)
=============================================================================
