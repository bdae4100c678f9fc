------------------------------ MODULE Scheduling ----------------------------
(***************************************************************************)
(* What a job of Balancer learns and teaches on its way: the policy        *)
(* selects a node by the nodes' reports and the CostModel, the AgingEngine *)
(* tracks the job while it is in flight, and its completion updates the    *)
(* model, which a thread may save and load meanwhile.                      *)
(*                                                                         *)
(* The gate, the holding queue, the routing maps and the nodes' own queues *)
(* are the matter of Balancer and SimulatedNode.  Here a submission reads  *)
(* all reports, selects and dispatches in one step.                        *)
(***************************************************************************)
EXTENDS SchedulingPolicies, AgingEngine

CONSTANTS
    Setups,             \* a policy, and what else goes on (bounds the product)
    Kinds,              \* the jobs that are submitted
    Observed,           \* Observed[n][c]: the cost of class c on node n
    overloadThreshold,  \* of every node
    scanInterval,       \* AgingConfig
    CursorRange,        \* 2^32, RoundRobin's cursor
    MaxObservations     \* bound: observations of the model

Activities == {"learns", "fails", "toggles", "ages", "persists"}

ASSUME SchedulingAssumption ==
    /\ IsFiniteSet(Jobs)
    /\ \A s \in Setups : s.policy \in STRING /\ s.does \subseteq Activities
    /\ \A k \in Kinds :
          /\ k.class \in JobClasses /\ k.prio \in Bands
          /\ k.estimate \in Nat /\ k.deadline \in Nat
    /\ Observed \in [NodeIds -> [JobClasses -> Nat]]
    /\ overloadThreshold \in Nat \ {0}
    /\ scanInterval \in Nat \ {0}
    /\ CursorRange \in Nat \ {0}
    /\ MaxObservations \in Nat

VARIABLES
    setup,
    mCursor,        \* of the policy, when it is RoundRobin
    inFlight,       \* inFlight[j]: the node that has j, and Balancer's copy
    failed,         \* the nodes that have failed
    lastScan        \* when the aging thread ticked last

flowVars == <<setup, mCursor, inFlight, failed>>
vars == <<costModelVars, agingVars, flowVars, lastScan>>

Absent == [node |-> NoNode]

Policy == MakePolicy(setup.policy, TRUE, DefaultChain)

Init ==
    /\ CostModelInit
    /\ AgingInit
    /\ setup \in Setups
    /\ mCursor = 0
    /\ inFlight = [j \in Jobs |-> Absent]
    /\ failed = {}
    /\ lastScan = 0

----------------------------------------------------------------------------
(* INode::metrics().  A node has one worker.                               *)

QueueDepth(n) == Cardinality({j \in Jobs : inFlight[j].node = n})

StateOf(n) ==
    IF n \in failed THEN "Failed"
    ELSE IF QueueDepth(n) >= overloadThreshold THEN "Overloaded"
    ELSE IF QueueDepth(n) = 0 THEN "Idle" ELSE "Busy"

View ==
    [n \in NodeIds |->
        [state       |-> StateOf(n),
         depth       |-> QueueDepth(n),
         utilization |-> IF QueueDepth(n) > 0 THEN 1 ELSE 0]]

Fail(n) ==
    /\ "fails" \in setup.does
    /\ n \notin failed
    /\ failed' = failed \cup {n}
    /\ UNCHANGED <<costModelVars, agingVars, setup, mCursor, inFlight, lastScan>>

Recover(n) ==
    /\ n \in failed
    /\ failed' = failed \ {n}
    /\ UNCHANGED <<costModelVars, agingVars, setup, mCursor, inFlight, lastScan>>

----------------------------------------------------------------------------
(* submit(), and the completion callback.                                  *)

(* The job as policies see it.  Nobody has set queueDepthAtDispatch yet.   *)
JobOf(kind) ==
    [class |-> kind.class, estimate |-> kind.estimate, prio |-> kind.prio,
     hasDeadline |-> kind.deadline < Never, depth |-> 0]

Deadline(kind) == IF kind.deadline < Never THEN now + kind.deadline ELSE Never

NextCursor ==
    IF Policy.kind = "policy.round_robin"
    THEN (mCursor + 1) % CursorRange ELSE mCursor

(* RegisterDispatchedJob() tracks the job when aging is on.                *)
Submit(j, kind) ==
    LET n == SelectNode(Policy, JobOf(kind), View, mCursor)
    IN  /\ inFlight[j] = Absent
        /\ kind.deadline > 0
        /\ mCursor' = NextCursor
        /\ IF n = NoNode
           THEN UNCHANGED <<inFlight, mTracked>>
           ELSE /\ inFlight' = [inFlight EXCEPT ![j] =
                                  [node |-> n, job |-> JobOf(kind)]]
                /\ mTracked' = IF "ages" \in setup.does
                               THEN Track(j, kind.prio, Deadline(kind))
                               ELSE mTracked
        /\ UNCHANGED <<costModelVars, now, setup, failed, lastScan>>

(* The observations that the averages of S have made, one by one.          *)
Observations(emas, S) ==
    UNION {{i} \X (1..emas[i].observations) : i \in S}

Throughputs == [n \in NodeIds |-> mNodeStates[n].throughput]

(* The node notes the depth in its own copy of the job.  The callback      *)
(* takes the observed cost and the node from that copy, and no more.       *)
Complete(j) ==
    LET n == inFlight[j].node
        job == inFlight[j].job
    IN  /\ "learns" \in setup.does
        /\ inFlight[j] # Absent
        /\ Cardinality(Observations(Throughputs, NodeIds)) < MaxObservations
        /\ Update(n, job, Observed[n][job.class])
        /\ mTracked' = Untrack(j)
        /\ inFlight' = [inFlight EXCEPT ![j] = Absent]
        /\ UNCHANGED <<mDegradationEnabled, file, saving, loading, now,
                       setup, mCursor, failed, lastScan>>

(* The job throws, or it is cancelled.                                     *)
CompleteFailed(j) ==
    /\ inFlight[j] # Absent
    /\ mTracked' = Untrack(j)
    /\ inFlight' = [inFlight EXCEPT ![j] = Absent]
    /\ UNCHANGED <<costModelVars, now, setup, mCursor, failed, lastScan>>

----------------------------------------------------------------------------
(* The aging thread wakes up at the end of every scan interval at the      *)
(* latest.                                                                 *)

Tick ==
    /\ "ages" \in setup.does
    /\ mTracked' = AfterTick
    /\ lastScan' = now
    /\ UNCHANGED <<costModelVars, now, flowVars>>

Clock ==
    /\ "ages" \in setup.does
    /\ now - lastScan < scanInterval
    /\ TimePasses
    /\ UNCHANGED <<costModelVars, mTracked, flowVars, lastScan>>

----------------------------------------------------------------------------
(* The other users of the model.                                           *)

Elsewhere == UNCHANGED <<agingVars, flowVars, lastScan>>

Save == (SaveOpen \/ SaveCollect \/ SaveWrite) /\ Elsewhere

Load == (LoadRead \/ LoadFails \/ LoadCommit) /\ Elsewhere

SwapFile == \E kind \in {"missing", "foreign"} : ReplaceFile(kind) /\ Elsewhere

ResetModel == Reset /\ Elsewhere

Toggle ==
    "toggles" \in setup.does /\ SetDegradationEnabled(~mDegradationEnabled) /\ Elsewhere

(* The process ends, at any moment, and another one is started.            *)
RestartProcess ==
    /\ Restart
    /\ inFlight' = [j \in Jobs |-> Absent]
    /\ mTracked' = [j \in Jobs |-> Untracked]
    /\ mCursor' = 0
    /\ lastScan' = now
    /\ UNCHANGED <<now, setup, failed>>

Persist ==
    /\ "persists" \in setup.does
    /\ Save \/ Load \/ SwapFile \/ ResetModel \/ RestartProcess

Next ==
    \/ \E n \in NodeIds : Fail(n) \/ Recover(n)
    \/ \E j \in Jobs :
          \/ \E kind \in Kinds : Submit(j, kind)
          \/ Complete(j) \/ CompleteFailed(j)
    \/ Tick \/ Clock
    \/ Toggle
    \/ Persist

Spec == Init /\ [][Next]_vars

----------------------------------------------------------------------------
(* Properties.                                                             *)

Model == [nodes |-> mNodeStates, affinity |-> mAffinityMatrix]

Cold == [nodes |-> ColdNodes, affinity |-> ColdMatrix]

(* Every variable has its type; a job in flight has a node, and only such  *)
(* a job is tracked.                                                       *)
TypeOK ==
    /\ mNodeStates \in [NodeIds -> [throughput : Ema, buckets : [Buckets -> Ema]]]
    /\ mAffinityMatrix \in [Rows -> [Columns -> Ema]]
    /\ mDegradationEnabled \in BOOLEAN
    /\ file.kind \in {"missing", "incomplete", "foreign", "model"}
    /\ saving.step \in {"idle", "opened", "collected"}
    /\ loading.step \in {"idle", "read"}
    /\ setup \in Setups
    /\ mCursor \in 0..(CursorRange - 1)
    /\ failed \subseteq NodeIds
    /\ now \in 0..MaxTime /\ lastScan \in 0..now
    /\ \A j \in Jobs :
          /\ inFlight[j] # Absent =>
                inFlight[j].node \in NodeIds /\ inFlight[j].job \in {JobOf(k) : k \in Kinds}
          /\ mTracked[j].tracked => inFlight[j] # Absent

(* The three things that update() teaches never drift apart, through       *)
(* updates, saves, loads, resets and restarts at any moment: a node has as *)
(* many observations as the buckets of its curve, and the nodes that share *)
(* a row of the matrix have as many as the row, wherever ids and classes   *)
(* are clamped (CostModel::update, load; AffinityMatrix::clampRow).        *)
ObservationsAgree ==
    /\ \A n \in NodeIds :
          Cardinality(Observations(mNodeStates[n].buckets, Buckets))
              = mNodeStates[n].throughput.observations
    /\ \A r \in Rows :
          Cardinality(Observations(mAffinityMatrix[r], Columns))
              = Cardinality(Observations(Throughputs,
                                         {n \in NodeIds : ClampRow(n) = r}))

(* The model is replaced as a whole or not at all.  Besides the learning   *)
(* of one job, a step leaves it as it was, makes it cold, or brings back   *)
(* to the last bit what one save() found, although that save wrote outside *)
(* of the lock, whole numbers without a point, and other jobs were learned *)
(* meanwhile (CostModel::save, load).                                      *)
RestoresOneModel ==
    [][ \/ \E j \in Jobs : Complete(j)
        \/ Model' \in {Model, Cold}
        \/ loading.step = "read" /\ Model' = loading.content.of ]_vars

(* The policies that look at the load send no job of a known cost to a     *)
(* node when another one that would take it is less loaded, is not         *)
(* predicted to be slower for the job, and has the same affinity for its   *)
(* class: no ties, warm or cold corrections, steal bias or chain make them *)
(* pile jobs up.  A job of kUnknownCost is predicted to cost nothing       *)
(* anywhere: most of these policies send it to the least id.               *)
LoadAware == {"policy.least_loaded", "policy.work_stealing",
              "policy.affinity_routing", "shortest_job_first",
              "earliest_deadline_first", "policy.composite"}

Dominates(m, n, job) ==
    /\ QueueDepth(m) < QueueDepth(n)
    /\ Predict(job, m) <= Predict(job, n)
    /\ NodeMultiplier(m) <= NodeMultiplier(n)
    /\ AffinityScore(m, job.class) = AffinityScore(n, job.class)

NoDominatedChoice ==
    [][ \A j \in Jobs :
          /\ Policy.kind \in LoadAware
          /\ inFlight[j] = Absent
          /\ inFlight'[j] # Absent
          /\ inFlight'[j].job.estimate > 0
          =>
            \A m \in Eligible(inFlight'[j].job, View) :
                ~Dominates(m, inFlight'[j].node, inFlight'[j].job) ]_vars

(* The time that a job needs to rise from the lowest band to this one.     *)
TimeTo(band) ==
    CASE band = 4 -> 0
      [] band = 3 -> bulkToLow
      [] band = 2 -> bulkToLow + lowToNormal
      [] band = 1 -> bulkToLow + lowToNormal + normalToHigh
      [] band = 0 -> bulkToLow + lowToNormal + normalToHigh + highToCritical

(* A job rises only by waiting out every band on its way, never beyond the *)
(* ceiling and never once its deadline has passed; and no scan misses it:  *)
(* a promotion or an expiry that is due comes within one scan interval     *)
(* (AgingEngine::tick).                                                    *)
AgingOnTime ==
    \A j \in Jobs : mTracked[j].tracked =>
        LET t == mTracked[j]
        IN  /\ t.lastBumpAt - t.from.time >= TimeTo(t.band) - TimeTo(t.from.band)
            /\ t.band = t.from.band \/ t.band >= (IF highToCriticalEnabled THEN 0 ELSE 1)
            /\ t.lastBumpAt = t.from.time \/ t.lastBumpAt < t.deadline
            /\ now <= t.deadline + scanInterval
            /\ now <= t.lastBumpAt + AgingThreshold(t.band) + scanInterval
=============================================================================
