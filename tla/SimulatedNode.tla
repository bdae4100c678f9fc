---------------------------- MODULE SimulatedNode ---------------------------
(***************************************************************************)
(* SimulatedNode: a node whose jobs run on the workers of a ThreadPool,    *)
(* with its table of pending jobs, its depth counters, its state machine   *)
(* and the faults that are injected into it.                               *)
(*                                                                         *)
(* Every action but two is one critical section of mMutex.  PoolJob and    *)
(* Callback run outside of it, and every other thread may come before      *)
(* them.  A job stands for its SlotMap handle, which is never reused       *)
(* (generations).  Latencies and the completed and failed counters, which  *)
(* only metrics() reads, are left out, and so are the state notifications, *)
(* whose only receiver, Balancer, ignores them.                            *)
(*                                                                         *)
(* The callers: a node is stopped while no submit() runs (INode: nodes     *)
(* outlive the Balancer), and no fault is injected while start() runs      *)
(* (SimulatedCluster starts its nodes before it hands them out).           *)
(***************************************************************************)
EXTENDS NodeState, Integers, FiniteSets

CONSTANTS
    Jobs,
    Prio,               \* Prio[j]: the priority j is submitted with
    workerCount,
    overloadThreshold,  \* SimulatedNodeConfig
    recoverThreshold,
    MaxStarts           \* bound: calls of start()

Priorities == 0..4      \* Critical, High, Normal, Low, Bulk: also the bands
Faults == {"None", "Crash", "Slowdown", "Partition"}
NoOverride == 5         \* of a job that mPriorityOverrides does not list

ASSUME NodeAssumption ==
    /\ IsFiniteSet(Jobs)
    /\ Prio \in [Jobs -> Priorities]
    /\ workerCount \in Nat \ {0}
    /\ overloadThreshold \in Nat \ {0}
    /\ recoverThreshold \in Nat
    /\ MaxStarts \in Nat

VARIABLES
    mState,
    mFault,
    mShutdown,
    mQueueDepth,
    mQueueDepthByPriority,
    mPendingSlots,          \* "Queued", "Running", or "erased"
    mPriorityOverrides,
    at,                     \* at[j]: where the code that has job j is
    label,                  \* label[j]: Job::priority of the task's copy of j
    life,                   \* where the thread that calls start and stop is
    starts                  \* calls of start() so far

counters == <<mQueueDepth, mQueueDepthByPriority>>
tables == <<mPendingSlots, mPriorityOverrides>>
lifeVars == <<mShutdown, life, starts>>

vars == <<mState, mFault, counters, tables, at, label, lifeVars>>

(* submit(), and then executeJob() on a worker.                            *)
Places == {"idle", "refused", "registered", "pooled", "running", "ended",
           "called", "dropped"}

Init ==
    /\ mState = "Offline"
    /\ mFault = "None"
    /\ mShutdown = FALSE
    /\ mQueueDepth = 0
    /\ mQueueDepthByPriority = [p \in Priorities |-> 0]
    /\ mPendingSlots = [j \in Jobs |-> "erased"]
    /\ mPriorityOverrides = [j \in Jobs |-> NoOverride]
    /\ at = [j \in Jobs |-> "idle"]
    /\ label = Prio
    /\ life = "stopped"
    /\ starts = 0

-----------------------------------------------------------------------------
(* The state machine and the counters.                                     *)

(* An off-by-one at the high mark, which is compared with >.               *)
ResolvedEarly(state, depth) ==
    IF depth > overloadThreshold THEN "Overloaded"
    ELSE IF depth = 0 THEN "Idle"
    ELSE IF state = "Overloaded" /\ depth > recoverThreshold THEN "Overloaded"
    ELSE "Busy"

Resolved(state, depth) ==
    IF depth >= overloadThreshold THEN "Overloaded"
    ELSE IF depth = 0 THEN "Idle"
    ELSE IF state = "Overloaded" /\ depth > recoverThreshold THEN "Overloaded"
    ELSE "Busy"

(* updateStateUnlocked(): a failed node keeps its state.                   *)
updateState(state, fault, depth) ==
    IF fault = "Crash" \/ state = "Failed" THEN state ELSE Resolved(state, depth)

(* Decrements that trust their callers.                                    *)
decrementUnchecked(p) ==
    /\ mQueueDepthByPriority' = [mQueueDepthByPriority EXCEPT ![p] = @ - 1]
    /\ mQueueDepth' = mQueueDepth - 1

decrementQueueCounters(p) ==
    /\ mQueueDepthByPriority' =
         [mQueueDepthByPriority EXCEPT ![p] = IF @ > 0 THEN @ - 1 ELSE 0]
    /\ mQueueDepth' = IF mQueueDepth > 0 THEN mQueueDepth - 1 ELSE 0

-----------------------------------------------------------------------------
(* submit().                                                               *)

Moves(j, from, to) == at[j] = from /\ at' = [at EXCEPT ![j] = to]

HasPool == life \in {"started", "stopping"}

Takes(j) ==
    /\ ~mShutdown
    /\ mFault \notin {"Crash", "Partition"}
    /\ mState \notin {"Failed", "Offline"}
    /\ nodeAcceptsPriority(mState, Prio[j])
    /\ HasPool

SubmitRefused(j) ==
    /\ ~Takes(j)
    /\ Moves(j, "idle", "refused")
    /\ UNCHANGED <<mState, mFault, counters, tables, label, lifeVars>>

SubmitRegister(j) ==
    /\ Takes(j)
    /\ Moves(j, "idle", "registered")
    /\ mPendingSlots' = [mPendingSlots EXCEPT ![j] = "Queued"]
    /\ mQueueDepthByPriority' = [mQueueDepthByPriority EXCEPT ![Prio[j]] = @ + 1]
    /\ mQueueDepth' = mQueueDepth + 1
    /\ mState' = updateState(mState, mFault, mQueueDepth')
    /\ UNCHANGED <<mFault, mPriorityOverrides, label, lifeVars>>

(* Outside the lock: the task goes to the pool, the caller gets the handle.*)
PoolJob(j) ==
    /\ Moves(j, "registered", "pooled")
    /\ UNCHANGED <<mState, mFault, counters, tables, label, lifeVars>>

-----------------------------------------------------------------------------
(* cancel() and reprioritise(), with a handle that submit() has returned.  *)
(* Their error returns change nothing.                                     *)

HandleKnown(j) == at[j] \notin {"idle", "refused", "registered"}

(* A cancel that leaves the override in the map.                           *)
CancelKeepsOverride(j) ==
    /\ HandleKnown(j)
    /\ mPendingSlots[j] = "Queued"
    /\ mPendingSlots' = [mPendingSlots EXCEPT ![j] = "erased"]
    /\ UNCHANGED <<mState, mFault, counters, mPriorityOverrides, at, label, lifeVars>>

Cancel(j) ==
    /\ HandleKnown(j)
    /\ mPendingSlots[j] = "Queued"
    /\ mPendingSlots' = [mPendingSlots EXCEPT ![j] = "erased"]
    /\ mPriorityOverrides' = [mPriorityOverrides EXCEPT ![j] = NoOverride]
    /\ UNCHANGED <<mState, mFault, counters, at, label, lifeVars>>

(* Whether FastHashMap::insert replaces an entry is not in src/: both.     *)
Reprioritise(j, newPriority) ==
    /\ HandleKnown(j)
    /\ mPendingSlots[j] = "Queued"
    /\ \/ mPriorityOverrides' = [mPriorityOverrides EXCEPT ![j] = newPriority]
       \/ mPriorityOverrides[j] # NoOverride /\ UNCHANGED mPriorityOverrides
    /\ UNCHANGED <<mState, mFault, counters, mPendingSlots, at, label, lifeVars>>

-----------------------------------------------------------------------------
(* executeJob(), on a free worker.                                         *)

WorkerFree == Cardinality({j \in Jobs : at[j] \in {"running", "ended"}}) < workerCount

(* A worker that drops a cancelled job without counting it out.            *)
ExecuteCancelledUncounted(j) ==
    /\ WorkerFree
    /\ Moves(j, "pooled", "dropped")
    /\ mPendingSlots[j] = "erased"
    /\ mPriorityOverrides' = [mPriorityOverrides EXCEPT ![j] = NoOverride]
    /\ UNCHANGED <<mState, mFault, counters, mPendingSlots, label, lifeVars>>

(* The job was cancelled: it is counted out, and no callback is invoked.   *)
ExecuteCancelled(j) ==
    /\ WorkerFree
    /\ Moves(j, "pooled", "dropped")
    /\ mPendingSlots[j] = "erased"
    /\ mPriorityOverrides' = [mPriorityOverrides EXCEPT ![j] = NoOverride]
    /\ decrementQueueCounters(label[j])
    /\ mState' = updateState(mState, mFault, mQueueDepth')
    /\ UNCHANGED <<mFault, mPendingSlots, label, lifeVars>>

RunsAs(j) == IF mPriorityOverrides[j] = NoOverride THEN label[j] ELSE mPriorityOverrides[j]

Run(j) ==
    /\ WorkerFree
    /\ Moves(j, "pooled", "running")
    /\ mPendingSlots' = [mPendingSlots EXCEPT ![j] = "Running"]
    /\ label' = [label EXCEPT ![j] = RunsAs(j)]
    /\ mPriorityOverrides' = [mPriorityOverrides EXCEPT ![j] = NoOverride]
    /\ UNCHANGED <<mState, mFault, counters, lifeVars>>

(* A worker that runs what it finds in the pool.                           *)
ExecuteUnchecked(j) == Run(j)

(* A crash that orphans what is queued.                                    *)
ExecuteUnlessCrashed(j) == mFault # "Crash" /\ mPendingSlots[j] = "Queued" /\ Run(j)

(* A fault does not keep a queued job from running.                        *)
Execute(j) == mPendingSlots[j] = "Queued" /\ Run(j)

(* The payload has returned or thrown: the job is counted out.             *)
Finish(j) ==
    /\ Moves(j, "running", "ended")
    /\ decrementQueueCounters(label[j])
    /\ mPendingSlots' = [mPendingSlots EXCEPT ![j] = "erased"]
    /\ mState' = updateState(mState, mFault, mQueueDepth')
    /\ UNCHANGED <<mFault, mPriorityOverrides, label, lifeVars>>

(* onDone(), outside the lock.                                             *)
Callback(j) ==
    /\ Moves(j, "ended", "called")
    /\ UNCHANGED <<mState, mFault, counters, tables, label, lifeVars>>

-----------------------------------------------------------------------------
(* injectFault(), start() and stop().                                      *)

InjectFault(fault) ==
    /\ life # "starting"
    /\ mFault' = fault
    /\ mState' = IF fault = "Crash" THEN "Failed"
                 ELSE IF fault = "None" /\ mState = "Failed"
                 THEN updateState("Recovering", fault, mQueueDepth)
                 ELSE mState
    /\ UNCHANGED <<counters, tables, at, label, lifeVars>>

StartCall ==
    /\ life = "stopped"
    /\ starts < MaxStarts
    /\ life' = "starting"
    /\ starts' = starts + 1
    /\ mShutdown' = FALSE
    /\ mState' = "Initializing"
    /\ UNCHANGED <<mFault, counters, tables, at, label>>

StartReady ==
    /\ life = "starting"
    /\ life' = "started"
    /\ mState' = "Idle"
    /\ UNCHANGED <<mFault, mShutdown, starts, counters, tables, at, label>>

StopCall ==
    /\ life = "started"
    /\ \A j \in Jobs : at[j] # "registered"
    /\ life' = "stopping"
    /\ mShutdown' = TRUE
    /\ UNCHANGED <<mState, mFault, starts, counters, tables, at, label>>

(* ThreadPool::shutdown() waits for queued tasks and for the workers.      *)
PoolDrained == \A j \in Jobs : at[j] \notin {"pooled", "running", "ended"}

(* A stop() that waits for the workers only.                               *)
StopAbandonsQueued ==
    /\ life = "stopping"
    /\ \A j \in Jobs : at[j] \notin {"running", "ended"}
    /\ life' = "stopped"
    /\ mState' = "Offline"
    /\ UNCHANGED <<mFault, mShutdown, starts, counters, tables, at, label>>

StopReturn ==
    /\ life = "stopping"
    /\ PoolDrained
    /\ life' = "stopped"
    /\ mState' = "Offline"
    /\ UNCHANGED <<mFault, mShutdown, starts, counters, tables, at, label>>

-----------------------------------------------------------------------------

SubmitCode(j) == SubmitRefused(j) \/ SubmitRegister(j)

Work(j) == Execute(j) \/ ExecuteCancelled(j) \/ Finish(j) \/ Callback(j)

(* An aging promotion is to a better priority, one band at a time.         *)
Caller(j) ==
    \/ SubmitCode(j)
    \/ Cancel(j)
    \/ \E p \in 0..(Prio[j] - 1) : Reprioritise(j, p)

Next ==
    \/ \E j \in Jobs : Caller(j) \/ PoolJob(j) \/ Work(j)
    \/ \E fault \in Faults : InjectFault(fault)
    \/ StartCall \/ StartReady \/ StopCall \/ StopReturn

Spec == Init /\ [][Next]_vars

(* The threads that owe a step take it: a submit() that has registered its *)
(* job, the workers (a job's payload returns), start() and stop().         *)
Fairness ==
    /\ \A j \in Jobs : WF_vars(PoolJob(j)) /\ WF_vars(Work(j))
    /\ WF_vars(StartReady)
    /\ WF_vars(StopReturn)

FairSpec == Spec /\ Fairness

-----------------------------------------------------------------------------
(* Properties.                                                             *)

(* Every variable keeps its type; the unsigned counters do not wrap.       *)
TypeOK ==
    /\ mState \in {"Offline", "Initializing", "Idle", "Busy", "Overloaded", "Failed"}
    /\ mFault \in Faults
    /\ mShutdown \in BOOLEAN
    /\ mQueueDepth \in Nat
    /\ mQueueDepthByPriority \in [Priorities -> Nat]
    /\ mPendingSlots \in [Jobs -> {"Queued", "Running", "erased"}]
    /\ mPriorityOverrides \in [Jobs -> Priorities \cup {NoOverride}]
    /\ at \in [Jobs -> Places]
    /\ label \in [Jobs -> Priorities]
    /\ life \in {"stopped", "starting", "started", "stopping"}
    /\ starts \in 0..MaxStarts

Counted == {j \in Jobs : at[j] \in {"registered", "pooled", "running"}}

(* The depth that policies and the saturation test read is the number of   *)
(* jobs that wait or run, cancelled ones included until a worker has met   *)
(* them: no path through submit, cancel and executeJob loses a count.      *)
DepthExact == mQueueDepth = Cardinality(Counted)

(* The table of pending jobs follows each job, and an override is kept     *)
(* only for a job that is still queued: mPriorityOverrides cannot grow by  *)
(* cancels, promotions of ending jobs, or both.                            *)
TablesFollowJobs ==
    \A j \in Jobs :
        /\ mPendingSlots[j] = "Queued" => at[j] \in {"registered", "pooled"}
        /\ mPendingSlots[j] = "Running" <=> at[j] = "running"
        /\ mPriorityOverrides[j] # NoOverride => mPendingSlots[j] = "Queued"

Tells(state, depth) ==
    /\ depth >= overloadThreshold => state = "Overloaded"
    /\ depth < overloadThreshold =>
         /\ depth = 0 <=> state = "Idle"
         /\ depth \in 1..recoverThreshold => state = "Busy"

(* While a node serves, its state tells its depth, with the hysteresis of  *)
(* the two thresholds, whatever faults came and went and however often it  *)
(* was restarted: policies trust the state without looking at the depth.   *)
StateTellsDepth == HasPool /\ mState # "Failed" => Tells(mState, mQueueDepth)

(* After stop() nothing is left of any job that the node took: every one   *)
(* was called back or had been cancelled, and no count remains.            *)
StopLeavesNothing ==
    life = "stopped" =>
        /\ mQueueDepth = 0
        /\ \A j \in Jobs : at[j] \in {"idle", "refused", "called", "dropped"}

(* A drained node shows no depth in any band: the header says that the     *)
(* bands reflect the jobs that wait or execute.                            *)
BandsEmptyWhenDrained ==
    mQueueDepth = 0 => \A p \in Priorities : mQueueDepthByPriority[p] = 0

(* A job's place in the contract of INode.                                 *)
Task(j) ==
    CASE at[j] \in {"idle", "refused"} -> "none"
      [] at[j] \in {"registered", "pooled"} ->
           IF mPendingSlots[j] = "Queued" THEN "queued" ELSE "cancelled"
      [] at[j] \in {"running", "ended"} -> "running"
      [] at[j] = "called" -> "called"
      [] at[j] = "dropped" -> "cancelled"

Contract == INSTANCE NodeContract WITH task <- [j \in Jobs |-> Task(j)]

(* The node keeps the contract that Balancer relies on: one callback for   *)
(* each job that ran, none for a cancelled one, under faults and restarts. *)
ImplementsContract == Contract!Spec

(* Every job that the node takes ends, also on a crashed or partitioned    *)
(* node and while it is being stopped, and stop() returns.                 *)
TakenJobsEnd == \A j \in Jobs : at[j] = "registered" ~> at[j] \in {"called", "dropped"}

StopReturns == life = "stopping" ~> life = "stopped"
=============================================================================
