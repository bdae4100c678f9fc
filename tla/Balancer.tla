------------------------------ MODULE Balancer ------------------------------
(***************************************************************************)
(* The Balancer: what its threads do to the jobs it is given.              *)
(*                                                                         *)
(*   - one user thread per job runs submit(); another runs cancel();       *)
(*     others switch the policy, toggle aging and destroy the balancer;    *)
(*   - the holding-drain thread retries the jobs of the holding queue;     *)
(*   - the aging thread expires tracked jobs;                              *)
(*   - node threads execute accepted jobs and run completion callbacks.    *)
(*                                                                         *)
(* One action is one atomic access to shared state (an atomic variable or  *)
(* a critical section) with the thread-local code around it.  The model is *)
(* sequentially consistent; PolicySwitch.tla looks at the drain gate under *)
(* the memory orders the code asks for.                                    *)
(*                                                                         *)
(* A node is the INode contract: it accepts or refuses a job, may cancel a *)
(* job that has not started, and calls back once for a job it ran.  What   *)
(* the metrics snapshot says and which node the policy picks is not told   *)
(* apart from accepting or refusing: both outcomes are always possible.    *)
(* Node handles are unique here: a job stands for its node handle.         *)
(***************************************************************************)
EXTENDS HoldingQueue, FiniteSets

CONSTANTS
    HasDeadline,    \* the jobs with a deadline
    MaxRetries,     \* HoldingQueueConfig::maxRetries, 0 = unlimited
    Calls,          \* the public calls users make beside submit()
    NoJob           \* "this thread has no job in hand"

ASSUME BalancerAssumption ==
    /\ IsFiniteSet(Jobs)
    /\ HasDeadline \subseteq Jobs
    /\ MaxRetries \in Nat
    /\ Calls \subseteq {"cancel", "setAgingEnabled", "switchPolicy", "destroy"}
    /\ NoJob \notin Jobs

VARIABLES
    mSubmittedCount,    \* jobs between their increment and their decrement
    mDraining,          \* the gate of submit()
    mPolicy,            \* which policy object is active; a switch flips it
    mHandleToJobInfo,   \* jobs in the two routing maps
    mTracked,           \* jobs tracked by the AgingEngine
    mAgingEnabled,
    late,               \* jobs whose deadline has passed
    sub,                \* sub[j]: where the submit() call of j is
    task,               \* task[j]: what the node has done with j
    reg,                \* reg[j]: how far registerDispatchedJob(j) is
    early,              \* early[j]: the callback came before publication
    fin,                \* fin[j]: how far finalizeJobLifecycle(j) is
    finalized,          \* finalized[j]: how often it was called
    holdRetries,        \* holdRetries[j]: failed dispatches of a held job
    drainPc, drainJob,  \* the holding-drain thread and the entry it moved out
    canPc, canJob,      \* canPc[c]: where a cancel() call is, and of which job
    agingPc, expired,   \* the aging thread and its undelivered ExpiredEvents
    switchPc,           \* the switchPolicy() call
    dtorPc              \* the destructor

gateVars == <<mSubmittedCount, mDraining, mPolicy>>
mapVars == <<mHandleToJobInfo, mTracked>>
jobVars == <<sub, task, reg, early, fin, finalized, holdRetries>>
drainVars == <<drainPc, drainJob>>
cancelVars == <<canPc, canJob>>
agingVars == <<mAgingEnabled, agingPc, expired>>
ownerVars == <<switchPc, dtorPc>>

vars == <<mCritical, mHigh, mHoldingQueueDepth, gateVars, mapVars, late,
          jobVars, drainVars, cancelVars, agingVars, ownerVars>>

(* The two threads that may be inside cancel(): a user's and the aging one. *)
Cancellers == {"user", "aging"}

Alive == dtorPc = "alive"

(* A job counted in mSubmittedCount: from the increment in submit() to the *)
(* decrement on an early return or at the end of finalizeJobLifecycle.     *)
InFlight(j) == sub[j] \notin {"idle", "rejected"} /\ fin[j] # "done"

Init ==
    /\ QueueInit
    /\ SlotsInit
    /\ mSubmittedCount = 0
    /\ mDraining = FALSE
    /\ mPolicy = 0
    /\ mHandleToJobInfo = {}
    /\ mTracked = {}
    /\ mAgingEnabled = FALSE
    /\ late = {}
    /\ sub = [j \in Jobs |-> "idle"]
    /\ task = [j \in Jobs |-> "none"]
    /\ reg = [j \in Jobs |-> "none"]
    /\ early = [j \in Jobs |-> FALSE]
    /\ fin = [j \in Jobs |-> "none"]
    /\ finalized = [j \in Jobs |-> 0]
    /\ holdRetries = [j \in Jobs |-> 0]
    /\ drainPc = "wait" /\ drainJob = NoJob
    /\ canPc = [c \in Cancellers |-> "idle"]
    /\ canJob = [c \in Cancellers |-> NoJob]
    /\ agingPc = "off" /\ expired = {}
    /\ switchPc = "idle"
    /\ dtorPc = "alive"

----------------------------------------------------------------------------
(* Time.  A deadline, once passed, stays passed.                           *)
DeadlinePasses(j) ==
    /\ j \in HasDeadline \ late
    /\ sub[j] # "rejected" /\ fin[j] # "done"
    /\ late' = late \cup {j}
    /\ UNCHANGED <<queueVars, mHoldingQueueDepth, gateVars, mapVars, jobVars,
                   drainVars, cancelVars, agingVars, ownerVars>>

----------------------------------------------------------------------------
(* finalizeJobLifecycle.  Its caller begins it and waits until it is done: *)
(* the clean-up of the AgingEngine, of the routing maps, and the decrement *)
(* are three separate critical sections.                                   *)

BeginFinalize(j) ==
    /\ fin' = [fin EXCEPT ![j] = "begun"]
    /\ finalized' = [finalized EXCEPT ![j] = @ + 1]

FinalizeUntrack(j) ==
    /\ fin[j] = "begun"
    /\ fin' = [fin EXCEPT ![j] = "untracked"]
    /\ mTracked' = mTracked \ {j}
    /\ UNCHANGED <<queueVars, mHoldingQueueDepth, gateVars, mHandleToJobInfo,
                   late, sub, task, reg, early, finalized, holdRetries,
                   drainVars, cancelVars, agingVars, ownerVars>>

FinalizeErase(j) ==
    /\ fin[j] = "untracked"
    /\ fin' = [fin EXCEPT ![j] = "erased"]
    /\ mHandleToJobInfo' = mHandleToJobInfo \ {j}
    /\ UNCHANGED <<queueVars, mHoldingQueueDepth, gateVars, mTracked, late,
                   sub, task, reg, early, finalized, holdRetries, drainVars,
                   cancelVars, agingVars, ownerVars>>

FinalizeDecrement(j) ==
    /\ fin[j] = "erased"
    /\ fin' = [fin EXCEPT ![j] = "done"]
    /\ mSubmittedCount' = mSubmittedCount - 1
    /\ UNCHANGED <<queueVars, mHoldingQueueDepth, mDraining, mPolicy, mapVars,
                   late, sub, task, reg, early, finalized, holdRetries,
                   drainVars, cancelVars, agingVars, ownerVars>>

Finalize(j) == FinalizeUntrack(j) \/ FinalizeErase(j) \/ FinalizeDecrement(j)

----------------------------------------------------------------------------
(* submit().                                                               *)

SubmitStep(j, from, to) ==
    /\ sub[j] = from
    /\ sub' = [sub EXCEPT ![j] = to]
    /\ UNCHANGED <<late, mapVars, early, fin, finalized, holdRetries,
                   drainVars, cancelVars, agingVars, ownerVars>>

(* The count is raised before the gate is read.                            *)
SubmitCall(j) ==
    /\ Alive
    /\ SubmitStep(j, "idle", "counted")
    /\ mSubmittedCount' = mSubmittedCount + 1
    /\ UNCHANGED <<queueVars, mHoldingQueueDepth, mDraining, mPolicy, task, reg>>

SubmitGate(j) ==
    /\ SubmitStep(j, "counted", IF mDraining THEN "refused" ELSE "gatePassed")
    /\ UNCHANGED <<queueVars, mHoldingQueueDepth, gateVars, task, reg>>

(* The deadline has passed, or AdmissionControl refuses (a rate limit, a   *)
(* shed mode, a saturated cluster, no holding slot left).                  *)
SubmitReject(j) ==
    /\ SubmitStep(j, "gatePassed", "refused")
    /\ UNCHANGED <<queueVars, mHoldingQueueDepth, gateVars, task, reg>>

(* The snapshot shows a saturated cluster and a holding slot is reserved.  *)
SubmitReserve(j) ==
    /\ j \notin late
    /\ Holdable(j)
    /\ SubmitStep(j, "gatePassed", "reserved")
    /\ ReserveSlot
    /\ UNCHANGED <<queueVars, gateVars, task, reg>>

(* The job enters the holding queue.  Were the queue full, the reservation *)
(* is returned and the submission fails.                                   *)
SubmitHold(j) ==
    IF QueueFull
    THEN /\ SubmitStep(j, "reserved", "refused")
         /\ ReleaseSlot
         /\ UNCHANGED <<queueVars, gateVars, task, reg>>
    ELSE /\ SubmitStep(j, "reserved", "enqueued")
         /\ PushBack(j)
         /\ UNCHANGED <<mHoldingQueueDepth, gateVars, task, reg>>

SubmitHoldReturn(j) ==
    /\ SubmitStep(j, "enqueued", "held")
    /\ UNCHANGED <<queueVars, mHoldingQueueDepth, gateVars, task, reg>>

(* Admitted for immediate dispatch: the cluster is not saturated.          *)
SubmitAdmit(j) ==
    /\ j \notin late
    /\ SubmitStep(j, "gatePassed", "admitted")
    /\ UNCHANGED <<queueVars, mHoldingQueueDepth, gateVars, task, reg>>

(* The active policy selects a node, or finds none.                        *)
SubmitSelect(j) ==
    /\ \E pc \in {"selected", "refused"} : SubmitStep(j, "admitted", pc)
    /\ UNCHANGED <<queueVars, mHoldingQueueDepth, gateVars, task, reg>>

(* INode::submit.  Once it accepts, the node owns the job, and may finish  *)
(* it before the balancer has registered it.                               *)
SubmitDispatch(j) ==
    /\ SubmitStep(j, "selected", "registering")
    /\ task' = [task EXCEPT ![j] = "queued"]
    /\ reg' = [reg EXCEPT ![j] = "started"]
    /\ UNCHANGED <<queueVars, mHoldingQueueDepth, gateVars>>

SubmitNodeRefuses(j) ==
    /\ SubmitStep(j, "selected", "refused")
    /\ UNCHANGED <<queueVars, mHoldingQueueDepth, gateVars, task, reg>>

(* registerDispatchedJob has returned, with the finalisation it may owe.   *)
Registered(j) == reg[j] = "published" /\ (early[j] => fin[j] = "done")

SubmitReturn(j) ==
    /\ Registered(j)
    /\ SubmitStep(j, "registering", "dispatched")
    /\ UNCHANGED <<queueVars, mHoldingQueueDepth, gateVars, task, reg>>

(* An error return that forgets the decrement.                             *)
SubmitRefusedLeaks(j) ==
    /\ SubmitStep(j, "refused", "rejected")
    /\ UNCHANGED <<queueVars, mHoldingQueueDepth, gateVars, task, reg>>

(* Every error return gives its count back.                                *)
SubmitRefused(j) ==
    /\ SubmitStep(j, "refused", "rejected")
    /\ mSubmittedCount' = mSubmittedCount - 1
    /\ UNCHANGED <<queueVars, mHoldingQueueDepth, mDraining, mPolicy, task, reg>>

SubmitCode(j) ==
    \/ SubmitGate(j) \/ SubmitReject(j) \/ SubmitReserve(j) \/ SubmitHold(j)
    \/ SubmitHoldReturn(j) \/ SubmitAdmit(j) \/ SubmitSelect(j)
    \/ SubmitDispatch(j) \/ SubmitNodeRefuses(j) \/ SubmitReturn(j)
    \/ SubmitRefused(j)

----------------------------------------------------------------------------
(* registerDispatchedJob, run by the submitting or by the drain thread     *)
(* after the node has accepted the job, while the node may already run it. *)

RegisterStep(j, from, to) ==
    /\ reg[j] = from
    /\ reg' = [reg EXCEPT ![j] = to]
    /\ UNCHANGED <<queueVars, mHoldingQueueDepth, gateVars, late, sub, task,
                   early, holdRetries, drainVars, cancelVars, agingVars,
                   ownerVars>>

RegisterRoute(j) ==
    /\ RegisterStep(j, "started", "routed")
    /\ mHandleToJobInfo' = mHandleToJobInfo \cup {j}
    /\ UNCHANGED <<mTracked, fin, finalized>>

RegisterTrack(j) ==
    /\ RegisterStep(j, "routed", "tracked")
    /\ mTracked' = IF mAgingEnabled THEN mTracked \cup {j} ELSE mTracked
    /\ UNCHANGED <<mHandleToJobInfo, fin, finalized>>

(* Publication that forgets the recorded completion.                       *)
RegisterPublishForgets(j) ==
    /\ RegisterStep(j, "tracked", "published")
    /\ UNCHANGED <<fin, finalized, mapVars>>

(* Publication, under the mutex of the registration state: a callback that *)
(* came earlier was only recorded, and is finalised here.                  *)
RegisterPublish(j) ==
    /\ RegisterStep(j, "tracked", "published")
    /\ IF early[j] THEN BeginFinalize(j) ELSE UNCHANGED <<fin, finalized>>
    /\ UNCHANGED mapVars

Register(j) == RegisterRoute(j) \/ RegisterTrack(j) \/ RegisterPublish(j)

----------------------------------------------------------------------------
(* The node (INode contract) and the callback made by                      *)
(* makeDispatchCompletionCallback, which a node thread runs.               *)

NodeStep(j, from, to) ==
    /\ task[j] = from
    /\ task' = [task EXCEPT ![j] = to]
    /\ UNCHANGED <<queueVars, mHoldingQueueDepth, gateVars, mapVars, late,
                   sub, reg, holdRetries, drainVars, cancelVars, agingVars,
                   ownerVars>>

NodeStart(j) ==
    /\ NodeStep(j, "queued", "running")
    /\ UNCHANGED <<early, fin, finalized>>

(* A callback that finalises without looking at the registration state.    *)
NodeCompleteUnguarded(j) ==
    /\ NodeStep(j, "running", "called")
    /\ BeginFinalize(j)
    /\ UNCHANGED early

NodeComplete(j) ==
    /\ NodeStep(j, "running", "called")
    /\ IF reg[j] = "published"
       THEN /\ BeginFinalize(j)
            /\ UNCHANGED early
       ELSE /\ early' = [early EXCEPT ![j] = TRUE]
            /\ UNCHANGED <<fin, finalized>>

Node(j) == NodeStart(j) \/ NodeComplete(j)

----------------------------------------------------------------------------
(* holdingDrainLoop().                                                     *)

DrainStep(from, to, job) ==
    /\ drainPc = from
    /\ drainPc' = to
    /\ drainJob' = job
    /\ UNCHANGED <<gateVars, mapVars, late, sub, early, cancelVars, agingVars,
                   ownerVars>>

(* The bounded wait ends at once while the queue is not empty.             *)
DrainWake ==
    /\ QueueSize > 0
    /\ dtorPc # "stopDrain"
    /\ DrainStep("wait", "sweep", NoJob)
    /\ UNCHANGED <<queueVars, mHoldingQueueDepth, task, reg, fin, finalized,
                   holdRetries>>

DrainStop ==
    /\ dtorPc = "stopDrain"
    /\ DrainStep("wait", "stopped", NoJob)
    /\ UNCHANGED <<queueVars, mHoldingQueueDepth, task, reg, fin, finalized,
                   holdRetries>>

DrainSweepEnds ==
    /\ QueueSize = 0
    /\ DrainStep("sweep", "wait", NoJob)
    /\ UNCHANGED <<queueVars, mHoldingQueueDepth, task, reg, fin, finalized,
                   holdRetries>>

DrainDequeue ==
    /\ TryDequeue
    /\ DrainStep("sweep", "hand", NextEntry)
    /\ UNCHANGED <<mHoldingQueueDepth, task, reg, fin, finalized, holdRetries>>

MustDrop(j) == j \in late \/ (MaxRetries > 0 /\ holdRetries[j] >= MaxRetries)

(* Dropped: the slot is released, then the holding callback finalises.     *)
DrainDrop ==
    /\ DrainStep("hand", "finishing", drainJob)
    /\ MustDrop(drainJob)
    /\ ReleaseSlot
    /\ BeginFinalize(drainJob)
    /\ UNCHANGED <<queueVars, task, reg, holdRetries>>

DrainDropped ==
    /\ DrainStep("finishing", "sweep", NoJob)
    /\ fin[drainJob] = "done"
    /\ UNCHANGED <<queueVars, mHoldingQueueDepth, task, reg, fin, finalized,
                   holdRetries>>

(* Still saturated: back into the queue, and the sweep ends.               *)
DrainSaturated ==
    /\ DrainStep("hand", "wait", NoJob)
    /\ ~MustDrop(drainJob)
    /\ Requeue(drainJob)
    /\ UNCHANGED <<mHoldingQueueDepth, task, reg, fin, finalized, holdRetries>>

DrainSelect ==
    /\ DrainStep("hand", "selected", drainJob)
    /\ ~MustDrop(drainJob)
    /\ UNCHANGED <<queueVars, mHoldingQueueDepth, task, reg, fin, finalized,
                   holdRetries>>

(* A failed attempt is counted.  With unlimited retries nothing reads the  *)
(* count, and it stays 0 here.                                             *)
CountRetry(j) ==
    holdRetries' = [holdRetries EXCEPT ![j] = IF MaxRetries = 0 THEN 0 ELSE @ + 1]

DrainSelectFails ==
    /\ DrainStep("hand", "wait", NoJob)
    /\ ~MustDrop(drainJob)
    /\ CountRetry(drainJob)
    /\ Requeue(drainJob)
    /\ UNCHANGED <<mHoldingQueueDepth, task, reg, fin, finalized>>

DrainNodeRefuses ==
    /\ DrainStep("selected", "wait", NoJob)
    /\ CountRetry(drainJob)
    /\ Requeue(drainJob)
    /\ UNCHANGED <<mHoldingQueueDepth, task, reg, fin, finalized>>

DrainDispatch ==
    /\ DrainStep("selected", "release", drainJob)
    /\ task' = [task EXCEPT ![drainJob] = "queued"]
    /\ UNCHANGED <<queueVars, mHoldingQueueDepth, reg, fin, finalized,
                   holdRetries>>

(* A dispatch that keeps its holding slot.                                 *)
DrainReleaseForgets ==
    /\ DrainStep("release", "registering", drainJob)
    /\ reg' = [reg EXCEPT ![drainJob] = "started"]
    /\ UNCHANGED <<queueVars, mHoldingQueueDepth, task, fin, finalized,
                   holdRetries>>

DrainRelease ==
    /\ DrainStep("release", "registering", drainJob)
    /\ ReleaseSlot
    /\ reg' = [reg EXCEPT ![drainJob] = "started"]
    /\ UNCHANGED <<queueVars, task, fin, finalized, holdRetries>>

DrainRegistered ==
    /\ DrainStep("registering", "sweep", NoJob)
    /\ Registered(drainJob)
    /\ UNCHANGED <<queueVars, mHoldingQueueDepth, task, reg, fin, finalized,
                   holdRetries>>

Drain ==
    \/ DrainWake \/ DrainStop \/ DrainSweepEnds \/ DrainDequeue
    \/ DrainDrop \/ DrainDropped \/ DrainSaturated \/ DrainSelect
    \/ DrainSelectFails \/ DrainNodeRefuses \/ DrainDispatch
    \/ DrainRelease \/ DrainRegistered

----------------------------------------------------------------------------
(* cancel(), by a user or by the aging thread.                             *)

CancelStep(c, from, to, job) ==
    /\ canPc[c] = from
    /\ canPc' = [canPc EXCEPT ![c] = to]
    /\ canJob' = [canJob EXCEPT ![c] = job]
    /\ UNCHANGED <<gateVars, mapVars, late, sub, reg, early, holdRetries,
                   drainVars, mAgingEnabled, agingPc, ownerVars>>

(* A holding handle goes to the holding queue.                             *)
CancelHeld(j) ==
    /\ Alive
    /\ sub[j] = "held"
    /\ RemoveHeld(j)
    /\ CancelStep("user", "idle", "removed", j)
    /\ UNCHANGED <<mHoldingQueueDepth, task, fin, finalized, expired>>

CancelHeldNotFound(j) ==
    /\ Alive
    /\ sub[j] = "held"
    /\ j \notin Queued
    /\ CancelStep("user", "idle", "notFound", j)
    /\ UNCHANGED <<queueVars, mHoldingQueueDepth, task, fin, finalized, expired>>

CancelReturnsNotFound ==
    /\ CancelStep("user", "notFound", "idle", NoJob)
    /\ UNCHANGED <<queueVars, mHoldingQueueDepth, task, fin, finalized, expired>>

CancelRelease ==
    /\ CancelStep("user", "removed", "finishing", canJob["user"])
    /\ ReleaseSlot
    /\ BeginFinalize(canJob["user"])
    /\ UNCHANGED <<queueVars, task, expired>>

(* A node handle is looked up in the routing map (lookupRouting).  A job   *)
(* that is not routed is NotFound and nothing changes.                     *)
CancelLookup(j) ==
    /\ Alive
    /\ sub[j] = "dispatched"
    /\ j \in mHandleToJobInfo
    /\ CancelStep("user", "idle", "looked", j)
    /\ UNCHANGED <<queueVars, mHoldingQueueDepth, task, fin, finalized, expired>>

(* A cancel that finalises whatever the node answers.                      *)
CancelAtNodeUnchecked(c) ==
    LET j == canJob[c]
    IN  /\ CancelStep(c, "looked", "finishing", j)
        /\ task' = [task EXCEPT ![j] = IF @ = "queued" THEN "cancelled" ELSE @]
        /\ BeginFinalize(j)
        /\ UNCHANGED <<queueVars, mHoldingQueueDepth, expired>>

(* INode::cancel removes a job that is still queued; then the canceller,   *)
(* not the callback, finalises it.  Otherwise the cancel fails.            *)
CancelAtNode(c) ==
    LET j == canJob[c]
    IN  /\ canPc[c] = "looked"
        /\ IF task[j] = "queued"
           THEN /\ CancelStep(c, "looked", "finishing", j)
                /\ task' = [task EXCEPT ![j] = "cancelled"]
                /\ BeginFinalize(j)
           ELSE /\ CancelStep(c, "looked", "idle", NoJob)
                /\ UNCHANGED <<task, fin, finalized>>
        /\ UNCHANGED <<queueVars, mHoldingQueueDepth, expired>>

CancelFinished(c) ==
    /\ CancelStep(c, "finishing", "idle", NoJob)
    /\ fin[canJob[c]] = "done"
    /\ UNCHANGED <<queueVars, mHoldingQueueDepth, task, fin, finalized, expired>>

CancelCode(c) == CancelAtNode(c) \/ CancelFinished(c)

----------------------------------------------------------------------------
(* The aging thread.  Its stop flag is the negation of mAgingEnabled: the  *)
(* two toggles of setAgingEnabled are called one after the other here.     *)

AgingStep(from, to) ==
    /\ agingPc = from
    /\ agingPc' = to
    /\ UNCHANGED <<queueVars, mHoldingQueueDepth, gateVars, mHandleToJobInfo,
                   late, jobVars, drainVars, ownerVars>>

AgingEnable ==
    /\ Alive
    /\ AgingStep("off", "sleep")
    /\ mAgingEnabled' = TRUE
    /\ UNCHANGED <<mTracked, cancelVars, expired>>

AgingDisable ==
    /\ Alive
    /\ mAgingEnabled
    /\ AgingStep(agingPc, agingPc)
    /\ mAgingEnabled' = FALSE
    /\ UNCHANGED <<mTracked, cancelVars, expired>>

AgingStops ==
    /\ ~mAgingEnabled
    /\ AgingStep("sleep", "off")
    /\ UNCHANGED <<mTracked, mAgingEnabled, cancelVars, expired>>

(* AgingEngine::tick: every tracked job whose deadline has passed leaves   *)
(* the tracked set and is reported, in one step under mAgingMutex.         *)
AgingTick ==
    /\ mAgingEnabled
    /\ mTracked \cap late # {}
    /\ AgingStep("sleep", "deliver")
    /\ expired' = mTracked \cap late
    /\ mTracked' = mTracked \ late
    /\ UNCHANGED <<mAgingEnabled, cancelVars>>

(* One ExpiredEvent: cancel() of the job's handle, if it is still routed.  *)
AgingExpire(j) ==
    /\ agingPc = "deliver"
    /\ j \in expired
    /\ expired' = expired \ {j}
    /\ IF j \in mHandleToJobInfo
       THEN CancelStep("aging", "idle", "looked", j)
       ELSE CancelStep("aging", "idle", "idle", NoJob)
    /\ UNCHANGED <<queueVars, mHoldingQueueDepth, task, fin, finalized>>

AgingDelivered ==
    /\ expired = {}
    /\ canPc["aging"] = "idle"
    /\ AgingStep("deliver", "sleep")
    /\ UNCHANGED <<mTracked, mAgingEnabled, cancelVars, expired>>

----------------------------------------------------------------------------
(* switchPolicy(): mSwitchMutex lets one caller in at a time.              *)

SwitchStep(from, to) ==
    /\ switchPc = from
    /\ switchPc' = to
    /\ UNCHANGED <<queueVars, mHoldingQueueDepth, mSubmittedCount, mapVars,
                   late, jobVars, drainVars, cancelVars, agingVars, dtorPc>>

SwitchCall ==
    /\ Alive
    /\ SwitchStep("idle", "waiting")
    /\ mDraining' = TRUE
    /\ UNCHANGED mPolicy

(* A switch that does not wait for the jobs in flight.                     *)
SwitchDoesNotWait ==
    /\ SwitchStep("waiting", "clear")
    /\ UNCHANGED <<mDraining, mPolicy>>

SwitchSeesZero ==
    /\ mSubmittedCount = 0
    /\ SwitchStep("waiting", "clear")
    /\ UNCHANGED <<mDraining, mPolicy>>

SwitchSwap ==
    /\ SwitchStep("clear", "swapped")
    /\ mPolicy' = 1 - mPolicy
    /\ UNCHANGED mDraining

(* A switch that leaves the gate closed.                                   *)
SwitchResumeForgets ==
    /\ SwitchStep("swapped", "idle")
    /\ UNCHANGED <<mDraining, mPolicy>>

SwitchResume ==
    /\ SwitchStep("swapped", "idle")
    /\ mDraining' = FALSE
    /\ UNCHANGED mPolicy

----------------------------------------------------------------------------
(* ~Balancer().  As for any C++ object, no public call is under way when   *)
(* it begins and none begins later: what may still run are the node, drain *)
(* and aging threads.                                                      *)

DtorStep(from, to) ==
    /\ dtorPc = from
    /\ dtorPc' = to
    /\ UNCHANGED <<queueVars, mHoldingQueueDepth, mSubmittedCount, mPolicy,
                   mapVars, late, jobVars, drainVars, cancelVars, agingPc,
                   expired, switchPc>>

DtorCall ==
    /\ \A j \in Jobs : sub[j] \in {"idle", "held", "dispatched", "rejected"}
    /\ canPc["user"] = "idle"
    /\ switchPc = "idle"
    /\ mAgingEnabled \/ agingPc = "off"
    /\ DtorStep("alive", "waiting")
    /\ mDraining' = TRUE
    /\ UNCHANGED mAgingEnabled

(* A destructor that stops the threads without waiting for the jobs.       *)
DtorDoesNotWait ==
    /\ DtorStep("waiting", "stopAging")
    /\ mAgingEnabled' = FALSE
    /\ UNCHANGED mDraining

(* stopAgingThread raises the stop flag ...                                *)
DtorSeesZero ==
    /\ mSubmittedCount = 0
    /\ DtorStep("waiting", "stopAging")
    /\ mAgingEnabled' = FALSE
    /\ UNCHANGED mDraining

(* ... and joins; then stopHoldingDrainThread does the same.               *)
DtorJoinsAging ==
    /\ agingPc = "off"
    /\ DtorStep("stopAging", "stopDrain")
    /\ UNCHANGED <<mDraining, mAgingEnabled>>

DtorJoinsDrain ==
    /\ drainPc = "stopped"
    /\ DtorStep("stopDrain", "destroyed")
    /\ UNCHANGED <<mDraining, mAgingEnabled>>

----------------------------------------------------------------------------

UserCalls ==
    \/ \E j \in Jobs : SubmitCall(j)
    \/ /\ "cancel" \in Calls
       /\ \E j \in Jobs : CancelHeld(j) \/ CancelHeldNotFound(j) \/ CancelLookup(j)
    \/ "setAgingEnabled" \in Calls /\ (AgingEnable \/ AgingDisable)
    \/ "switchPolicy" \in Calls /\ SwitchCall
    \/ "destroy" \in Calls /\ DtorCall

(* The steps the balancer's own threads and the nodes owe.                 *)

JobSteps ==
    \E j \in Jobs : SubmitCode(j) \/ Register(j) \/ Node(j) \/ Finalize(j)

CancelSteps ==
    \/ \E c \in Cancellers : CancelCode(c)
    \/ CancelRelease
    \/ CancelReturnsNotFound

AgingSteps ==
    \/ \E j \in Jobs : AgingExpire(j)
    \/ AgingTick \/ AgingDelivered \/ AgingStops

SwitchSteps == SwitchSeesZero \/ SwitchSwap \/ SwitchResume

DtorSteps == DtorSeesZero \/ DtorJoinsAging \/ DtorJoinsDrain

(* Nothing is left to do once the balancer is gone.                        *)
Gone == dtorPc = "destroyed" /\ UNCHANGED vars

Next ==
    \/ \E j \in Jobs : DeadlinePasses(j)
    \/ UserCalls
    \/ JobSteps \/ Drain \/ CancelSteps \/ AgingSteps
    \/ SwitchSteps \/ DtorSteps
    \/ Gone

Spec == Init /\ [][Next]_vars

----------------------------------------------------------------------------
(* Fairness.  The operating system keeps scheduling runnable threads: weak *)
(* fairness for the threads that carry jobs forward (together: each has    *)
(* finitely many steps to do), and for each of the others.  That a held    *)
(* job is ever dispatched is up to the cluster: a job that the drain       *)
(* thread offers again and again is in the end selected and accepted.      *)
(* Nothing obliges a user to call.                                         *)
Fairness ==
    /\ WF_vars(JobSteps)
    /\ WF_vars(Drain)
    /\ \A j \in Jobs : /\ SF_vars(drainJob = j /\ DrainSelect)
                       /\ SF_vars(drainJob = j /\ DrainDispatch)
    /\ WF_vars(CancelSteps)
    /\ WF_vars(AgingSteps)
    /\ WF_vars(SwitchSteps)
    /\ WF_vars(DtorSteps)

FairSpec == Spec /\ Fairness

----------------------------------------------------------------------------
(* Properties.                                                             *)

SubPcs == {"idle", "counted", "gatePassed", "reserved", "enqueued", "held",
           "admitted", "selected", "registering", "dispatched", "refused",
           "rejected"}
DrainPcs == {"wait", "sweep", "hand", "selected", "release", "registering",
             "finishing", "stopped"}

(* The values each variable may take.  The counters are naturals: no       *)
(* fetch_sub of the code meets a zero, and no retry count passes its limit. *)
TypeOK ==
    /\ mCritical \in Seq(Jobs)
    /\ mHigh \in Seq(Jobs)
    /\ mHoldingQueueDepth \in 0 .. Capacity
    /\ mSubmittedCount \in Nat
    /\ mDraining \in BOOLEAN
    /\ mPolicy \in {0, 1}
    /\ mHandleToJobInfo \subseteq Jobs
    /\ mTracked \subseteq Jobs
    /\ mAgingEnabled \in BOOLEAN
    /\ late \subseteq HasDeadline
    /\ sub \in [Jobs -> SubPcs]
    /\ task \in [Jobs -> {"none", "queued", "running", "called", "cancelled"}]
    /\ reg \in [Jobs -> {"none", "started", "routed", "tracked", "published"}]
    /\ early \in [Jobs -> BOOLEAN]
    /\ fin \in [Jobs -> {"none", "begun", "untracked", "erased", "done"}]
    /\ finalized \in [Jobs -> Nat]
    /\ holdRetries \in [Jobs -> 0 .. MaxRetries]
    /\ drainPc \in DrainPcs
    /\ drainJob \in Jobs \cup {NoJob}
    /\ canPc \in [Cancellers ->
                    {"idle", "removed", "notFound", "looked", "finishing"}]
    /\ canJob \in [Cancellers -> Jobs \cup {NoJob}]
    /\ agingPc \in {"off", "sleep", "deliver"}
    /\ expired \subseteq Jobs
    /\ switchPc \in {"idle", "waiting", "clear", "swapped"}
    /\ dtorPc \in {"alive", "waiting", "stopAging", "stopDrain", "destroyed"}

(* mSubmittedCount is exactly the number of jobs in flight, in every state *)
(* of every thread: switchPolicy and the destructor take a zero as proof   *)
(* that nothing is in flight (Balancer.h:391-398, 188-192).                *)
CountExact == mSubmittedCount = Cardinality({j \in Jobs : InFlight(j)})

(* The jobs for which AdmissionControl holds a slot.                       *)
HasSlot(j) ==
    \/ sub[j] = "reserved"
    \/ j \in Queued
    \/ drainJob = j /\ drainPc \in {"hand", "selected", "release"}
    \/ canJob["user"] = j /\ canPc["user"] = "removed"

(* The slot counter of AdmissionControl is exactly the number of jobs that *)
(* own a slot, and so never below the size of the queue: this is the       *)
(* agreement HoldingQueue.h:115-119 asks Balancer to keep.                 *)
SlotsExact ==
    /\ mHoldingQueueDepth = Cardinality({j \in Jobs : HasSlot(j)})
    /\ QueueSize <= mHoldingQueueDepth

(* Who will see to it that job j ends.                                     *)
Holders(j) ==
    {h \in {"submit", "queue", "drain", "cancel", "node", "record", "finalize"} :
        CASE h = "submit"   -> sub[j] \in {"counted", "gatePassed", "reserved",
                                           "admitted", "selected", "refused"}
          [] h = "queue"    -> j \in Queued
          [] h = "drain"    -> drainJob = j /\ drainPc \in {"hand", "selected"}
          [] h = "cancel"   -> canJob["user"] = j /\ canPc["user"] = "removed"
          [] h = "node"     -> task[j] \in {"queued", "running"}
          [] h = "record"   -> early[j] /\ reg[j] # "published"
          [] h = "finalize" -> fin[j] \in {"begun", "untracked", "erased"}}

(* A job in flight is in exactly one place: no requeue drops an entry, no  *)
(* early completion is forgotten, no two threads own the same job.  A job  *)
(* that has ended is nowhere.                                              *)
OneHolder ==
    /\ \A j \in Jobs : Cardinality(Holders(j)) = IF InFlight(j) THEN 1 ELSE 0
    /\ QueueSize = Cardinality(Queued)

(* finalizeJobLifecycle runs at most once per job, whichever of callback,  *)
(* early publication, user cancel, aging cancel and drain drop gets there, *)
(* and never for a submission that was refused.                            *)
FinalizedOnce ==
    \A j \in Jobs : finalized[j] <= IF sub[j] \in {"refused", "rejected"}
                                     THEN 0 ELSE 1

(* Nothing is left of a job that has ended: it is neither tracked nor      *)
(* routed, so the aging thread never acts on a dead job (AgingEngine.h     *)
(* asks for an untrack whenever a job completes or is cancelled).          *)
NoResidue ==
    \A j \in Jobs : fin[j] = "done" => j \notin mTracked \cup mHandleToJobInfo

(* The jobs that may still ask, or have asked, the active policy.          *)
PastGate(j) == InFlight(j) /\ sub[j] \notin {"counted", "refused"}

(* When switchPolicy is about to exchange the policy no job is between the *)
(* gate and its end (Balancer.h:42: "no job is routed by two policies").   *)
QuiescentSwap ==
    switchPc \in {"clear", "swapped"} => \A j \in Jobs : ~PastGate(j)

(* Once the destructor has seen zero, no node thread can enter a callback  *)
(* of this balancer, none is inside one, and the queue it is about to      *)
(* destroy is empty (Balancer.h:177-183); once it is through, its own two  *)
(* threads have ended.                                                     *)
SafeDestruction ==
    /\ dtorPc \in {"stopAging", "stopDrain", "destroyed"} =>
         /\ \A j \in Jobs : /\ fin[j] \in {"none", "done"}
                             /\ task[j] \notin {"queued", "running"}
         /\ QueueSize = 0
    /\ dtorPc = "destroyed" => agingPc = "off" /\ drainPc = "stopped"

(* The refinement mapping to JobLifecycle.                                 *)
Phase(j) ==
    CASE sub[j] \in {"idle", "counted"} -> "new"
      [] sub[j] \in {"refused", "rejected"} -> "rejected"
      [] sub[j] \in {"gatePassed", "reserved", "admitted", "selected"} -> "routing"
      [] OTHER -> IF fin[j] = "done" THEN "finished" ELSE "accepted"

Lifecycle == INSTANCE JobLifecycle
                 WITH phase <- [j \in Jobs |-> Phase(j)], policy <- mPolicy

(* Balancer implements JobLifecycle.                                       *)
ImplementsLifecycle == Lifecycle!Spec

(* The jobs behind the gate are those that JobLifecycle has between        *)
(* routing and their end.                                                  *)
Gate == INSTANCE DrainGate
            WITH Entrants <- Jobs,
                 behind <- {j \in Jobs : Phase(j) \in {"routing", "accepted"}},
                 policy <- mPolicy

ImplementsGate == Gate!Spec

NodeUse == INSTANCE NodeContract

(* The balancer asks of its nodes what INode allows: whichever thread has  *)
(* the job, and however often it was held, retried or cancelled, at most   *)
(* one node ever takes it.  SimulatedNode implements the same contract.    *)
UsesNodesByContract == NodeUse!Spec

(* Every job that submit() has counted ends, and is no longer counted.     *)
EveryJobEnds == \A j \in Jobs : InFlight(j) ~> ~InFlight(j)

(* switchPolicy returns, and submit() is open again.                       *)
SwitchCompletes == switchPc = "waiting" ~> switchPc = "idle" /\ ~mDraining

(* The destructor returns.                                                 *)
DestructionCompletes == dtorPc = "waiting" ~> dtorPc = "destroyed"

(* Job.h:281-282 says that cancel() answers NotFound when the job has      *)
(* "already completed or never submitted".  The code also answers it while *)
(* the drain thread has the entry in hand, and after it was dispatched.    *)
NotFoundMeansEnded ==
    canPc["user"] = "notFound" => fin[canJob["user"]] = "done"

(* HoldingQueue.h:64-65 promises FIFO order within a priority and          *)
(* Balancer.h:777 says a job that meets saturation is re-queued "in-place":*)
(* an entry ahead of another of its band stays ahead until it leaves.  The *)
(* code pushes it to the back.                                             *)
Waiting(j) == j \in Queued \/ (drainJob = j /\ drainPc \in {"hand", "selected"})

Precedes(q, a, b) == \E i, k \in DOMAIN q : i < k /\ q[i] = a /\ q[k] = b

Ahead(a, b) ==
    /\ Waiting(a) /\ Waiting(b) /\ Prio[a] = Prio[b]
    /\ \/ a = drainJob
       \/ Precedes(mCritical, a, b)
       \/ Precedes(mHigh, a, b)

FifoWithinBand ==
    [][\A a \in Jobs : \A b \in Jobs \ {a} : Ahead(a, b) => ~Ahead(b, a)']_vars
=============================================================================
