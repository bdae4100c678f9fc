------------------------- MODULE SimulatedNodeProofs ------------------------
(***************************************************************************)
(* SimulatedNode keeps its safety properties, and implements NodeContract. *)
(***************************************************************************)
EXTENDS SimulatedNode, FiniteSetTheorems, TLAPS

Resting == {"idle", "refused", "called", "dropped"}

(* Without a pool no job is under way, and none is handed to one that is   *)
(* being shut down.                                                        *)
LifeInv ==
    /\ ~HasPool => \A j \in Jobs : at[j] \in Resting
    /\ life = "stopping" => mShutdown /\ \A j \in Jobs : at[j] # "registered"

(* A crash that a restart has covered up: the node looks idle, but it has  *)
(* taken nothing since, and so its state need not follow anything.         *)
CrashInv == HasPool /\ mFault = "Crash" /\ mState # "Failed" => mQueueDepth = 0

NInv ==
    /\ TypeOK /\ DepthExact /\ TablesFollowJobs
    /\ StateTellsDepth /\ LifeInv /\ CrashInv

-----------------------------------------------------------------------------
(* The state machine and the counters.                                     *)

(* The state that a depth resolves to tells it, whatever it was before.    *)
LEMMA ResolvedTells ==
    ASSUME NEW state, NEW depth \in Nat
    PROVE  /\ Tells(Resolved(state, depth), depth)
           /\ Resolved(state, depth) \in {"Idle", "Busy", "Overloaded"}
BY NodeAssumption DEF Tells, Resolved

LEMMA CountedFinite == IsFiniteSet(Counted) /\ Cardinality(Counted) \in Nat
BY NodeAssumption, FS_Subset, FS_CardinalityType DEF Counted

(* A step that leaves the jobs in what is counted leaves the depth exact.  *)
LEMMA CountSame ==
    ASSUME DepthExact, mQueueDepth' = mQueueDepth,
           \A j \in Jobs : at'[j] \in {"registered", "pooled", "running"}
                             <=> at[j] \in {"registered", "pooled", "running"}
    PROVE  DepthExact'
<1>1. Counted' = Counted
  BY DEF Counted
<1> QED
  BY <1>1 DEF DepthExact

(* The state after a step that changes the depth.                          *)
LEMMA StateFollows ==
    ASSUME NInv, mQueueDepth' \in Nat, mFault' = mFault, life' = life,
           mState' = updateState(mState, mFault, mQueueDepth'),
           ~(HasPool /\ mFault = "Crash" /\ mState # "Failed")
    PROVE  StateTellsDepth' /\ CrashInv' /\ mState' \in
             {"Offline", "Initializing", "Idle", "Busy", "Overloaded", "Failed"}
<1>1. mState \in {"Offline", "Initializing", "Idle", "Busy", "Overloaded", "Failed"}
  BY DEF NInv, TypeOK
<1>2. CASE mFault = "Crash" \/ mState = "Failed"
  BY <1>1, <1>2 DEF updateState, StateTellsDepth, CrashInv, HasPool
<1>3. CASE ~(mFault = "Crash" \/ mState = "Failed")
  <2>1. mState' = Resolved(mState, mQueueDepth')
    BY <1>3 DEF updateState
  <2>2. Tells(mState', mQueueDepth') /\ mState' \in {"Idle", "Busy", "Overloaded"}
    BY <2>1, ResolvedTells
  <2> QED
    BY <1>3, <2>2 DEF StateTellsDepth, CrashInv
<1> QED
  BY <1>2, <1>3

(* A worker counts out a job: a cancelled one, or one that has run.        *)
LEMMA CountOut ==
    ASSUME NInv, NEW k \in Jobs, NEW to \in {"ended", "dropped"},
           at[k] \in {"pooled", "running"}, at' = [at EXCEPT ![k] = to],
           decrementQueueCounters(label[k]),
           mState' = updateState(mState, mFault, mQueueDepth'),
           mFault' = mFault, life' = life
    PROVE  /\ DepthExact' /\ StateTellsDepth' /\ CrashInv'
           /\ mQueueDepth' \in Nat
           /\ mQueueDepthByPriority' \in [Priorities -> Nat]
           /\ mState' \in {"Offline", "Initializing", "Idle", "Busy", "Overloaded", "Failed"}
<1>1. /\ at \in [Jobs -> Places] /\ label[k] \in Priorities
      /\ mQueueDepthByPriority \in [Priorities -> Nat]
  BY DEF NInv, TypeOK
<1>2. Counted' = Counted \ {k} /\ k \in Counted
  BY <1>1 DEF Counted
<1>3. Cardinality(Counted') = Cardinality(Counted) - 1 /\ Cardinality(Counted') \in Nat
  BY <1>2, CountedFinite, FS_RemoveElement, FS_CardinalityType
<1>4. mQueueDepth = Cardinality(Counted)
  BY DEF NInv, DepthExact
<1>5. mQueueDepth' = mQueueDepth - 1 /\ mQueueDepth > 0
  BY <1>3, <1>4, CountedFinite DEF decrementQueueCounters
<1>6. mQueueDepth' \in Nat /\ DepthExact'
  BY <1>3, <1>4, <1>5 DEF DepthExact
<1>7. mQueueDepthByPriority' \in [Priorities -> Nat]
  BY <1>1 DEF decrementQueueCounters
<1>8. ~(HasPool /\ mFault = "Crash" /\ mState # "Failed")
  BY <1>5 DEF NInv, CrashInv
<1> QED
  BY <1>6, <1>7, <1>8, StateFollows

-----------------------------------------------------------------------------
(* One lemma for each action that does more than move a job on.            *)

LEMMA RegisterKeeps ==
    ASSUME NInv, NEW k \in Jobs, SubmitRegister(k)
    PROVE  NInv'
<1>1. /\ at \in [Jobs -> Places] /\ Prio \in [Jobs -> Priorities]
      /\ mQueueDepthByPriority \in [Priorities -> Nat]
      /\ at[k] = "idle" /\ at' = [at EXCEPT ![k] = "registered"]
  BY NodeAssumption DEF NInv, TypeOK, SubmitRegister, Moves
<1>2. Counted' = Counted \cup {k} /\ k \notin Counted
  BY <1>1 DEF Counted
<1>3. Cardinality(Counted') = Cardinality(Counted) + 1
  BY <1>2, CountedFinite, FS_AddElement
<1>4. DepthExact' /\ mQueueDepth' \in Nat
  BY <1>3, CountedFinite DEF NInv, DepthExact, SubmitRegister
<1>5. StateTellsDepth' /\ CrashInv' /\ mState' \in
        {"Offline", "Initializing", "Idle", "Busy", "Overloaded", "Failed"}
  BY <1>4, StateFollows DEF SubmitRegister, Takes, lifeVars
<1>6. mQueueDepthByPriority' \in [Priorities -> Nat]
  BY <1>1 DEF SubmitRegister
<1>7. TypeOK'
  BY <1>1, <1>4, <1>5, <1>6 DEF NInv, TypeOK, SubmitRegister, Places, lifeVars
<1>8. TablesFollowJobs'
  BY <1>1 DEF NInv, TypeOK, TablesFollowJobs, SubmitRegister
<1>9. LifeInv'
  BY <1>1 DEF NInv, LifeInv, SubmitRegister, Takes, HasPool, lifeVars
<1> QED
  BY <1>4, <1>5, <1>7, <1>8, <1>9 DEF NInv

LEMMA CancelKeeps ==
    ASSUME NInv, NEW k \in Jobs, Cancel(k)
    PROVE  NInv'
<1>1. DepthExact'
  BY CountSame DEF NInv, Cancel, counters
<1>2. TypeOK'
  BY DEF NInv, TypeOK, Cancel, counters, lifeVars
<1>3. TablesFollowJobs'
  BY DEF NInv, TypeOK, TablesFollowJobs, Cancel
<1>4. StateTellsDepth' /\ LifeInv' /\ CrashInv'
  BY DEF NInv, StateTellsDepth, LifeInv, CrashInv, HasPool, Cancel, counters, lifeVars
<1> QED
  BY <1>1, <1>2, <1>3, <1>4 DEF NInv

LEMMA ReprioritiseKeeps ==
    ASSUME NInv, NEW k \in Jobs, NEW p \in 0..(Prio[k] - 1), Reprioritise(k, p)
    PROVE  NInv'
<1>1. DepthExact'
  BY CountSame DEF NInv, Reprioritise, counters
<1>2. p \in Priorities
  BY NodeAssumption DEF Priorities
<1>3. TypeOK'
  BY <1>2 DEF NInv, TypeOK, Reprioritise, counters, lifeVars
<1>4. TablesFollowJobs'
  BY <1>2 DEF NInv, TypeOK, TablesFollowJobs, Reprioritise
<1>5. StateTellsDepth' /\ LifeInv' /\ CrashInv'
  BY DEF NInv, StateTellsDepth, LifeInv, CrashInv, HasPool, Reprioritise, counters, lifeVars
<1> QED
  BY <1>1, <1>3, <1>4, <1>5 DEF NInv

LEMMA ExecuteCancelledKeeps ==
    ASSUME NInv, NEW k \in Jobs, ExecuteCancelled(k)
    PROVE  NInv'
<1>1. /\ at \in [Jobs -> Places] /\ at[k] = "pooled"
      /\ at' = [at EXCEPT ![k] = "dropped"] /\ life' = life
  BY DEF NInv, TypeOK, ExecuteCancelled, Moves, lifeVars
<1>2. /\ DepthExact' /\ StateTellsDepth' /\ CrashInv'
      /\ mQueueDepth' \in Nat
      /\ mQueueDepthByPriority' \in [Priorities -> Nat]
      /\ mState' \in {"Offline", "Initializing", "Idle", "Busy", "Overloaded", "Failed"}
  BY <1>1, CountOut DEF ExecuteCancelled
<1>3. TypeOK'
  BY <1>1, <1>2 DEF NInv, TypeOK, ExecuteCancelled, Places, lifeVars
<1>4. TablesFollowJobs'
  BY <1>1 DEF NInv, TypeOK, TablesFollowJobs, ExecuteCancelled
<1>5. LifeInv'
  BY <1>1 DEF NInv, LifeInv, HasPool, Resting, ExecuteCancelled, lifeVars
<1> QED
  BY <1>2, <1>3, <1>4, <1>5 DEF NInv

LEMMA ExecuteKeeps ==
    ASSUME NInv, NEW k \in Jobs, Execute(k)
    PROVE  NInv'
<1>1. /\ at \in [Jobs -> Places] /\ at[k] = "pooled"
      /\ at' = [at EXCEPT ![k] = "running"] /\ life' = life
  BY DEF NInv, TypeOK, Execute, Run, Moves, lifeVars
<1>2. DepthExact'
  BY <1>1, CountSame DEF NInv, Execute, Run, counters
<1>3. RunsAs(k) \in Priorities
  BY DEF NInv, TypeOK, RunsAs
<1>4. TypeOK'
  BY <1>1, <1>3 DEF NInv, TypeOK, Execute, Run, Places, counters, lifeVars
<1>5. TablesFollowJobs'
  BY <1>1 DEF NInv, TypeOK, TablesFollowJobs, Execute, Run
<1>6. StateTellsDepth' /\ CrashInv'
  BY DEF NInv, StateTellsDepth, CrashInv, HasPool, Execute, Run, counters, lifeVars
<1>7. LifeInv'
  BY <1>1 DEF NInv, LifeInv, HasPool, Resting, Execute, Run, lifeVars
<1> QED
  BY <1>2, <1>4, <1>5, <1>6, <1>7 DEF NInv

LEMMA FinishKeeps ==
    ASSUME NInv, NEW k \in Jobs, Finish(k)
    PROVE  NInv'
<1>1. /\ at \in [Jobs -> Places] /\ at[k] = "running"
      /\ at' = [at EXCEPT ![k] = "ended"] /\ life' = life
  BY DEF NInv, TypeOK, Finish, Moves, lifeVars
<1>2. /\ DepthExact' /\ StateTellsDepth' /\ CrashInv'
      /\ mQueueDepth' \in Nat
      /\ mQueueDepthByPriority' \in [Priorities -> Nat]
      /\ mState' \in {"Offline", "Initializing", "Idle", "Busy", "Overloaded", "Failed"}
  BY <1>1, CountOut DEF Finish
<1>3. TypeOK'
  BY <1>1, <1>2 DEF NInv, TypeOK, Finish, Places, lifeVars
<1>4. TablesFollowJobs'
  BY <1>1 DEF NInv, TypeOK, TablesFollowJobs, Finish
<1>5. LifeInv'
  BY <1>1 DEF NInv, LifeInv, HasPool, Resting, Finish, lifeVars
<1> QED
  BY <1>2, <1>3, <1>4, <1>5 DEF NInv

(* The steps that only move a job on.                                      *)
LEMMA MovesKeep ==
    ASSUME NInv, NEW k \in Jobs, SubmitRefused(k) \/ PoolJob(k) \/ Callback(k)
    PROVE  NInv'
<1>1. /\ at \in [Jobs -> Places] /\ life' = life
      /\ \/ at[k] = "idle" /\ at' = [at EXCEPT ![k] = "refused"]
         \/ at[k] = "registered" /\ at' = [at EXCEPT ![k] = "pooled"]
         \/ at[k] = "ended" /\ at' = [at EXCEPT ![k] = "called"]
  BY DEF NInv, TypeOK, SubmitRefused, PoolJob, Callback, Moves, lifeVars
<1>2. UNCHANGED <<mState, mFault, counters, tables, label, lifeVars>>
  BY DEF SubmitRefused, PoolJob, Callback
<1>3. DepthExact'
  BY <1>1, <1>2, CountSame DEF NInv, counters
<1>4. TypeOK'
  BY <1>1, <1>2 DEF NInv, TypeOK, Places, counters, tables, lifeVars
<1>5. TablesFollowJobs'
  BY <1>1, <1>2 DEF NInv, TablesFollowJobs, tables
<1>6. StateTellsDepth' /\ CrashInv'
  BY <1>2 DEF NInv, StateTellsDepth, CrashInv, HasPool, counters, lifeVars
<1>7. LifeInv'
  BY <1>1, <1>2 DEF NInv, LifeInv, HasPool, Resting, lifeVars
<1> QED
  BY <1>3, <1>4, <1>5, <1>6, <1>7 DEF NInv

LEMMA FaultKeeps ==
    ASSUME NInv, NEW fault \in Faults, InjectFault(fault)
    PROVE  NInv'
<1>1. /\ mState \in {"Offline", "Initializing", "Idle", "Busy", "Overloaded", "Failed"}
      /\ mQueueDepth \in Nat
  BY DEF NInv, TypeOK
<1>2. UNCHANGED <<counters, tables, at, label, lifeVars>>
  BY DEF InjectFault
<1>3. CASE fault = "Crash"
  <2>1. mState' = "Failed" /\ mFault' = "Crash"
    BY <1>3 DEF InjectFault
  <2>2. TypeOK'
    BY <1>2, <2>1 DEF NInv, TypeOK, Faults, counters, tables, lifeVars
  <2>3. StateTellsDepth' /\ CrashInv'
    BY <2>1 DEF StateTellsDepth, CrashInv
  <2>4. DepthExact' /\ TablesFollowJobs' /\ LifeInv'
    BY <1>2 DEF NInv, DepthExact, Counted, TablesFollowJobs, LifeInv, HasPool,
                counters, tables, lifeVars
  <2> QED
    BY <2>2, <2>3, <2>4 DEF NInv
<1>4. CASE fault = "None" /\ mState = "Failed"
  <2>1. mState' = Resolved("Recovering", mQueueDepth) /\ mFault' = "None"
    BY <1>4 DEF InjectFault, updateState
  <2>2. Tells(mState', mQueueDepth) /\ mState' \in {"Idle", "Busy", "Overloaded"}
    BY <1>1, <2>1, ResolvedTells
  <2>3. TypeOK'
    BY <1>2, <2>1, <2>2 DEF NInv, TypeOK, Faults, counters, tables, lifeVars
  <2>4. StateTellsDepth' /\ CrashInv'
    BY <1>2, <2>1, <2>2 DEF StateTellsDepth, CrashInv, counters
  <2>5. DepthExact' /\ TablesFollowJobs' /\ LifeInv'
    BY <1>2 DEF NInv, DepthExact, Counted, TablesFollowJobs, LifeInv, HasPool,
                counters, tables, lifeVars
  <2> QED
    BY <2>3, <2>4, <2>5 DEF NInv
<1>5. CASE fault # "Crash" /\ ~(fault = "None" /\ mState = "Failed")
  <2>1. mState' = mState /\ mFault' = fault
    BY <1>5 DEF InjectFault
  <2>2. TypeOK'
    BY <1>2, <2>1 DEF NInv, TypeOK, counters, tables, lifeVars
  <2>3. StateTellsDepth' /\ CrashInv'
    BY <1>2, <1>5, <2>1 DEF NInv, StateTellsDepth, CrashInv, HasPool, counters, lifeVars
  <2>4. DepthExact' /\ TablesFollowJobs' /\ LifeInv'
    BY <1>2 DEF NInv, DepthExact, Counted, TablesFollowJobs, LifeInv, HasPool,
                counters, tables, lifeVars
  <2> QED
    BY <2>2, <2>3, <2>4 DEF NInv
<1> QED
  BY <1>3, <1>4, <1>5

(* start() and stop(): with the pool the last job and the last count go.   *)
LEMMA LifeKeeps ==
    ASSUME NInv, StartCall \/ StartReady \/ StopCall \/ StopReturn
    PROVE  NInv'
<1>1. UNCHANGED <<mFault, counters, tables, at, label>>
  BY DEF StartCall, StartReady, StopCall, StopReturn
<1>2. DepthExact' /\ TablesFollowJobs'
  BY <1>1 DEF NInv, DepthExact, Counted, TablesFollowJobs, counters, tables
<1>3. CASE StartCall
  <2>1. TypeOK'
    <3>1. starts' \in 0..MaxStarts
      BY <1>3, NodeAssumption DEF NInv, TypeOK, StartCall
    <3>2. mShutdown' \in BOOLEAN
      BY <1>3 DEF StartCall
    <3> QED
      BY <1>1, <1>3, <3>1, <3>2 DEF NInv, TypeOK, StartCall, counters, tables
  <2>2. StateTellsDepth' /\ CrashInv' /\ LifeInv'
    BY <1>1, <1>3 DEF NInv, StateTellsDepth, CrashInv, LifeInv, HasPool, StartCall
  <2> QED
    BY <1>2, <2>1, <2>2 DEF NInv
<1>4. CASE StartReady
  <2>1. TypeOK'
    BY <1>1, <1>4 DEF NInv, TypeOK, StartReady, counters, tables
  <2>2. \A j \in Jobs : at[j] \in Resting
    BY <1>4 DEF NInv, LifeInv, HasPool, StartReady
  <2>3. mQueueDepth = 0
    <3>1. Counted = {}
      BY <2>2 DEF Counted, Resting
    <3> QED
      BY <3>1, FS_EmptySet DEF NInv, DepthExact
  <2>4. StateTellsDepth' /\ CrashInv' /\ LifeInv'
    BY <1>1, <1>4, <2>2, <2>3, NodeAssumption
       DEF StateTellsDepth, Tells, CrashInv, LifeInv, HasPool, StartReady, counters
  <2> QED
    BY <1>2, <2>1, <2>4 DEF NInv
<1>5. CASE StopCall
  <2>1. TypeOK'
    BY <1>1, <1>5 DEF NInv, TypeOK, StopCall, counters, tables
  <2>2. StateTellsDepth' /\ CrashInv' /\ LifeInv'
    BY <1>1, <1>5 DEF NInv, StateTellsDepth, CrashInv, LifeInv, HasPool, StopCall, counters
  <2> QED
    BY <1>2, <2>1, <2>2 DEF NInv
<1>6. CASE StopReturn
  <2>1. TypeOK'
    BY <1>1, <1>6 DEF NInv, TypeOK, StopReturn, counters, tables
  <2>2. \A j \in Jobs : at[j] \in Resting
    BY <1>6 DEF NInv, TypeOK, LifeInv, StopReturn, PoolDrained, Places, Resting
  <2>3. StateTellsDepth' /\ CrashInv' /\ LifeInv'
    BY <1>1, <1>6, <2>2 DEF StateTellsDepth, CrashInv, LifeInv, HasPool, StopReturn
  <2> QED
    BY <1>2, <2>1, <2>3 DEF NInv
<1> QED
  BY <1>3, <1>4, <1>5, <1>6

-----------------------------------------------------------------------------

LEMMA InitNInv == Init => NInv
<1> SUFFICES ASSUME Init PROVE NInv
  OBVIOUS
<1>1. TypeOK
  <2>1. starts \in 0..MaxStarts /\ label \in [Jobs -> Priorities]
    BY NodeAssumption DEF Init
  <2>2. mShutdown \in BOOLEAN
    BY DEF Init
  <2>3. mPriorityOverrides \in [Jobs -> Priorities \cup {NoOverride}]
    BY DEF Init
  <2> QED
    BY <2>1, <2>2, <2>3 DEF Init, TypeOK, Faults, Places
<1>2. DepthExact
  <2>1. Counted = {}
    BY DEF Init, Counted
  <2> QED
    BY <2>1, FS_EmptySet DEF Init, DepthExact
<1>3. TablesFollowJobs /\ StateTellsDepth /\ LifeInv /\ CrashInv
  BY DEF Init, TablesFollowJobs, StateTellsDepth, LifeInv, CrashInv, HasPool, Resting
<1> QED
  BY <1>1, <1>2, <1>3 DEF NInv

LEMMA NextKeepsNInv == NInv /\ [Next]_vars => NInv'
<1> SUFFICES ASSUME NInv, [Next]_vars PROVE NInv'
  OBVIOUS
<1>1. ASSUME NEW k \in Jobs, Caller(k) \/ PoolJob(k) \/ Work(k) PROVE NInv'
  BY <1>1, RegisterKeeps, CancelKeeps, ReprioritiseKeeps, ExecuteCancelledKeeps,
     ExecuteKeeps, FinishKeeps, MovesKeep DEF Caller, SubmitCode, Work
<1>2. CASE UNCHANGED vars
  BY <1>2 DEF vars, counters, tables, lifeVars, NInv, TypeOK, DepthExact, Counted,
             TablesFollowJobs, StateTellsDepth, LifeInv, CrashInv, HasPool
<1> QED
  BY <1>1, <1>2, FaultKeeps, LifeKeeps DEF Next

(* The inductive invariant of the node.                                    *)
THEOREM NodeInvariant == Spec => []NInv
BY InitNInv, NextKeepsNInv, PTL DEF Spec

(* Every variable keeps its type; no unsigned counter of the node wraps.   *)
THEOREM NodeTypeCorrect == Spec => []TypeOK
<1>1. NInv => TypeOK
  BY DEF NInv
<1> QED
  BY <1>1, NodeInvariant, PTL

(* mQueueDepth is the number of jobs that wait or run, for any number of   *)
(* jobs and workers, any thresholds, faults and restarts.                  *)
THEOREM DepthIsExact == Spec => []DepthExact
<1>1. NInv => DepthExact
  BY DEF NInv
<1> QED
  BY <1>1, NodeInvariant, PTL

(* mPendingSlots and mPriorityOverrides list what they should, no more.    *)
THEOREM TablesAreTidy == Spec => []TablesFollowJobs
<1>1. NInv => TablesFollowJobs
  BY DEF NInv
<1> QED
  BY <1>1, NodeInvariant, PTL

(* The state that policies read tells the depth, for any two thresholds.   *)
THEOREM StateIsTrue == Spec => []StateTellsDepth
<1>1. NInv => StateTellsDepth
  BY DEF NInv
<1> QED
  BY <1>1, NodeInvariant, PTL

(* A node that stop() has stopped has nothing left of any job.             *)
THEOREM StopIsClean == Spec => []StopLeavesNothing
<1>1. NInv => StopLeavesNothing
  <2> SUFFICES ASSUME NInv, life = "stopped" PROVE StopLeavesNothing
    BY DEF StopLeavesNothing
  <2>1. \A j \in Jobs : at[j] \in Resting
    BY DEF NInv, LifeInv, HasPool
  <2>2. Counted = {}
    BY <2>1 DEF Counted, Resting
  <2> QED
    BY <2>1, <2>2, FS_EmptySet DEF NInv, DepthExact, StopLeavesNothing, Resting
<1> QED
  BY <1>1, NodeInvariant, PTL

-----------------------------------------------------------------------------
(* The node implements the contract.                                       *)

(* A step that moves job k only changes the task of k only.                *)
LEMMA TaskMoves ==
    ASSUME NEW k \in Jobs, NEW to, Task(k)' = to,
           \A j \in Jobs \ {k} : at'[j] = at[j] /\ mPendingSlots'[j] = mPendingSlots[j]
    PROVE  [j \in Jobs |-> Task(j)]' = [[j \in Jobs |-> Task(j)] EXCEPT ![k] = to]
<1>1. \A j \in Jobs \ {k} : Task(j)' = Task(j)
  BY DEF Task
<1> QED
  BY <1>1

(* One that leaves the job's task alone stutters.                          *)
LEMMA TaskStays ==
    ASSUME \A j \in Jobs : Task(j)' = Task(j)
    PROVE  UNCHANGED [j \in Jobs |-> Task(j)]
OBVIOUS

LEMMA JobStepImplements ==
    ASSUME NInv, NEW k \in Jobs, Caller(k) \/ PoolJob(k) \/ Work(k)
    PROVE  [Contract!Next]_([j \in Jobs |-> Task(j)])
<1>0. /\ at \in [Jobs -> Places]
      /\ mPendingSlots \in [Jobs -> {"Queued", "Running", "erased"}]
      /\ mPendingSlots[k] = "Queued" => at[k] \in {"registered", "pooled"}
  BY DEF NInv, TypeOK, TablesFollowJobs
<1>1. ASSUME at' = at, mPendingSlots' = mPendingSlots
      PROVE  UNCHANGED [j \in Jobs |-> Task(j)]
  BY <1>1, TaskStays DEF Task
<1>2. CASE SubmitRegister(k)
  <2>1. Task(k) = "none" /\ Task(k)' = "queued"
    BY <1>0, <1>2 DEF Task, SubmitRegister, Moves
  <2>2. \A j \in Jobs \ {k} : at'[j] = at[j] /\ mPendingSlots'[j] = mPendingSlots[j]
    BY <1>0, <1>2 DEF SubmitRegister, Moves
  <2> QED
    BY <2>1, <2>2, TaskMoves DEF Contract!Next, Contract!Accept, Contract!Becomes
<1>3. CASE Cancel(k)
  <2>1. Task(k) = "queued" /\ Task(k)' = "cancelled"
    BY <1>0, <1>3 DEF Task, Cancel, HandleKnown
  <2>2. \A j \in Jobs \ {k} : at'[j] = at[j] /\ mPendingSlots'[j] = mPendingSlots[j]
    BY <1>0, <1>3 DEF Cancel
  <2> QED
    BY <2>1, <2>2, TaskMoves DEF Contract!Next, Contract!Cancel, Contract!Becomes
<1>4. CASE Execute(k)
  <2>1. Task(k) = "queued" /\ Task(k)' = "running"
    BY <1>0, <1>4 DEF Task, Execute, Run, Moves
  <2>2. \A j \in Jobs \ {k} : at'[j] = at[j] /\ mPendingSlots'[j] = mPendingSlots[j]
    BY <1>0, <1>4 DEF Execute, Run, Moves
  <2> QED
    BY <2>1, <2>2, TaskMoves DEF Contract!Next, Contract!Start, Contract!Becomes
<1>5. CASE Callback(k)
  <2>1. Task(k) = "running" /\ Task(k)' = "called"
    BY <1>0, <1>5 DEF Task, Callback, Moves
  <2>2. \A j \in Jobs \ {k} : at'[j] = at[j] /\ mPendingSlots'[j] = mPendingSlots[j]
    BY <1>0, <1>5 DEF Callback, Moves, tables
  <2> QED
    BY <2>1, <2>2, TaskMoves DEF Contract!Next, Contract!Callback, Contract!Becomes
<1>6. CASE SubmitRefused(k) \/ PoolJob(k) \/ ExecuteCancelled(k) \/ Finish(k)
  <2>1. Task(k)' = Task(k)
    BY <1>0, <1>6 DEF Task, SubmitRefused, PoolJob, ExecuteCancelled, Finish, Moves, tables
  <2>2. \A j \in Jobs \ {k} : at'[j] = at[j] /\ mPendingSlots'[j] = mPendingSlots[j]
    BY <1>0, <1>6 DEF SubmitRefused, PoolJob, ExecuteCancelled, Finish, Moves, tables
  <2>3. \A j \in Jobs \ {k} : Task(j)' = Task(j)
    BY <2>2 DEF Task
  <2> QED
    BY <2>1, <2>3, TaskStays
<1>7. CASE \E p \in 0..(Prio[k] - 1) : Reprioritise(k, p)
  BY <1>1, <1>7 DEF Reprioritise
<1> QED
  BY <1>2, <1>3, <1>4, <1>5, <1>6, <1>7 DEF Caller, SubmitCode, Work

LEMMA NodeStepImplements ==
    NInv /\ [Next]_vars => [Contract!Next]_([j \in Jobs |-> Task(j)])
<1> SUFFICES ASSUME NInv, [Next]_vars
             PROVE  [Contract!Next]_([j \in Jobs |-> Task(j)])
  OBVIOUS
<1>1. ASSUME at' = at, mPendingSlots' = mPendingSlots
      PROVE  UNCHANGED [j \in Jobs |-> Task(j)]
  BY <1>1, TaskStays DEF Task
<1>2. CASE \/ \E fault \in Faults : InjectFault(fault)
           \/ StartCall \/ StartReady \/ StopCall \/ StopReturn
           \/ UNCHANGED vars
  BY <1>1, <1>2 DEF InjectFault, StartCall, StartReady, StopCall, StopReturn, vars, tables
<1> QED
  BY <1>2, JobStepImplements DEF Next

(* SimulatedNode implements the contract of INode, for every value of the  *)
(* constants: nothing that Balancer may rely on is broken by its races.    *)
THEOREM NodeImplementsContract == Spec => ImplementsContract
<1>1. Init => Contract!Init
  BY DEF Init, Contract!Init, Task
<1> QED
  BY <1>1, NodeStepImplements, NodeInvariant, PTL DEF Spec, ImplementsContract, Contract!Spec
=============================================================================
