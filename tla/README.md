# fatp-balancer in TLA+

This directory specifies and verifies the job balancer of this repository: the
threads of `Balancer`, the holding queue, admission control, the drain gate of
a policy switch, the simulated node under faults and restarts, the supervisor that
turns telemetry into alerts and alerts into modes, and what policies, cost model and
aging make of a stream of jobs.

- `*.tla`: the specifications, the modules `MC*` that fix constants for TLC, and the
  modules `*Proofs` whose theorems TLAPS checks;
- `*.cfg`: one TLC configuration per run;
- `PROJECT.json`: components, runs, mutants, hazards, findings, theorems, and the
  map from every definition to the source lines it models.

Run a configuration with `tlc -config MCBalancerAging.cfg MCBalancer`, check the
proofs of a module with `tlapm BalancerProofs.tla`.

## 1. The system

A `Balancer` accepts jobs from any number of threads, chooses a node for each with
an exchangeable policy, and sees every accepted job to its end. Critical and High
jobs that meet a saturated cluster wait in a holding queue.

| Component | State | Operations | Talks to |
|---|---|---|---|
| `Balancer` | in-flight count, drain gate, active policy, two routing maps, registration state per dispatch, two threads | `submit`, `cancel`, `switchPolicy`, `setAgingEnabled`, destructor; drain loop, aging loop, completion callbacks | all of the others |
| `HoldingQueue` | two deques, size, sequence number | `enqueue`, `tryDequeue`, `remove`, `requeue`, `size`, `empty` | called by `Balancer` only |
| `AdmissionControl`, `TokenBucket` | four buckets, two mode flags, slot counter, rejection counters | `evaluate`, `releaseFromHoldingQueue`, `setShedBulk`, `setAdmissionStrict` | called by `submit`, the drain thread, `cancel`, `FeatureSupervisor` |
| `AgingEngine` | tracked jobs with current priority and deadline | `track`, `untrack`, `tick` | under `Balancer::mAgingMutex` |
| `INode` / `SimulatedNode` | SlotMap of queued jobs, thread pool, band counters, state machine | `submit`, `cancel`, `reprioritise`, `metrics`, `start`, `stop`, `injectFault` | calls the completion callback |
| `FaultInjector` | the current fault | `inject`, `clear` | read by `SimulatedNode` |
| policies (8), `PolicyFactory`, `ClusterView` | round-robin cursor, rebuilt views | `makePolicy`, `selectNode` | read metrics and `CostModel` |
| `NodeState` table | none | `nodeAcceptsPriority` | policies, nodes, saturation test |
| `CostModel`, `AffinityMatrix`, `DegradationCurve` | averages by node, by (node, class) and by depth; a toggle; a file | `update`, `predict`, `save`, `load`, `reset`, `setDegradationEnabled` | updated at completion, asked by policies |
| `FeatureSupervisor`, `BalancerFeatures` | feature graph, active alert | `applyChanges`, `setFeatureEnabled`, `updateAffinityWarm`, the observer | sets the policy and modes of `Balancer` and `AdmissionControl` |
| `TelemetryAdvisor` | none | `evaluate`, `determineAlert` | reads nodes' metrics, calls `FeatureSupervisor` |
| `NNAdvisor` | none; a file | `evaluate` | reads what an external network inferred from a snapshot |
| `SimulatedCluster`, wasm, demo, tools | the loop that ticks; the snapshot | `tick`, `captureSnapshot`, `pushNNAlert` | harness around the others |

### How they interact

`submit` counts the job, reads the gate, checks the deadline, takes a metrics
snapshot and asks `AdmissionControl`. Then one of three things happens: an error
return that gives the count back; the job enters the holding queue, with a holding
slot; or the policy picks a node, the node accepts, and the job is registered (routing
maps, aging engine, publication). The node runs the job on a thread of its own and
may finish before registration ends; the callback then only leaves a record that the
publication picks up. Every end of a job goes through `finalizeJobLifecycle`, which
untracks, unroutes and gives the count back, in this order and in three critical
sections. The drain thread moves held jobs to nodes, or drops them. The aging thread
cancels jobs whose deadline has passed. `switchPolicy` and the destructor close the
gate and wait for the count to reach zero.

Beside this flow runs a control loop. A tick reads the nodes' metrics one after the
other, `TelemetryAdvisor` makes an alert of them, and `FeatureSupervisor` has its
feature manager replace the last alert by the new one with all that it entails. An
observer, outside of the manager's lock, hands the changes on to the balancer: a policy
switch, which waits for the jobs in flight, and toggles of aging, degradation curve,
shedding and strict admission. An external network may infer the alert from a snapshot
file instead, and users push alerts, set features and switch policies by hand.

And a loop that learns: each completion updates three averages in the `CostModel`, from
which the policies predict the next jobs' costs. The model is saved to a file and
loaded again, possibly by another process.

### What is hard

- **Who owns a job.** Between `submit`, queue, drain thread, two kinds of canceller,
  node, early-completion record and finaliser a job changes hands without a lock that
  covers the exchange. It must not be lost or owned twice.
- **Two counters in two objects.** `mSubmittedCount` over all error returns, drops,
  cancels and completions; the slot counter of `AdmissionControl` against the
  holding queue, which `Balancer` alone keeps in step.
- **Zero as proof.** `switchPolicy` and the destructor act on having seen a zero.
- **Order of effects.** The node's callback against registration; untrack and unroute
  against a late insert; the aging thread's lookup against its `cancel`.
- **Memory orders.** The gate is a store-then-load protocol written with
  release/acquire.
- **Lock-free reservation and lazy refill** under concurrent `evaluate` calls.
- **Three places that tell the mode.** The alert that is shown, the features that are
  enabled and what the balancer does are updated one after the other, by any caller.
- **Decisions on readings that have aged**, and through a snapshot that keeps less than
  the metrics did.
- **A model that must survive its file**: a save that truncates first and writes outside of
  the lock, a load that may meet any file, learning that goes on meanwhile.
- **Selection by numbers.** Ties, cold averages, clamped indices, biases and fallbacks
  decide where jobs pile up.
- **Scans and clocks.** A promotion or an expiry that falls between two scans.

`PROJECT.json` lists each of these at its line, with the properties that would catch
it, and those not yet covered.

## 2. Modules

```
HoldingSlots          atomic bounded slot counter (abstract)
  ^        ^
  |        +--- AdmissionControl     implements it with a CAS loop (AtomicSlots)
HoldingQueue          the two-band queue, as operators
  ^
Balancer              composes queue, slots, nodes, aging, cancel, switch, destructor
  |   +--- BalancerInvariant --- BalancerProofs        (with HoldingQueueProofs)
  +------> JobLifecycle              implemented by Balancer (ImplementsLifecycle)
  +------> NodeContract              followed by Balancer (UsesNodesByContract)
             ^
SimulatedNode+                       implements it (ImplementsContract)
      +--- SimulatedNodeProofs

DrainGate             what a policy switch promises (abstract)
  ^ ^ ^
  | | +--- Balancer                  implements it, with the jobs behind the gate
  | +----- Supervision               implements it, with as many as have passed it
  +------- PolicySwitch              implements it with counter, flag and mutexes
               +--- PolicySwitchProofs             (ImplementsGate in all three)

AdmissionControl      --- AdmissionProofs

FeatureGraph + PolicyFactory <--- FeatureSupervisor <--+
NodeState <--- ClusterTelemetry <----------------------+--- Supervision
                                                                +--- SupervisionProofs

CostModel + NodeState + PolicyFactory <--- SchedulingPolicies --- PolicyProofs
                                                   ^                  ^
AgingEngine <--- Scheduling -----------------------+                  |
                     ^                                                |
                     +--- SchedulingProofs ---------------------------+
```

An arrow points at what a module extends; `SimulatedNode` extends `NodeState` too.

**HoldingSlots.** `mHoldingQueueDepth` and its two operations, as atomic steps. A
release is unguarded as in the code; the depth is an integer, so that an excess
release shows as a negative number where the `uint32_t` would wrap.

**HoldingQueue.** Each method of the class runs under its mutex and is one operator.
An entry is the job it holds; a job stands for its holding handle, since sequence
numbers are unique. `requeue` appends, as the code does, and drops the entry when the
queue is full, since every caller discards the result.

**Balancer.** One action per atomic access to shared state, with the thread-local code
around it:

| Thread | State | Code |
|---|---|---|
| `submit(j)` | `sub[j]` | increment, gate, deadline/admission, reserve, enqueue or select, node submit, each return |
| registration of `j` | `reg[j]`, `early[j]` | `registerDispatchedJob`: route, track, publish |
| node running `j` | `task[j]` | `INode` contract and the completion callback |
| finalisation of `j` | `fin[j]`, `finalized[j]` | `finalizeJobLifecycle`: untrack, erase, decrement |
| drain thread | `drainPc`, `drainJob` | `holdingDrainLoop` |
| `cancel`, by a user or the aging thread | `canPc`, `canJob` | `cancel` |
| aging thread | `agingPc`, `expired` | `agingLoop`, `AgingEngine::tick` |
| `switchPolicy` | `switchPc` | four phases |
| destructor | `dtorPc` | wait, stop and join aging, stop and join drain |

Abstractions, and why they hide nothing:

- *Which* node is chosen and what the metrics say is left open: saturated or not,
  selected or not, accepted or refused are free choices at each point, so every
  outcome that some metrics would give is explored.
- Steps that only read, or only touch data of their thread, are merged with the next
  shared access. The deadline test of `submit` and of the drain thread is merged
  with the step it guards: a deadline that passes in between is a deadline that
  passes right after. The aging thread's two lookups before `INode::cancel`
  are merged for the same reason.
- `registerDispatchedJob` reads `mAgingEnabled` and then tracks the job; a toggle in
  between commutes with the track, which nothing but the aging thread reads.
- A promotion (`AgedEvent`) ends in `INode::reprioritise`, which changes nothing that
  the module has; it is left out.
- Node handles are unique (see the hazards), and a job is submitted once.
- The two aging toggles are called one after the other.
- Notifications of the drain thread's condition variable have no effect of their own:
  its wait is bounded by `drainInterval` and returns at once on a non-empty queue. A
  wake with nothing to do is a stuttering step.
- Public calls begin only while the object is alive, and the destructor only when none
  is under way, as for any C++ object.

**JobLifecycle.** The promise of `Balancer` in five actions: a submission is routed or
rejected, an accepted job finishes once, and the policy changes only while no job is
between gate and end. `Balancer` refines it with `phase` computed from `sub` and `fin`.

**NodeContract.** What passes between `Balancer` and its nodes about one job: it is taken
once, and then either starts and is called back once, or is cancelled before its start
and is never called back. The code decides here, not the words of `INode`, which promise one
callback for every job (`INode.h:80`): a
cancelled job's callback is not invoked by `SimulatedNode`, and `Balancer::cancel`
finalises the job itself. The module is checked from both sides, with
`Balancer`'s `task` as it stands and with `SimulatedNode!Task` computed from the place
of the job's code and its pending slot.

**SimulatedNode.** One action per critical section of `mMutex`: `submit`'s registration,
`cancel`, `reprioritise`, the start of `executeJob` (which meets the slot, or
finds it erased), its end, `injectFault`, the two halves of `start` and of `stop`. Two
actions lie outside: `PoolJob` (the hand-over to the thread pool, after which the caller
has the handle) and `Callback`. `at[j]` is the place of the code that has job `j`,
`label[j]` the priority in the task's copy of it.

- Any pooled job may be the next to run, so the pool's three priorities do not matter.
- `cancel` and `reprioritise` with an unknown, stale or running job's handle return an error
  and change nothing: stuttering steps. `Reprioritise` goes to any better band, which
  includes what `AgingEngine` sends.
- `FastHashMap::insert` is not part of this repository; whether it replaces an existing
  override is left open, and both outcomes are explored.
- A fault does not orphan what is queued: the workers run it. `FaultInjector.h:34` and
  `:60` say that a crash orphans queued jobs; the code never did, and
  `Balancer` depends on that, since an orphaned job would block `switchPolicy` and the
  destructor. A mutant that orphans them violates `TakenJobsEnd`.
- `Recovering` is never observed: `injectFault` resolves it in the same critical section,
  against the comment at `SimulatedNode.h:215-218`. `TypeOK` leaves the state out.
- The environment: `stop` begins only while no `submit` has registered a job that is not
  yet in the pool, since it resets the pool that `submit` uses without the lock; no fault is
  injected while `start` runs. The harness keeps both rules (see the hazards).

**DrainGate.** The promise of `switchPolicy` in three actions: someone enters, someone leaves,
and the policy is exchanged while nobody is behind the gate. Three modules look at the gate
from different distances, and `ImplementsGate` ties each to this one: in `PolicySwitch` the
entrants are the threads of `submit`, and the exchange holds under the memory
orders of `SeqCst`; in `Balancer` they are the jobs, from the gate to their end, held jobs
included; `Supervision` knows only how many have passed the gate and not ended. So the coarser modules
may take the switch for what the finer one shows it to be.

**PolicySwitch.** `Balancer` is sequentially consistent; this module puts a store buffer
between a switching thread and memory, which is what `memory_order_release` permits.
Locked instructions need an empty buffer: `submit`'s `fetch_add` and the mutex
operations. `SeqCst` says whether a store is visible before the thread's next load. A
job behind the gate may ask the policy several times, as a held job does.

**AdmissionControl.** `evaluate` step by step for concurrent callers: bucket under
mutex, flag load, counter load, exchange (which may fail spuriously). Tokens are
counted in parts of a token so that a refill is exact; the `float` of the code rounds.
Ghost variables: `slots` counts the callers that own a slot, `window[b]` the grants of
bucket `b` since an arbitrary moment, `constant[t]` the modes in force since `t` called.

**NodeState.** The states of a node and `nodeAcceptsPriority`, which the nodes and the
policies share.

**PolicyFactory.** `makePolicy`: a policy is a record of its kind and its children. Unknown
names, `AffinityRouting` without a model and an empty chain are `RoundRobin`; a composite
within a composite gets the default chain.

**FeatureGraph.** The features, exclusive groups and `Entails` edges that `buildGraph`
declares. `FeatureManager` is a library that this repository does not hold; its
operations are modelled as `FeatureSupervisor.h`, the supervisor's tests and
`test_feature_manager_cascade_probe.cpp` rely on it, `replace` in its strictest reading.

**ClusterTelemetry.** `clusterMetrics`, `captureSnapshot`, `toClusterMetrics` and
`determineAlert` over readings, the state and median latency of each node. The
latency is 0 as long as a node has completed no job, which the code tells apart in the
same way. The snapshot's fraction of overloaded nodes is a whole number of parts,
rounded down; `FractionUnit = 99` makes one half inexact, as floats make other fractions.

**FeatureSupervisor.** `applyChanges` in its steps: compare with `mActiveAlert`, which no
lock protects; commit in the manager; hand on each change, in any order, the manager's
lock released; wait in `switchPolicy` until nothing is counted; store `mActiveAlert`.
`setFeatureEnabled` and `updateAffinityWarm` go the same way. `setFeatureEnabled` is
called with features that no alert entails, the use its comment names. Two ghost
variables: `manual` (a user has switched the policy since the last alert) and `curveSet`
(the degradation curve was ever set: the `CostModel` starts with it on, the graph with its feature off).
Of `submit` it keeps what a switch can tell: `SubmitJob` counts, and a later step passes the
gate or finds it closed and gives the count back, so that a refused submission, too, delays a
switch for a moment.

**Supervision.** The control loop: nodes whose state and latency change at any moment,
ticks that sample them one by one, the inference file, pushed alerts, feature toggles and
manual switches. The network is replaced by the rule it is trained on, applied to a
snapshot of an earlier moment, and by files that `NNAdvisor` must reject. `pushNNAlert`
does not check its argument; it is called here with alert names and unknown ones, not with the
name of some other feature.

**CostModel.** The three averages with their warm-up, clamped indices, `predict`, `update`, the
degradation toggle; `save` in three steps (truncate, collect under the lock, write),
`load` in two (read, commit or reset). A file is missing, incomplete, foreign or of a model. A
float is a whole number of parts of `Unit`, and what an operation rounds away is dropped.
JSON writes a whole number without a point, and `load` accepts both kinds. That a number
with a point reads back to the last bit is assumed of JsonLite, which is a library outside of
this repository; `RestoresOneModel` rests on it. The ghost
`of` remembers the model that a file was saved from.

**AgingEngine.** `track`, `untrack` and `tick` on a clock: thresholds for each band, the
ceiling, expiry before promotion, one band for each scan.

**SchedulingPolicies.** `selectNode` of the eight policies. The two errors are one, since
`Balancer` makes the same of both. `AffinityRouting` divides by an affinity;
the quotients are compared as products. The factory never gives a node another weight
than 1. In a composite, the cursors of `RoundRobin` children are not tracked:
the theorem `FirstPolicyDecides` says why that is enough for all children but the first, and
the default chain begins with another policy.

**Scheduling.** The flow of a job with real metrics: a submission selects and dispatches in
one step, a completion teaches the model, the aging thread scans, the model is saved,
loaded, lost and restarted meanwhile. What happens between the steps of a submission is
the matter of `Balancer`, where selection is a free choice. A *setup* names a policy and
the activities that go on beside it, so that the product of all of them need not be
enumerated. The node's notes in its own copy of the job do not reach the callback's
copy, so the depth at dispatch is 0 in everything the model learns (see below).

## 3. Runs

| Run | Constants | Shows |
|---|---|---|
| `balancer_aging` | 2 jobs (Critical with deadline, High), 1 slot, 1 retry, `cancel`, aging toggles, destructor | type, exact counts and slots, one holder per job, single finalisation, no residue, safe destruction; nodes are used by `NodeContract`; `Balancer` implements `JobLifecycle` |
| `balancer_live` | 2 jobs, 2 slots, unlimited retries, `switchPolicy`, destructor, fairness | quiescent policy swap; every job ends, switches and destruction complete |
| `balancer_fifo` (violated) | 2 High jobs | a retried job falls behind a later one |
| `balancer_notfound` (violated) | 2 High jobs, `cancel` | NotFound for a live held job |
| `policy_switch_sc` | 2 submitters x 2 jobs, 2 switchers, `SeqCst` | one policy per job; implements `DrainGate`; all switches return |
| `policy_switch_tso` (violated) | the same with store buffers | a job routed by two policies |
| `admission` | 2 threads, High/Normal/Bulk, Bulk at 1 token/s (2 parts), 1 slot, 2 ticks | rate bound, exact depth, modes obeyed, atomic slots |
| `node` | jobs Critical, High, Normal; 2 workers, overload at 2, recovery at 0, 2 starts, all faults, fairness | exact depth, tables follow jobs, state tells depth, clean stop; implements `NodeContract`; every job taken ends, `stop` returns |
| `node_bands` (violated) | the same, 1 start | a promoted job leaves a count in its old band |
| `supervision` | 1 caller, 2 nodes, 2 changes of nodes, 2 calls of users, all kinds of calls, fairness | alert, features and balancer agree between calls; a snapshot leads to the alert of the metrics; the alert settles, every call returns |
| `supervision_race` (violated) | 2 callers that push alerts | they end up telling different things |
| `scheduling` | 2 nodes, 2 jobs, 3 kinds of job, 8 setups, 2 observations, time up to 6 | the averages count alike; a load restores one saved model; no known job goes to a dominated node; aging is on time |

**Bounds.** Two jobs suffice for the cases of interest in `Balancer`: every conflict in the
code is between threads over *one* job, or between two jobs over a slot, the queue order or
the count. One slot makes the second job meet a full reservation, two let both wait in
the queue. One retry reaches the limit on the next failure. No run calls `cancel` and
`switchPolicy` together: the proofs below cover every set of calls. In `admission`, one
tick is half a token, so both the partial and the full refill occur, and the window opens
at any of three moments; two threads are enough for a lost update on the counter. In
`node`, three jobs and a threshold of two let the node be overloaded, refuse the Normal
job, take the High one and recover under hysteresis; two workers leave a job in the
pool while two run; the second start comes after a crash, a partition or a clean stop.
Nothing obliges a stopped node to start again, so deadlock is not checked there.

In `supervision`, two nodes are enough for each alert: one of two failed is above the
quarter that makes a fault, one overloaded is above the quarter that makes overload,
and the latency is high or unknown. Two changes fall before, between and after the readings
of a tick; two calls of users let one transition follow another, or a manual switch follow
an alert. One caller is how the demo runs: a browser has one thread. What two
callers do is `supervision_race`, where three alerts in five calls are enough. One submission
at a time is counted: it may be at the gate, behind it or refused while a switch begins,
waits or ends. More of them make the same switch wait longer.

In `scheduling`, the two nodes share the last row of the matrix, and one kind of job has a
class beyond the last column, so that clamping matters; node 1 is fast for one class and
slow for the other; one kind has a deadline, one no known cost. An average is warm
after one observation, a bucket after two: two observations show every combination of
cold and warm. Six units of time let a job of the lowest band reach the ceiling, and
let the deadline of 4 pass. The clock and the observations are bounded, so
deadlock is not checked there.

Violated runs are disagreements between the code and what it says of itself; they are
quoted in `PROJECT.json` under `findings`. In `balancer_fifo`, `balancer_notfound` and
`supervision_race` the users may stop calling, so deadlock is not checked there.

**Fairness.** `FairSpec` asks for: weak fairness of the steps that a job's own threads
owe (`JobSteps`: submit code, registration, node, finalisation), of the drain thread,
of a running `cancel`, of the aging thread, of `switchPolicy` and of the destructor.
This is operating system scheduling of runnable threads, of nodes that end their
jobs (the `INode` contract), and of sleeping loops that poll. Strong fairness of a held
job's selection and dispatch states the one assumption on the cluster: a job offered
again and again is accepted in the end. Without it a held job may wait for ever, and
with it `switchPolicy` and the destructor, since they wait for held jobs too. No user
call is fair. `SimulatedNode` has weak fairness of the
threads that owe a step: the `submit` that has registered its job, each job's worker (a
payload returns), the rest of `start`, and `stop` once its pool is drained. Cancels,
faults and new starts are never obliged. In `PolicySwitch`, submitters are never obliged to submit and submit
finitely often: a `switchPolicy` may starve behind an endless stream of submitters that
count themselves, are refused and leave, since the count need never be seen at zero.
`Supervision` has weak fairness of the tick, which the demo's frame loop repeats for ever,
of a call that is under way, of a submission that has yet to read the gate, and of jobs' ends,
on which a policy switch waits. Changes of nodes, calls of users, files and submissions are
never obliged. Here the bound of `PolicySwitch` is an assumption on the environment: only
finitely many submissions are refused (`<>[][~RefusedAtGate]_vars`). Without it
`CallsReturn` is false, in the model and in the code.

**Known divergences without a run.** The models follow the code in these as well; none has
a run, since each can be read off the lines it names.

- The depth at dispatch: `SimulatedNode.h:270` stores it in the node's copy of the job, but
  the callback takes over the observed cost and the node only (`Balancer.h:629-631`), and
  `predict` is asked before the dispatch. Against `Job.h:226-231` the degradation curve
  learns its first bucket only (theorem `CurveLearnsDepthZeroOnly`).
- All three averages learn the same ratio, and `predict` multiplies them.
- A job of `kUnknownCost`, which is 0, is predicted to cost nothing on every node.
  `ShortestJobFirst`, `EarliestDeadlineFirst` for a job with a deadline, and
  `AffinityRouting` then choose the least id, and `WorkStealing` the least id on its side of
  the threshold, however deep the queues are. `ShortestJobFirst.h` says that with equal costs
  it routes as `LeastLoaded` does.
- `AffinityRouting.h:169-171` divides the prediction, which the affinity has already been
  multiplied into, by the affinity.
- The default chain names `least_loaded` (`BalancerConfig.h:279`), which the factory does not
  know (it is `policy.least_loaded`): the second child is `RoundRobin`. It is never
  asked for a result anyway (theorem `FirstPolicyDecides`).
- `CostModel::load` leaves the model alone when it cannot open the file, where
  `CostModel.h:615` says that the model is then cold; `save` truncates the file before it
  writes; a file with another number of buckets is taken for one that fits.
- `TelemetryAdvisor.h:49` says that the total is `activeNodes + unavailableNodes`; the code
  divides by `knownNodes`, as the comment at the function says.
- `WorkStealing` takes node 0 for no node (`PolicyAssumption` excludes it).
- The snapshot's latency is the mean over all nodes with a median, not over the active ones as
  `TelemetrySnapshot.h:153` says; `SnapshotAgrees` excepts just that.
- `applyChanges` and `pushNNAlert` accept any feature's name. The edges "Requires" that
  `BalancerFeatures.h` documents are not in `buildGraph`. The supervisor does not learn of a
  policy that a user switches to.

## 4. Proofs

All theorems hold for any finite set of jobs, any capacity, retry limit, priorities,
deadlines and set of user calls (`CapacityAssumption`, `PrioAssumption`,
`BalancerAssumption`; the runs evaluate these assumptions).

**`BalancerProofs`.** `CountExact` or `OneHolder` are not inductive: that a decrement
meets a counted job depends on where each thread stands. `BalancerInvariant.IInv` says,
per job,

- `WaitInv`: a job that waits is in exactly one of queue, drain thread's hand, canceller's
  hand, and has neither been sent nor finalised;
- `RegisterInv`: registration follows acceptance, and whoever owes it is at the place in
  its code where it does it;
- `EndInv`: who finalises a job that was sent to a node (callback, publication that finds
  the record, or canceller), and the number of finalisations;
- `ResidueInv`: what is routed, tracked or reported as expired was registered, and leaves
  in the order of the finalisation;

and, for the whole, that a thread has a job in hand exactly when its place says so
(`ThreadInv`), that both counters are cardinalities (`CountInv`, `SlotInv`), the queue
lists its jobs once (`QueueOK`), and what a switch and the destructor may rely on
(`SwitchInv`, `DtorInv`). TLC checked `IInv` before it was proved. There is one lemma per
action, or per group of actions that only move a thread on; `RoomToRequeue` is the
argument that a requeue never meets a full queue: the job in hand still owns a slot, so
the queue is smaller than the slot count. From `IInv` follow `TypeOK`, `CountExact`,
`SlotsExact`, `OneHolder`, `FinalizedOnce`, `NoResidue`, `QuiescentSwap` and
`SafeDestruction`.

Two more theorems of the module are refinements. `Balancer` implements `JobLifecycle`, for the same constants and
assumptions. A step of `submit` changes the phase of one job, by `Route`, `Accept` or
`Reject`, or not at all; only the decrement that ends a finalisation is a `Finish`; the
swap of the policy is a `Swap`, because `SwitchInv` leaves no job between gate and end;
every other step stutters. `IInv` is needed twice: a finalisation begins only for a job
that was not finalised before, so that the phase never goes back, and a job that still
waits is not finalised, so that the swap is quiescent.

`Balancer` uses its nodes by `NodeContract`: the dispatch of
`submit` and the one of the drain loop are the only acceptances, and `IInv` gives that
the job had not been sent before, however often it was offered.

A third, `BalancerIsGate`, follows from the first: entering and leaving the gate are changes
of a job's phase, and the life cycle lets the policy change only between them.

**`SimulatedNodeProofs`.** The invariant adds two facts to the stated properties. `LifeInv`:
outside of `started` and `stopping` no job is under way in the node's code, and a node
that is being stopped has set `mShutdown` and has no `submit` left before the pool. `CrashInv`: a node with the crash fault whose
state is not `Failed` was restarted under it, and since it refuses every submission and
freezes its state, it is `Idle` and empty. Without them `StateTellsDepth` is not
inductive: `updateStateUnlocked` does nothing under a crash, so depth and state could drift.
From it follow type correctness, the exact depth, the tables, the state, the clean stop
and the refinement of `NodeContract`, for any number of jobs, workers and starts and any
two thresholds, in whichever order.

**`HoldingQueueProofs`.** What each queue operation does to the set of held jobs, and that
it keeps the queue free of duplicates.

**`PolicySwitchProofs`.** Type correctness with or without buffers, and `OnePolicy`: under
`SeqCst` no job is routed by two policies, for any number of threads. The invariant:
`mSwitchMutex` admits one thread, the gate is closed or about to be while that thread is
past its store, no submitter is inside once it has seen zero, and a job inside has asked
the active policy only. By the same invariant `DrainProtocolIsGate`: the counter, the flag and the
two mutexes implement `DrainGate`. Without `SeqCst` both are false, as
`policy_switch_tso` shows of the first.

**`AdmissionProofs`.** For any number of threads, any buckets and any flow of time: the
invariant ties every caller's stage to what it has been granted, so that the counter of
`AdmissionControl` is the number of callers that own a slot (`DepthExact`), the modes
in force throughout a call are obeyed (`ModesObeyed`), and the grants in a window are paid for by
the tokens the bucket had and the time since (`RateBound`). The exchange that succeeds is a
`ReserveSlot` of `HoldingSlots`, every other step of the loop a stutter (`AtomicSlots`):
the other modules may use the counter as atomic.

**`PolicyProofs`.** For any view and any model: a policy of the factory selects an eligible node
exactly when there is one (`PoliciesSelectEligible`); the eight policies refuse for
the same reason, so in a composite only the first child's choice is ever taken
(`FirstPolicyDecides`). The lemma `FirstExists` gives `FirstBy` its
node: in a strict weak order with the ids to break ties, a node with the fewest others before
it has none, and the least number exists since `<` is well founded.

**`SupervisionProofs`.** For any number of callers, nodes, jobs and calls, and any chain of
the composite policy. The argument begins with the graph: features *serve* an alert if they
are its closure and, besides, at most the two that are set on their own (`Serves`,
`Extra`). Such features hold one alert, one policy and all that they entail (`ServesOne`),
and `replace` takes them to features that serve the new alert (`ReplaceServes`). Since
the commit is atomic in the manager, this survives any overlap of calls, with the shape
of each call's record by its step (`CallOK`): the inductive invariant `SupervisionInv`, and
from it `SupervisionTypeCorrect`.

- `AgreesWhenSerialized`. What `supervision_race` refutes for overlapping calls is proved
  for calls that do not overlap (`Serialized`): the code takes no lock for the length of a
  call, so this is what its callers owe, and the demo's one thread keeps it
  (`OneCallerAgrees`). `SupervisorAgrees` speaks of the moments between calls only; the
  invariant `AgreeInv` says what holds in the midst of one: a change that the observer has
  still to hand on is the only one that the modes lack, and the step that is under way
  remembers the alert that the features serve already and `mActiveAlert` does not yet show.
- `KnownAlertsApply`. On the same condition `replace` is refused for a name that
  is no feature, and for nothing else.
- `SnapshotsAgree`. For any thresholds and readings, if `2 * NodeCount <= FractionUnit`:
  what the fraction loses is then less than half a node, and the rounding of
  `toClusterMetrics` restores it (`RoundingRestores`). A `float`'s 24 bits are enough for
  some eight million nodes. The run keeps to the assumption too, with a
  fraction that is inexact for one node of two.
- `CallsEndInFewSteps`. `StepsLeft` counts what a call has still to do, the longest list
  of changes included. Every step of the call lowers it and no other caller's step touches it:
  the part of `CallsReturn` that needs no fairness. What remains for TLC is that a step is
  taken at all, `CompleteSwitch` above all, which waits for all that is counted.
- `SupervisionIsGate`. The control loop implements `DrainGate`: a submission that is refused
  was counted but never behind the gate.

**`SchedulingProofs`.** `AgingIsOnTime` from `AgingInv`: a tracked job is consistent with its
last scan, and the clock does not run ahead of a scan by more than the interval.
`SchedInv` adds the type of the model, of the documents in and around the file,
and that a document reads back as the model in `of`; the JSON conversions are inverse
to each other on every value, whole or not, and thence `RestoresOneModel`.
`AveragesCountAlike` (`ObservationsAgree`): a node has as many observations as the buckets
of its curve, and the nodes that share a row of the matrix as many as the row. No sum over a
table is needed for it: an observation is a pair of a cell and its number, so that "one more
in one cell" is one more element of a set. `LoadDecides` proves `NoDominatedChoice` for every policy that looks at the load, any model,
nodes and jobs, under one assumption, `KnownCosts`: that no multiplier rounds a
known cost down to nothing in the model's whole parts. Without it a prediction may be 0
on every node and ties go to the least id; the `float`s of the code are far from there.

**Only model-checked.** Liveness, since fairness and ENABLED are beyond the prover:
`EveryJobEnds`, `SwitchCompletes` and `DestructionCompletes` of `Balancer`,
`SwitchesComplete` of `PolicySwitch`, `TakenJobsEnd` and `StopReturns` of `SimulatedNode`,
`AlertSettles` and `CallsReturn` of `Supervision`. Every invariant and every action property
of a passing run is also stated by a theorem; the violated runs are counterexamples on
small instances and need no more.

## 5. Not modelled

- `areAllEligibleOverloaded`: `Balancer` explores both of its answers at every point.
- Aging toggles called at the same time, handles of two nodes that are equal, `stop` against
  a running `submit`, and a fault during `start`: the code has no defined
  behaviour to go on from (see the notes of these hazards), or the harness rules them out.
- Promotions on their way from `AgingEngine` to a node: `Balancer` has no state that they
  change; `SimulatedNode` explores a promotion of any queued job at any moment.
- The rate of the drain loop's retries, throughput and total counters, latencies, logs,
  the JSON of the wasm bindings and the displays: nothing the protocols depend on.
- Training and inference of the network, in floating-point Python.
- `start`, `stop` and `drainAll` of `SimulatedCluster`: a test harness without a protocol of
  its own.
- Float rounding in buckets and averages: floats are whole numbers of a fixed part.
