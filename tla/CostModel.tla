------------------------------ MODULE CostModel -----------------------------
(***************************************************************************)
(* CostModel: what the balancer has learned of its nodes, with the         *)
(* AffinityMatrix and the DegradationCurves that it owns, and the file it  *)
(* is saved to and restored from.                                          *)
(*                                                                         *)
(* Every operation holds mMutex while it uses the model and is one step    *)
(* here, but for save() and load(): they use the file outside of the lock. *)
(* A float is an integer number of parts of one, 1.0 is Unit, and what an  *)
(* operation rounds away is dropped.                                       *)
(***************************************************************************)
EXTENDS Naturals, FiniteSets

CONSTANTS
    NodeIds,            \* NodeId values, from 1 in a SimulatedCluster
    JobClasses,         \* JobClass values
    maxNodes, maxJobClasses,                    \* AffinityMatrixConfig
    bucketCount, bucketSize,                    \* DegradationCurveConfig
    nodePeriod, cellPeriod, bucketPeriod,       \* 1/alpha of the three EMAs
    nodeWarm, cellWarm, bucketWarm,             \* their warmThresholds
    minMultiplier, maxMultiplier,               \* in parts of one
    Unit

ASSUME CostModelAssumption ==
    /\ NodeIds \subseteq Nat /\ IsFiniteSet(NodeIds)
    /\ JobClasses \subseteq Nat /\ IsFiniteSet(JobClasses)
    /\ {maxNodes, maxJobClasses, bucketCount, bucketSize, Unit} \subseteq Nat \ {0}
    /\ {nodePeriod, cellPeriod, bucketPeriod} \subseteq Nat \ {0}
    /\ {nodeWarm, cellWarm, bucketWarm} \subseteq Nat
    /\ minMultiplier \in Nat /\ maxMultiplier \in Nat
    /\ minMultiplier <= maxMultiplier

VARIABLES
    mNodeStates,            \* by node: its throughput and its depth buckets
    mAffinityMatrix,        \* by row and column
    mDegradationEnabled,
    file,                   \* the model's file
    saving, loading         \* where save() and load() are

modelVars == <<mNodeStates, mAffinityMatrix>>
costModelVars == <<modelVars, mDegradationEnabled, file, saving, loading>>

----------------------------------------------------------------------------
(* EMA: a value and how often it was updated.  It starts at neutral and is *)
(* not used before it is warm.                                             *)

Ema == [value : Nat, observations : Nat]

Neutral == [value |-> Unit, observations |-> 0]

Learned(ema, ratio, period) ==
    [value        |-> (ratio + (period - 1) * ema.value) \div period,
     observations |-> ema.observations + 1]

Correction(ema, warmThreshold) ==
    IF ema.observations < warmThreshold THEN Unit ELSE ema.value

Times(a, b) == (a * b) \div Unit

Clamped(v) ==
    IF v < minMultiplier THEN minMultiplier
    ELSE IF v > maxMultiplier THEN maxMultiplier ELSE v

(* AffinityMatrix: an index beyond the edge stands for the edge.           *)
Rows == 0..(maxNodes - 1)
Columns == 0..(maxJobClasses - 1)
ClampRow(n) == IF n < maxNodes THEN n ELSE maxNodes - 1
ClampColumn(c) == IF c < maxJobClasses THEN c ELSE maxJobClasses - 1

Cell(n, c) == mAffinityMatrix[ClampRow(n)][ClampColumn(c)]

(* DegradationCurve: the last bucket takes all greater depths.             *)
Buckets == 0..(bucketCount - 1)

BucketIndex(depth) ==
    LET i == depth \div bucketSize
    IN  IF i < bucketCount THEN i ELSE bucketCount - 1

ColdNode == [throughput |-> Neutral, buckets |-> [b \in Buckets |-> Neutral]]
ColdNodes == [n \in NodeIds |-> ColdNode]
ColdMatrix == [r \in Rows |-> [c \in Columns |-> Neutral]]

----------------------------------------------------------------------------
(* What policies ask of the model.  A job has a class, an estimate and the *)
(* depth that Job::queueDepthAtDispatch holds.                             *)

IsWarm(n) == mNodeStates[n].throughput.observations >= nodeWarm

NodeMultiplier(n) ==
    IF IsWarm(n) THEN Clamped(mNodeStates[n].throughput.value) ELSE Unit

AffinityScore(n, c) == Correction(Cell(n, c), cellWarm)

IsAffinityCellWarm(n, c) == Cell(n, c).observations >= cellWarm

DegradationMultiplier(n, depth) ==
    Correction(mNodeStates[n].buckets[BucketIndex(depth)], bucketWarm)

Predict(job, n) ==
    LET learned  == Times(mNodeStates[n].throughput.value,
                          AffinityScore(n, job.class))
        degraded == IF mDegradationEnabled
                    THEN Times(learned, DegradationMultiplier(n, job.depth))
                    ELSE learned
    IN  IF IsWarm(n)
        THEN (job.estimate * Clamped(degraded) + Unit \div 2) \div Unit
        ELSE job.estimate

----------------------------------------------------------------------------
CostModelInit ==
    /\ mNodeStates = ColdNodes
    /\ mAffinityMatrix = ColdMatrix
    /\ mDegradationEnabled = TRUE
    /\ file = [kind |-> "missing"]
    /\ saving = [step |-> "idle"]
    /\ loading = [step |-> "idle"]

(* update() for a completed job that node n executed.  A job of no         *)
(* estimate, or whose cost is not known, teaches nothing.                  *)
Observe(n, job, ratio) ==
    /\ mNodeStates' =
           [mNodeStates EXCEPT
               ![n].throughput = Learned(@, ratio, nodePeriod),
               ![n].buckets[BucketIndex(job.depth)] = Learned(@, ratio, bucketPeriod)]
    /\ mAffinityMatrix' =
           [mAffinityMatrix EXCEPT
               ![ClampRow(n)][ClampColumn(job.class)] = Learned(@, ratio, cellPeriod)]

(* An update that skips the cell of a class beyond the matrix.             *)
ObserveWithinMatrix(n, job, observed) ==
    LET ratio == (observed * Unit) \div job.estimate
    IN  CASE job.estimate = 0 \/ observed = 0 -> UNCHANGED modelVars
          [] OTHER ->
               IF job.class < maxJobClasses
               THEN Observe(n, job, ratio)
               ELSE /\ mNodeStates' = [mNodeStates EXCEPT
                          ![n].throughput = Learned(@, ratio, nodePeriod)]
                    /\ UNCHANGED mAffinityMatrix

Update(n, job, observed) ==
    IF job.estimate = 0 \/ observed = 0
    THEN UNCHANGED modelVars
    ELSE Observe(n, job, (observed * Unit) \div job.estimate)

SetDegradationEnabled(on) ==
    /\ mDegradationEnabled' = on
    /\ UNCHANGED <<modelVars, file, saving, loading>>

----------------------------------------------------------------------------
(* Persistence.  JsonLite writes a whole number without a decimal point,   *)
(* and reads it back as an integer: load() takes either kind.  That other  *)
(* numbers keep their last bit is taken from the library.                  *)

ToJson(v) == IF v % Unit = 0 THEN <<"int", v \div Unit>> ELSE <<"double", v>>

(* A load that takes doubles only; the default value stays for others.     *)
FromDouble(j) == IF j[1] = "double" THEN j[2] ELSE Unit

FromJson(j) == IF j[1] = "int" THEN j[2] * Unit ELSE j[2]

SavedEma(ema) == [ema EXCEPT !.value = ToJson(@)]
LoadedEma(ema) == [ema EXCEPT !.value = FromJson(@)]

(* The document of a model.                                                *)
Snapshot ==
    [nodes    |-> [n \in NodeIds |->
                     [throughput |-> SavedEma(mNodeStates[n].throughput),
                      buckets    |-> [b \in Buckets |->
                                        SavedEma(mNodeStates[n].buckets[b])]]],
     affinity |-> [r \in Rows |-> [c \in Columns |->
                                     SavedEma(mAffinityMatrix[r][c])]]]

(* save() opens, and thereby empties, the file; collects the model under   *)
(* mMutex; and writes it.                                                  *)
SaveOpen ==
    /\ saving.step = "idle"
    /\ saving' = [step |-> "opened"]
    /\ file' = [kind |-> "incomplete"]
    /\ UNCHANGED <<modelVars, mDegradationEnabled, loading>>

SaveCollect ==
    /\ saving.step = "opened"
    /\ saving' = [step |-> "collected", document |-> Snapshot,
                  of |-> [nodes |-> mNodeStates, affinity |-> mAffinityMatrix]]
    /\ UNCHANGED <<modelVars, mDegradationEnabled, file, loading>>

(* The model that a file is of, "of", is no part of it (ghost).            *)
SaveWrite ==
    /\ saving.step = "collected"
    /\ saving' = [step |-> "idle"]
    /\ file' = [kind |-> "model", document |-> saving.document, of |-> saving.of]
    /\ UNCHANGED <<modelVars, mDegradationEnabled, loading>>

(* A user removes the file, or puts one there that does not fit: another   *)
(* shape of the matrix, or no JSON.                                        *)
ReplaceFile(kind) ==
    /\ saving.step = "idle"
    /\ file.kind \notin {"missing", kind}
    /\ file' = [kind |-> kind]
    /\ UNCHANGED <<modelVars, mDegradationEnabled, saving, loading>>

(* load() reads the file; without one it returns an error and leaves the   *)
(* model as it is.                                                         *)
LoadRead ==
    /\ loading.step = "idle"
    /\ file.kind # "missing"
    /\ loading' = [step |-> "read", content |-> file]
    /\ UNCHANGED <<modelVars, mDegradationEnabled, file, saving>>

(* What does not fit makes the model cold.  Anything else replaces it.     *)
LoadFails ==
    /\ loading.step = "read"
    /\ loading.content.kind # "model"
    /\ mNodeStates' = ColdNodes
    /\ mAffinityMatrix' = ColdMatrix
    /\ loading' = [step |-> "idle"]
    /\ UNCHANGED <<mDegradationEnabled, file, saving>>

LoadCommit ==
    LET doc == loading.content.document
    IN  /\ loading.step = "read"
        /\ loading.content.kind = "model"
        /\ mNodeStates' =
               [n \in NodeIds |->
                   [throughput |-> LoadedEma(doc.nodes[n].throughput),
                    buckets    |-> [b \in Buckets |->
                                      LoadedEma(doc.nodes[n].buckets[b])]]]
        /\ mAffinityMatrix' =
               [r \in Rows |-> [c \in Columns |-> LoadedEma(doc.affinity[r][c])]]
        /\ loading' = [step |-> "idle"]
        /\ UNCHANGED <<mDegradationEnabled, file, saving>>

(* reset(), and the end of the process: all but the file is lost.          *)
Reset ==
    /\ mNodeStates' = ColdNodes
    /\ mAffinityMatrix' = ColdMatrix
    /\ UNCHANGED <<mDegradationEnabled, file, saving, loading>>

Restart ==
    /\ mNodeStates' = ColdNodes
    /\ mAffinityMatrix' = ColdMatrix
    /\ mDegradationEnabled' = TRUE
    /\ saving' = [step |-> "idle"]
    /\ loading' = [step |-> "idle"]
    /\ UNCHANGED file
=============================================================================
