-------------------------- MODULE SchedulingProofs --------------------------
(***************************************************************************)
(* Proofs about Scheduling, for any nodes, classes, thresholds and number  *)
(* of jobs: aging is on time, a loaded model is what was saved, and load   *)
(* decides where jobs go.                                                  *)
(***************************************************************************)
EXTENDS Scheduling, PolicyProofs, SequenceTheorems

-----------------------------------------------------------------------------
(* Aging.                                                                  *)

Entry == [tracked : {TRUE}, band : Bands, deadline : Nat, lastBumpAt : Nat,
          from : [band : Bands, time : Nat]]

(* A job that is tracked has been looked at by every scan so far.          *)
Scanned(t) ==
    /\ t.band <= t.from.band
    /\ t.from.time <= t.lastBumpAt /\ t.lastBumpAt <= now
    /\ lastScan <= t.deadline
    /\ lastScan <= t.lastBumpAt + AgingThreshold(t.band)
    /\ t.lastBumpAt + TimeTo(t.from.band) >= t.from.time + TimeTo(t.band)
    /\ t.band = t.from.band \/ t.band >= (IF highToCriticalEnabled THEN 0 ELSE 1)
    /\ t.lastBumpAt = t.from.time \/ t.lastBumpAt < t.deadline

AgingInv ==
    /\ now \in 0..MaxTime /\ lastScan \in 0..now
    /\ now <= lastScan + scanInterval
    /\ mTracked \in [Jobs -> {Untracked} \cup Entry]
    /\ \A j \in Jobs : mTracked[j].tracked => Scanned(mTracked[j])

LEMMA EntryType ==
    ASSUME NEW t \in {Untracked} \cup Entry, t.tracked
    PROVE  t \in Entry
BY DEF Untracked

LEMMA Thresholds ==
    ASSUME NEW b \in Bands
    PROVE  /\ AgingThreshold(b) \in Nat /\ TimeTo(b) \in Nat
           /\ AgingThreshold(b) # Never =>
                /\ b - 1 \in Bands
                /\ TimeTo(b - 1) = TimeTo(b) + AgingThreshold(b)
                /\ b - 1 >= (IF highToCriticalEnabled THEN 0 ELSE 1)
<1>1. bulkToLow \in Nat /\ lowToNormal \in Nat /\ normalToHigh \in Nat
      /\ highToCritical \in Nat /\ Never \in Nat
  BY AgingAssumption DEF Never
<1>2. CASE b = 4
  BY <1>1, <1>2 DEF Bands, AgingThreshold, TimeTo
<1>3. CASE b = 3
  BY <1>1, <1>3 DEF Bands, AgingThreshold, TimeTo
<1>4. CASE b = 2
  BY <1>1, <1>4 DEF Bands, AgingThreshold, TimeTo
<1>5. CASE b = 1
  BY <1>1, <1>5 DEF Bands, AgingThreshold, TimeTo
<1>6. CASE b = 0
  BY <1>1, <1>6 DEF Bands, AgingThreshold, TimeTo
<1> QED
  BY <1>2, <1>3, <1>4, <1>5, <1>6 DEF Bands

LEMMA ScannedFields ==
    ASSUME AgingInv, NEW j \in Jobs, mTracked[j].tracked
    PROVE  LET t == mTracked[j]
           IN  /\ t \in Entry /\ Scanned(t)
               /\ t.band \in Bands /\ t.from.band \in Bands
               /\ t.deadline \in Nat /\ t.lastBumpAt \in Nat /\ t.from.time \in Nat
               /\ now \in Nat /\ lastScan \in Nat /\ scanInterval \in Nat
               /\ now <= MaxTime /\ MaxTime \in Nat
<1>1. mTracked[j] \in Entry
  BY EntryType DEF AgingInv
<1>2. now \in Nat /\ lastScan \in Nat /\ now <= MaxTime
  BY AgingAssumption DEF AgingInv
<1> QED
  BY <1>1, <1>2, AgingAssumption, SchedulingAssumption DEF AgingInv, Entry

LEMMA TickKeepsAging ==
    ASSUME AgingInv, Tick
    PROVE  AgingInv'
<1>1. now' = now /\ lastScan' = now /\ mTracked' = AfterTick
  BY DEF Tick
<1>2. now \in 0..MaxTime /\ now \in Nat /\ MaxTime \in Nat /\ scanInterval \in Nat
  BY AgingAssumption, SchedulingAssumption DEF AgingInv
<1>3. ASSUME NEW j \in Jobs
      PROVE  /\ mTracked'[j] \in {Untracked} \cup Entry
             /\ mTracked'[j].tracked => Scanned(mTracked[j])'
  <2> DEFINE t == mTracked[j]
  <2>1. CASE Expires(t)
    <3>1. ~Ages(t)
      BY <1>2, <2>1, ScannedFields DEF Expires, Ages
    <3>2. mTracked'[j] = Untracked
      BY <1>1, <2>1, <3>1 DEF AfterTick
    <3> QED
      BY <3>2 DEF Untracked
  <2>2. CASE ~Expires(t) /\ Ages(t)
    <3>1. mTracked'[j] = Promoted(t) /\ t.tracked
      BY <1>1, <2>2 DEF AfterTick, Ages
    <3>2. /\ t \in Entry /\ Scanned(t)
          /\ t.band \in Bands /\ t.from.band \in Bands
          /\ t.deadline \in Nat /\ t.lastBumpAt \in Nat /\ t.from.time \in Nat
      BY <3>1, ScannedFields
    <3>3. /\ now < t.deadline
          /\ AgingThreshold(t.band) # Never
          /\ now - t.lastBumpAt >= AgingThreshold(t.band)
      BY <2>2 DEF Ages
    <3>4. /\ AgingThreshold(t.band) \in Nat /\ TimeTo(t.band) \in Nat
          /\ TimeTo(t.from.band) \in Nat
          /\ t.band - 1 \in Bands
          /\ TimeTo(t.band - 1) = TimeTo(t.band) + AgingThreshold(t.band)
          /\ t.band - 1 >= (IF highToCriticalEnabled THEN 0 ELSE 1)
          /\ AgingThreshold(t.band - 1) \in Nat
      BY <3>2, <3>3, Thresholds
    <3>5. Promoted(t) = [t EXCEPT !.band = t.band - 1, !.lastBumpAt = now]
      BY <3>2 DEF Promoted, Entry
    <3>6. /\ Promoted(t) \in Entry
          /\ Promoted(t).band = t.band - 1 /\ Promoted(t).lastBumpAt = now
          /\ Promoted(t).from = t.from /\ Promoted(t).deadline = t.deadline
      BY <1>2, <3>2, <3>4, <3>5 DEF Entry
    <3>7. Scanned(mTracked[j])'
      <4>1. t.band \in Int /\ t.from.band \in Int /\ t.band <= t.from.band
            /\ t.from.time <= t.lastBumpAt /\ t.lastBumpAt <= now
            /\ t.lastBumpAt + TimeTo(t.from.band) >= t.from.time + TimeTo(t.band)
        BY <3>2 DEF Scanned, Bands
      <4>2. now + TimeTo(t.from.band) >= t.from.time + TimeTo(t.band - 1)
        BY <1>2, <3>2, <3>3, <3>4, <4>1
      <4>3. t.band - 1 <= t.from.band /\ t.from.time <= now /\ now <= t.deadline
            /\ now <= now + AgingThreshold(t.band - 1)
        BY <1>2, <3>2, <3>3, <3>4, <4>1
      <4> HIDE DEF t
      <4> QED
        BY <1>1, <1>2, <3>1, <3>3, <3>4, <3>6, <4>2, <4>3
           DEF Scanned
    <3> QED
      BY <3>1, <3>6, <3>7
  <2>3. CASE ~Expires(t) /\ ~Ages(t)
    <3>1. mTracked'[j] = t
      BY <1>1, <2>3 DEF AfterTick
    <3>2. ASSUME t.tracked PROVE Scanned(mTracked[j])'
      <4>1. /\ t \in Entry /\ Scanned(t) /\ t.band \in Bands
            /\ t.deadline \in Nat /\ t.lastBumpAt \in Nat
        BY <3>2, ScannedFields
      <4>2. now < t.deadline
        BY <1>2, <2>3, <3>2, <4>1 DEF Expires
      <4>3. now <= t.lastBumpAt + AgingThreshold(t.band)
        <5>1. AgingThreshold(t.band) \in Nat
          BY <4>1, Thresholds
        <5>2. AgingThreshold(t.band) = Never \/ now - t.lastBumpAt < AgingThreshold(t.band)
          BY <1>2, <2>3, <3>2, <4>1, <4>2, <5>1 DEF Ages
        <5> QED
          BY <1>2, <4>1, <5>1, <5>2 DEF Never
      <4> HIDE DEF t
      <4> QED
        BY <1>1, <1>2, <3>1, <4>1, <4>2, <4>3 DEF Scanned
    <3>3. t \in {Untracked} \cup Entry
      BY DEF AgingInv
    <3> QED
      BY <3>1, <3>2, <3>3
  <2> QED
    BY <2>1, <2>2, <2>3
<1>4. mTracked' \in [Jobs -> {Untracked} \cup Entry]
  <2>1. mTracked' = [j \in Jobs |-> mTracked'[j]]
    BY <1>1 DEF AfterTick
  <2> QED
    BY <1>3, <2>1
<1> QED
  BY <1>1, <1>2, <1>3, <1>4 DEF AgingInv

LEMMA SubmitKeepsAging ==
    ASSUME AgingInv, NEW j \in Jobs, NEW kind \in Kinds, Submit(j, kind)
    PROVE  AgingInv'
<1>1. now' = now /\ lastScan' = lastScan
  BY DEF Submit
<1>2. now \in 0..MaxTime /\ now \in Nat /\ MaxTime \in Nat /\ lastScan \in 0..now
  BY AgingAssumption DEF AgingInv
<1>3. CASE mTracked' = mTracked
  BY <1>1, <1>3 DEF AgingInv, Scanned
<1>4. CASE mTracked' = Track(j, kind.prio, Deadline(kind)) /\ ~mTracked[j].tracked
  <2> DEFINE t == [tracked |-> TRUE, band |-> kind.prio, deadline |-> Deadline(kind),
                   lastBumpAt |-> now, from |-> [band |-> kind.prio, time |-> now]]
  <2>1. mTracked' = [mTracked EXCEPT ![j] = t]
    BY <1>4 DEF Track
  <2>2. kind.prio \in Bands /\ kind.deadline \in Nat
    BY SchedulingAssumption
  <2>3. Deadline(kind) \in Nat /\ lastScan <= Deadline(kind)
    BY <1>2, <2>2 DEF Deadline, Never
  <2>4. t \in Entry
    BY <1>2, <2>2, <2>3 DEF Entry
  <2>5. AgingThreshold(kind.prio) \in Nat /\ TimeTo(kind.prio) \in Nat
    BY <2>2, Thresholds
  <2>6. mTracked \in [Jobs -> {Untracked} \cup Entry]
    BY DEF AgingInv
  <2>7. mTracked' \in [Jobs -> {Untracked} \cup Entry]
    <3> HIDE DEF t
    <3> QED
      BY <2>1, <2>4, <2>6
  <2>8. ASSUME NEW i \in Jobs, mTracked'[i].tracked
        PROVE  Scanned(mTracked[i])'
    <3>1. CASE i = j
      <4>1. mTracked'[i] = t
        BY <2>1, <2>6, <3>1
      <4>2. kind.prio \in Int
        BY <2>2 DEF Bands
      <4> QED
        BY <1>1, <1>2, <2>3, <2>5, <4>1, <4>2 DEF Scanned
    <3>2. CASE i # j
      <4>1. mTracked'[i] = mTracked[i]
        BY <2>1, <2>6, <3>2
      <4> QED
        BY <1>1, <2>8, <4>1 DEF AgingInv, Scanned
    <3> QED
      BY <3>1, <3>2
  <2> QED
    BY <1>1, <2>7, <2>8 DEF AgingInv
<1>5. CASE mTracked' = Track(j, kind.prio, Deadline(kind)) /\ mTracked[j].tracked
  BY <1>3, <1>5 DEF Track
<1> QED
  BY <1>3, <1>4, <1>5 DEF Submit

LEMMA UntrackKeepsAging ==
    ASSUME AgingInv, NEW j \in Jobs, mTracked' = Untrack(j),
           now' = now, lastScan' = lastScan
    PROVE  AgingInv'
<1>1. mTracked \in [Jobs -> {Untracked} \cup Entry]
  BY DEF AgingInv
<1>2. mTracked' \in [Jobs -> {Untracked} \cup Entry]
  BY <1>1 DEF Untrack
<1>3. ASSUME NEW i \in Jobs, mTracked'[i].tracked
      PROVE  Scanned(mTracked[i])'
  <2>1. i # j /\ mTracked'[i] = mTracked[i]
    BY <1>1, <1>3 DEF Untrack, Untracked
  <2> QED
    BY <1>3, <2>1 DEF AgingInv, Scanned
<1> QED
  BY <1>2, <1>3 DEF AgingInv

LEMMA ClockKeepsAging ==
    ASSUME AgingInv, Clock
    PROVE  AgingInv'
<1>1. now' = now + 1 /\ now < MaxTime /\ now < lastScan + scanInterval
      /\ mTracked' = mTracked /\ lastScan' = lastScan
  <2>1. now - lastScan < scanInterval
    BY DEF Clock
  <2>2. now \in Nat /\ lastScan \in Nat /\ scanInterval \in Nat
    BY AgingAssumption, SchedulingAssumption DEF AgingInv
  <2> QED
    BY <2>1, <2>2 DEF Clock, TimePasses
<1>2. now \in Nat /\ lastScan \in 0..now /\ scanInterval \in Nat /\ MaxTime \in Nat
  BY AgingAssumption, SchedulingAssumption DEF AgingInv
<1>3. ASSUME NEW j \in Jobs, mTracked[j].tracked
      PROVE  Scanned(mTracked[j])'
  <2>1. /\ Scanned(mTracked[j])
        /\ mTracked[j].lastBumpAt \in Nat
    BY <1>3, ScannedFields
  <2> QED
    BY <1>1, <1>2, <2>1 DEF Scanned
<1> QED
  BY <1>1, <1>2, <1>3 DEF AgingInv

LEMMA RestartKeepsAging ==
    ASSUME AgingInv, RestartProcess
    PROVE  AgingInv'
<1>1. now' = now /\ lastScan' = now /\ mTracked' = [j \in Jobs |-> Untracked]
  BY DEF RestartProcess
<1>2. now \in Nat /\ now \in 0..MaxTime /\ scanInterval \in Nat
  BY AgingAssumption, SchedulingAssumption DEF AgingInv
<1> QED
  BY <1>1, <1>2 DEF AgingInv, Untracked

THEOREM AgingInvariant == Spec => []AgingInv
<1>1. Init => AgingInv
  BY AgingAssumption, SchedulingAssumption DEF Init, AgingInit, AgingInv, Untracked
<1>2. AgingInv /\ [Next]_vars => AgingInv'
  <2> SUFFICES ASSUME AgingInv, [Next]_vars PROVE AgingInv'
    OBVIOUS
  <2>1. CASE UNCHANGED <<mTracked, now, lastScan>>
    BY <2>1 DEF AgingInv, Scanned
  <2>2. CASE \E j \in Jobs, kind \in Kinds : Submit(j, kind)
    BY <2>2, SubmitKeepsAging
  <2>3. CASE \E j \in Jobs : Complete(j) \/ CompleteFailed(j)
    BY <2>3, UntrackKeepsAging DEF Complete, CompleteFailed
  <2>4. CASE Tick
    BY <2>4, TickKeepsAging
  <2>5. CASE Clock
    BY <2>5, ClockKeepsAging
  <2>6. CASE RestartProcess
    BY <2>6, RestartKeepsAging
  <2>7. CASE \/ \E n \in NodeIds : Fail(n) \/ Recover(n)
            \/ Toggle \/ Save \/ Load \/ SwapFile \/ ResetModel
            \/ UNCHANGED vars
    <3>1. UNCHANGED <<mTracked, now, lastScan>>
      BY <2>7 DEF Fail, Recover, Toggle, Save, Load, SwapFile, ResetModel,
                  Elsewhere, vars, agingVars
    <3> QED
      BY <2>1, <3>1
  <2> QED
    BY <2>2, <2>3, <2>4, <2>5, <2>6, <2>7 DEF Next, Persist
<1> QED
  BY <1>1, <1>2, PTL DEF Spec

(* No job that waits is promoted early, too far or after its deadline, and *)
(* none is promoted or expired later than one scan interval, for all       *)
(* thresholds, intervals and numbers of jobs.                              *)
THEOREM AgingIsOnTime == Spec => []AgingOnTime
<1>1. AgingInv => AgingOnTime
  <2> SUFFICES ASSUME AgingInv, NEW j \in Jobs, mTracked[j].tracked
               PROVE  LET t == mTracked[j]
                      IN  /\ t.lastBumpAt - t.from.time
                                >= TimeTo(t.band) - TimeTo(t.from.band)
                          /\ \/ t.band = t.from.band
                             \/ t.band >= (IF highToCriticalEnabled THEN 0 ELSE 1)
                          /\ t.lastBumpAt = t.from.time \/ t.lastBumpAt < t.deadline
                          /\ now <= t.deadline + scanInterval
                          /\ now <= t.lastBumpAt + AgingThreshold(t.band) + scanInterval
    BY DEF AgingOnTime
  <2> DEFINE t == mTracked[j]
  <2>1. /\ Scanned(t)
        /\ t.band \in Bands /\ t.from.band \in Bands
        /\ t.deadline \in Nat /\ t.lastBumpAt \in Nat /\ t.from.time \in Nat
        /\ now \in Nat /\ lastScan \in Nat /\ scanInterval \in Nat
        /\ now <= lastScan + scanInterval
    BY ScannedFields DEF AgingInv
  <2>2. AgingThreshold(t.band) \in Nat /\ TimeTo(t.band) \in Nat
        /\ TimeTo(t.from.band) \in Nat
    BY <2>1, Thresholds
  <2> HIDE DEF t
  <2>3. /\ t.lastBumpAt - t.from.time >= TimeTo(t.band) - TimeTo(t.from.band)
        /\ now <= t.deadline + scanInterval
        /\ now <= t.lastBumpAt + AgingThreshold(t.band) + scanInterval
    BY <2>1, <2>2 DEF Scanned
  <2> QED
    BY <2>1, <2>3 DEF Scanned, t
<1> QED
  BY <1>1, AgingInvariant, PTL

-----------------------------------------------------------------------------
(* The model and its files.                                                *)

Nodes == [NodeIds -> [throughput : Ema, buckets : [Buckets -> Ema]]]

Matrix == [Rows -> [Columns -> Ema]]

(* No bucket of a degradation curve but the first was ever observed.       *)
Shallow(nodes) ==
    \A n \in NodeIds, b \in Buckets : b # 0 => nodes[n].buckets[b].observations = 0

(* What save() writes of the model m.                                      *)
DocumentOf(m) ==
    [nodes    |-> [n \in NodeIds |->
                     [throughput |-> SavedEma(m.nodes[n].throughput),
                      buckets    |-> [b \in Buckets |->
                                        SavedEma(m.nodes[n].buckets[b])]]],
     affinity |-> [r \in Rows |-> [c \in Columns |-> SavedEma(m.affinity[r][c])]]]

(* A file, or what save() is about to write, that holds the model "of".    *)
Holds(f) ==
    /\ f.of \in [nodes : Nodes, affinity : Matrix]
    /\ Shallow(f.of.nodes)
    /\ f.document = DocumentOf(f.of)

FileInv(f) ==
    /\ f.kind \in {"missing", "incomplete", "foreign", "model"}
    /\ f.kind = "model" => Holds(f)

ModelInv ==
    /\ mNodeStates \in Nodes /\ mAffinityMatrix \in Matrix
    /\ Shallow(mNodeStates)
    /\ mDegradationEnabled \in BOOLEAN

PersistInv ==
    /\ FileInv(file)
    /\ saving.step \in {"idle", "opened", "collected"}
    /\ saving.step = "collected" => Holds(saving)
    /\ loading.step \in {"idle", "read"}
    /\ loading.step = "read" => FileInv(loading.content)

LEMMA WholeNumber ==
    ASSUME NEW v \in Nat
    PROVE  FromJson(ToJson(v)) = v
<1>1. Unit \in Nat \ {0}
  BY CostModelAssumption
<1>2. CASE v % Unit = 0
  <2>1. (v \div Unit) * Unit = v
    BY <1>1, <1>2, SMTT(30)
  <2> QED
    BY <1>2, <2>1 DEF ToJson, FromJson
<1>3. CASE v % Unit # 0
  BY <1>3 DEF ToJson, FromJson
<1> QED
  BY <1>2, <1>3

LEMMA RoundTrip ==
    ASSUME NEW ema \in Ema
    PROVE  LoadedEma(SavedEma(ema)) = ema
<1>1. ema = [value |-> ema.value, observations |-> ema.observations]
  BY DEF Ema
<1>2. FromJson(ToJson(ema.value)) = ema.value
  BY WholeNumber DEF Ema
<1> QED
  BY <1>1, <1>2 DEF SavedEma, LoadedEma

LEMMA ColdModel ==
    /\ ColdNodes \in Nodes /\ ColdMatrix \in Matrix
    /\ Shallow(ColdNodes)
<1>1. Neutral \in Ema
  BY CostModelAssumption DEF Neutral, Ema
<1>2. ColdNodes \in Nodes /\ ColdMatrix \in Matrix
  BY <1>1 DEF ColdNodes, ColdNode, ColdMatrix, Nodes, Matrix
<1>3. Shallow(ColdNodes)
  BY DEF Shallow, ColdNodes, ColdNode, Neutral
<1> QED
  BY <1>2, <1>3

LEMMA LearnedType ==
    ASSUME NEW ema \in Ema, NEW ratio \in Nat, NEW period \in Nat \ {0}
    PROVE  Learned(ema, ratio, period) \in Ema
<1>1. ema.value \in Nat /\ ema.observations \in Nat /\ period - 1 \in Nat
  BY DEF Ema
<1>2. (period - 1) * ema.value \in Nat
  BY <1>1, Product
<1>3. (ratio + (period - 1) * ema.value) \div period \in Nat
  BY <1>2, Rounded
<1> QED
  BY <1>1, <1>3 DEF Learned, Ema

(* What n has learned after it has observed ratio at a job.                 *)
Grown(n, job, ratio) ==
    LET s == mNodeStates[n]
        b == BucketIndex(job.depth)
    IN  [throughput |-> Learned(s.throughput, ratio, nodePeriod),
         buckets    |-> [s.buckets EXCEPT ![b] = Learned(s.buckets[b], ratio, bucketPeriod)]]

LEMMA ObserveGrows ==
    ASSUME ModelInv, NEW n \in NodeIds, NEW job, JobTyped(job), job.depth = 0,
           NEW ratio \in Nat, Observe(n, job, ratio)
    PROVE  /\ BucketIndex(job.depth) = 0 /\ 0 \in Buckets
           /\ mNodeStates' = [mNodeStates EXCEPT ![n] = Grown(n, job, ratio)]
           /\ Grown(n, job, ratio) \in [throughput : Ema, buckets : [Buckets -> Ema]]
<1> DEFINE s == mNodeStates[n]
           b == BucketIndex(job.depth)
           grown == [throughput |-> Learned(s.throughput, ratio, nodePeriod),
                     buckets |-> [s.buckets EXCEPT ![b] =
                                    Learned(s.buckets[b], ratio, bucketPeriod)]]
<1>1. b = 0 /\ b \in Buckets
  <2>1. 0 \div bucketSize = 0
    BY CostModelAssumption, SMT
  <2> QED
    BY <2>1, CostModelAssumption DEF BucketIndex, Buckets
<1>2. s.throughput \in Ema /\ s.buckets \in [Buckets -> Ema]
      /\ s = [throughput |-> s.throughput, buckets |-> s.buckets]
  BY DEF ModelInv, Nodes
<1>3. /\ Learned(s.throughput, ratio, nodePeriod) \in Ema
      /\ Learned(s.buckets[b], ratio, bucketPeriod) \in Ema
  BY <1>1, <1>2, LearnedType, CostModelAssumption
<1> HIDE DEF b
<1>4. mNodeStates' = [mNodeStates EXCEPT ![n] = grown]
  <2>1. mNodeStates' =
          [mNodeStates EXCEPT
              ![n].throughput = Learned(mNodeStates[n].throughput, ratio, nodePeriod),
              ![n].buckets[b] = Learned(mNodeStates[n].buckets[b], ratio, bucketPeriod)]
    BY DEF Observe, b
  <2>2. [s EXCEPT !.throughput = Learned(s.throughput, ratio, nodePeriod),
                  !.buckets[b] = Learned(s.buckets[b], ratio, bucketPeriod)] = grown
    <3> DEFINE t == s.throughput
               f == s.buckets
               x == Learned(s.throughput, ratio, nodePeriod)
               y == Learned(s.buckets[b], ratio, bucketPeriod)
    <3>1. t \in Ema /\ f \in [Buckets -> Ema] /\ x \in Ema /\ y \in Ema /\ b \in Buckets
      BY <1>1, <1>2, <1>3
    <3>2. s = [throughput |-> t, buckets |-> f]
      BY <1>2
    <3>3. grown = [throughput |-> x, buckets |-> [f EXCEPT ![b] = y]]
      OBVIOUS
    <3> HIDE DEF s, t, f, x, y, grown
    <3>4. [[throughput |-> t, buckets |-> f] EXCEPT !.throughput = x, !.buckets[b] = y]
            = [throughput |-> x, buckets |-> [f EXCEPT ![b] = y]]
      <4> DEFINE r == [throughput |-> t, buckets |-> f]
                 q == [r EXCEPT !.throughput = x]
      <4>1. q = [throughput |-> x, buckets |-> f]
        BY <3>1
      <4>2. [[throughput |-> x, buckets |-> f] EXCEPT !.buckets[b] = y]
              = [throughput |-> x, buckets |-> [f EXCEPT ![b] = y]]
        <5> DEFINE g == [f EXCEPT ![b] = y]
        <5>1. g \in [Buckets -> Ema]
          BY <3>1
        <5> QED
          BY <3>1, <5>1
      <4>3. [r EXCEPT !.throughput = x, !.buckets[b] = y] = [q EXCEPT !.buckets[b] = y]
        OBVIOUS
      <4> HIDE DEF q
      <4> QED
        BY <4>1, <4>2, <4>3
    <3>5. [s EXCEPT !.throughput = x, !.buckets[b] = y] = grown
      BY <3>2, <3>3, <3>4, Zenon
    <3> QED
      BY <3>5, Zenon DEF x, y
  <2> QED
    BY <2>1, <2>2 DEF ModelInv, Nodes
<1>5. grown \in [throughput : Ema, buckets : [Buckets -> Ema]]
  <2> HIDE DEF s
  <2> QED
    BY <1>1, <1>2, <1>3
<1>6. Grown(n, job, ratio) = grown
  BY DEF Grown, b
<1> HIDE DEF grown
<1> QED
  BY <1>1, <1>4, <1>5, <1>6 DEF b

(* The cell of the matrix that learns with it.                             *)
LEMMA ObserveTeachesCell ==
    ASSUME ModelInv, NEW n \in NodeIds, NEW job, JobTyped(job),
           NEW ratio \in Nat, Observe(n, job, ratio)
    PROVE  LET r == ClampRow(n)
               c == ClampColumn(job.class)
               l == Learned(mAffinityMatrix[r][c], ratio, cellPeriod)
           IN  /\ r \in Rows /\ c \in Columns /\ l \in Ema
               /\ mAffinityMatrix' = [mAffinityMatrix EXCEPT ![r][c] = l]
<1> DEFINE r == ClampRow(n)
           c == ClampColumn(job.class)
           l == Learned(mAffinityMatrix[r][c], ratio, cellPeriod)
<1>1. ModelTyped
  BY DEF ModelInv, ModelTyped, Nodes, Matrix
<1>2. r \in Rows /\ c \in Columns /\ mAffinityMatrix[r][c] \in Ema
  BY <1>1, CellType DEF JobTyped, Cell
<1>3. l \in Ema
  BY <1>2, LearnedType, CostModelAssumption
<1>4. mAffinityMatrix' = [mAffinityMatrix EXCEPT ![r][c] = l]
  BY DEF Observe
<1> QED
  BY <1>2, <1>3, <1>4

LEMMA ObserveKeepsModel ==
    ASSUME ModelInv, NEW n \in NodeIds, NEW job, JobTyped(job), job.depth = 0,
           NEW ratio \in Nat, Observe(n, job, ratio)
    PROVE  mNodeStates' \in Nodes /\ mAffinityMatrix' \in Matrix /\ Shallow(mNodeStates')
<1> DEFINE s == mNodeStates[n]
           grown == Grown(n, job, ratio)
<1>1. BucketIndex(job.depth) = 0 /\ 0 \in Buckets
  BY ObserveGrows
<1>2. mNodeStates' = [mNodeStates EXCEPT ![n] = grown]
      /\ grown \in [throughput : Ema, buckets : [Buckets -> Ema]]
  BY ObserveGrows
<1>3. mNodeStates' \in Nodes
  <2> HIDE DEF grown
  <2> QED
    BY <1>2 DEF ModelInv, Nodes
<1>4. Shallow(mNodeStates')
  <2>1. ASSUME NEW m \in NodeIds, NEW d \in Buckets, d # 0
        PROVE  mNodeStates'[m].buckets[d].observations = 0
    <3>1. mNodeStates[m].buckets[d].observations = 0
      BY <2>1 DEF ModelInv, Shallow
    <3>2. mNodeStates'[m].buckets[d] = mNodeStates[m].buckets[d]
      <4>1. CASE m # n
        BY <1>2, <4>1 DEF ModelInv, Nodes
      <4>2. CASE m = n
        <5>1. mNodeStates'[m].buckets = grown.buckets
          <6> HIDE DEF grown
          <6> QED
            BY <1>2, <4>2 DEF ModelInv, Nodes
        <5>2. s.buckets \in [Buckets -> Ema]
          BY DEF ModelInv, Nodes
        <5>3. grown.buckets[d] = s.buckets[d]
          BY <1>1, <2>1, <5>2 DEF Grown
        <5> QED
          BY <4>2, <5>1, <5>3
      <4> QED
        BY <4>1, <4>2
    <3> QED
      BY <3>1, <3>2
  <2> QED
    BY <2>1 DEF Shallow
<1>5. mAffinityMatrix' \in Matrix
  <2> DEFINE r == ClampRow(n)
             c == ClampColumn(job.class)
             l == Learned(mAffinityMatrix[r][c], ratio, cellPeriod)
  <2>1. /\ r \in Rows /\ c \in Columns /\ l \in Ema
        /\ mAffinityMatrix' = [mAffinityMatrix EXCEPT ![r][c] = l]
    BY ObserveTeachesCell
  <2> HIDE DEF r, c, l
  <2> QED
    BY <2>1 DEF ModelInv, Matrix
<1> QED
  BY <1>3, <1>4, <1>5

(* A load brings back what the file is of.                                 *)
LEMMA CommitRestores ==
    ASSUME PersistInv, LoadCommit
    PROVE  /\ Holds(loading.content)
           /\ mNodeStates' = loading.content.of.nodes
           /\ mAffinityMatrix' = loading.content.of.affinity
<1> DEFINE of == loading.content.of
           doc == loading.content.document
<1>1. Holds(loading.content)
  BY DEF PersistInv, FileInv, LoadCommit
<1>2. of.nodes \in Nodes /\ of.affinity \in Matrix /\ doc = DocumentOf(of)
  BY <1>1 DEF Holds
<1>3. mNodeStates' =
        [n \in NodeIds |->
            [throughput |-> LoadedEma(doc.nodes[n].throughput),
             buckets    |-> [b \in Buckets |-> LoadedEma(doc.nodes[n].buckets[b])]]]
      /\ mAffinityMatrix' =
        [r \in Rows |-> [c \in Columns |-> LoadedEma(doc.affinity[r][c])]]
  BY DEF LoadCommit
<1> HIDE DEF of, doc
<1>4. ASSUME NEW n \in NodeIds
      PROVE  [throughput |-> LoadedEma(doc.nodes[n].throughput),
              buckets    |-> [b \in Buckets |-> LoadedEma(doc.nodes[n].buckets[b])]]
               = of.nodes[n]
  <2>1. /\ of.nodes[n].throughput \in Ema
        /\ of.nodes[n].buckets \in [Buckets -> Ema]
        /\ of.nodes[n] = [throughput |-> of.nodes[n].throughput,
                          buckets |-> of.nodes[n].buckets]
    BY <1>2 DEF Nodes
  <2>2. /\ doc.nodes[n].throughput = SavedEma(of.nodes[n].throughput)
        /\ \A b \in Buckets : doc.nodes[n].buckets[b] = SavedEma(of.nodes[n].buckets[b])
    BY <1>2 DEF DocumentOf
  <2>3. LoadedEma(doc.nodes[n].throughput) = of.nodes[n].throughput
    BY <2>1, <2>2, RoundTrip
  <2>4. \A b \in Buckets : LoadedEma(doc.nodes[n].buckets[b]) = of.nodes[n].buckets[b]
    BY <2>1, <2>2, RoundTrip
  <2>5. [b \in Buckets |-> LoadedEma(doc.nodes[n].buckets[b])] = of.nodes[n].buckets
    BY <2>1, <2>4
  <2> QED
    BY <2>1, <2>3, <2>5
<1>5. mNodeStates' = of.nodes
  <2>1. mNodeStates' = [n \in NodeIds |-> of.nodes[n]]
    BY <1>3, <1>4
  <2> QED
    BY <1>2, <2>1 DEF Nodes
<1>6. mAffinityMatrix' = of.affinity
  <2>1. ASSUME NEW r \in Rows, NEW c \in Columns
        PROVE  LoadedEma(doc.affinity[r][c]) = of.affinity[r][c]
    <3>1. of.affinity[r][c] \in Ema
      BY <1>2 DEF Matrix
    <3>2. doc.affinity[r][c] = SavedEma(of.affinity[r][c])
      BY <1>2 DEF DocumentOf
    <3> QED
      BY <3>1, <3>2, RoundTrip
  <2>2. mAffinityMatrix' = [r \in Rows |-> [c \in Columns |-> of.affinity[r][c]]]
    BY <1>3, <2>1
  <2>3. \A r \in Rows : [c \in Columns |-> of.affinity[r][c]] = of.affinity[r]
    BY <1>2 DEF Matrix
  <2> QED
    BY <1>2, <2>2, <2>3 DEF Matrix
<1> QED
  BY <1>1, <1>5, <1>6 DEF of

LEMMA SaveKeepsFiles ==
    ASSUME ModelInv, PersistInv, SaveOpen \/ SaveCollect \/ SaveWrite
    PROVE  PersistInv' /\ ModelInv'
<1>1. ModelInv'
  <2>1. UNCHANGED <<mNodeStates, mAffinityMatrix, mDegradationEnabled>>
    BY DEF SaveOpen, SaveCollect, SaveWrite, modelVars
  <2> QED
    BY <2>1 DEF ModelInv
<1>2. CASE SaveOpen
  BY <1>1, <1>2 DEF SaveOpen, PersistInv, FileInv
<1>3. CASE SaveCollect
  <2> DEFINE m == [nodes |-> mNodeStates, affinity |-> mAffinityMatrix]
  <2>1. saving' = [step |-> "collected", document |-> DocumentOf(m), of |-> m]
    BY <1>3 DEF SaveCollect, Snapshot, DocumentOf
  <2>2. m \in [nodes : Nodes, affinity : Matrix] /\ Shallow(m.nodes)
    BY DEF ModelInv
  <2>3. Holds(saving')
    <3> HIDE DEF m
    <3> QED
      BY <2>1, <2>2 DEF Holds
  <2> QED
    BY <1>1, <1>3, <2>1, <2>3 DEF SaveCollect, PersistInv
<1>4. CASE SaveWrite
  <2>1. Holds(saving)
    BY <1>4 DEF SaveWrite, PersistInv
  <2>2. /\ file' = [kind |-> "model", document |-> saving.document, of |-> saving.of]
        /\ UNCHANGED loading /\ saving' = [step |-> "idle"]
    BY <1>4 DEF SaveWrite
  <2>3. FileInv(file')
    BY <2>1, <2>2 DEF FileInv, Holds
  <2> QED
    BY <1>1, <2>2, <2>3 DEF PersistInv
<1> QED
  BY <1>1, <1>2, <1>3, <1>4

LEMMA LoadKeepsModel ==
    ASSUME ModelInv, PersistInv, LoadRead \/ LoadFails \/ LoadCommit
    PROVE  PersistInv' /\ ModelInv'
<1>1. CASE LoadRead
  <2>1. loading' = [step |-> "read", content |-> file]
    BY <1>1 DEF LoadRead
  <2> QED
    BY <1>1, <2>1 DEF LoadRead, PersistInv, FileInv, ModelInv, modelVars
<1>2. CASE LoadFails
  BY <1>2, ColdModel DEF LoadFails, PersistInv, ModelInv
<1>3. CASE LoadCommit
  <2>1. mNodeStates' \in Nodes /\ mAffinityMatrix' \in Matrix /\ Shallow(mNodeStates')
    BY <1>3, CommitRestores DEF Holds
  <2> QED
    BY <1>3, <2>1 DEF LoadCommit, PersistInv, ModelInv
<1> QED
  BY <1>1, <1>2, <1>3

-----------------------------------------------------------------------------
(* The jobs in flight.                                                     *)

FlowInv ==
    /\ setup \in Setups
    /\ mCursor \in 0..(CursorRange - 1)
    /\ failed \subseteq NodeIds
    /\ inFlight \in [Jobs -> {Absent} \cup [node : NodeIds, job : {JobOf(k) : k \in Kinds}]]
    /\ \A j \in Jobs : mTracked[j].tracked => inFlight[j] # Absent

LEMMA JobTypes ==
    ASSUME NEW k \in Kinds
    PROVE  JobTyped(JobOf(k)) /\ JobOf(k).depth = 0
BY SchedulingAssumption, CostModelAssumption DEF JobOf, JobTyped

LEMMA ViewTypes == ViewTyped(View)
<1>1. \A n \in NodeIds : QueueDepth(n) \in Nat
  BY SchedulingAssumption, FS_Subset, FS_CardinalityType DEF QueueDepth
<1> QED
  BY <1>1 DEF ViewTyped, View

LEMMA InFlight ==
    ASSUME FlowInv, NEW j \in Jobs, inFlight[j] # Absent
    PROVE  /\ inFlight[j].node \in NodeIds
           /\ inFlight[j].job \in {JobOf(k) : k \in Kinds}
BY DEF FlowInv

LEMMA ChainIsSequence ==
    DefaultChain \in Seq({"earliest_deadline_first", "least_loaded"})
<1> DEFINE f == [i \in 1..2 |->
                   IF i = 1 THEN "earliest_deadline_first" ELSE "least_loaded"]
<1>1. DefaultChain = f
  BY DEF DefaultChain
<1>2. f \in [1..2 -> {"earliest_deadline_first", "least_loaded"}]
  OBVIOUS
<1> HIDE DEF f
<1> QED
  BY <1>1, <1>2, SeqDef

(* A submission finds a node that accepts the job, or none.                *)
LEMMA Selected ==
    ASSUME ModelInv, FlowInv, NEW kind \in Kinds
    PROVE  LET n == SelectNode(Policy, JobOf(kind), View, mCursor)
           IN  n = NoNode \/ n \in Eligible(JobOf(kind), View)
<1>1. ModelTyped
  BY DEF ModelInv, ModelTyped, Nodes, Matrix
<1>2. mCursor \in Nat
  BY SchedulingAssumption DEF FlowInv
<1>3. DefaultChain \in Seq({"earliest_deadline_first", "least_loaded"})
  BY ChainIsSequence
<1>4. JobTyped(JobOf(kind)) /\ ViewTyped(View)
  BY JobTypes, ViewTypes
<1>5. LET n == SelectNode(MakePolicy(setup.policy, TRUE, DefaultChain),
                          JobOf(kind), View, mCursor)
      IN  IF Eligible(JobOf(kind), View) = {}
          THEN n = NoNode ELSE n \in Eligible(JobOf(kind), View)
  BY <1>1, <1>2, <1>3, <1>4, PoliciesSelectEligible
<1> QED
  BY <1>5, Zenon DEF Policy

LEMMA SubmitKeepsFlow ==
    ASSUME ModelInv, FlowInv, AgingInv,
           NEW j \in Jobs, NEW kind \in Kinds, Submit(j, kind)
    PROVE  FlowInv'
<1> DEFINE n == SelectNode(Policy, JobOf(kind), View, mCursor)
<1>1. n = NoNode \/ n \in NodeIds
  BY Selected, EligibleSet
<1>2. mCursor' \in 0..(CursorRange - 1)
  <2>1. mCursor \in Nat /\ CursorRange \in Nat \ {0} /\ mCursor \in 0..(CursorRange - 1)
    BY SchedulingAssumption DEF FlowInv
  <2>2. (mCursor + 1) % CursorRange \in 0..(CursorRange - 1)
    BY <2>1, SMT
  <2> QED
    BY <2>1, <2>2 DEF Submit, NextCursor
<1>3. setup' = setup /\ failed' = failed
  BY DEF Submit
<1>4. mTracked \in [Jobs -> {Untracked} \cup Entry]
  BY DEF AgingInv
<1>5. CASE n = NoNode
  BY <1>2, <1>3, <1>5 DEF Submit, FlowInv
<1>6. CASE n \in NodeIds
  <2> DEFINE flight == [node |-> n, job |-> JobOf(kind)]
  <2>1. n # NoNode
    BY <1>6, PolicyAssumption DEF NoNode
  <2>2. /\ inFlight' = [inFlight EXCEPT ![j] = flight]
        /\ mTracked' = mTracked \/ mTracked' = Track(j, kind.prio, Deadline(kind))
    BY <2>1 DEF Submit
  <2>3. flight \in [node : NodeIds, job : {JobOf(k) : k \in Kinds}] /\ flight # Absent
    <3>1. flight.node # Absent.node
      BY <2>1 DEF Absent
    <3> QED
      BY <1>6, <3>1
  <2> HIDE DEF n, flight
  <2>4. inFlight' \in [Jobs -> {Absent} \cup [node : NodeIds, job : {JobOf(k) : k \in Kinds}]]
    BY <2>2, <2>3 DEF FlowInv
  <2>5. ASSUME NEW i \in Jobs, mTracked'[i].tracked PROVE inFlight'[i] # Absent
    <3>1. CASE i = j
      BY <2>2, <2>3, <3>1 DEF FlowInv
    <3>2. CASE i # j
      <4>1. mTracked'[i] = mTracked[i] /\ inFlight'[i] = inFlight[i]
        BY <1>4, <2>2, <3>2 DEF Track, FlowInv
      <4> QED
        BY <2>5, <4>1 DEF FlowInv
    <3> QED
      BY <3>1, <3>2
  <2> QED
    BY <1>2, <1>3, <2>4, <2>5 DEF FlowInv
<1> QED
  BY <1>1, <1>5, <1>6

LEMMA LeavingKeepsFlow ==
    ASSUME FlowInv, AgingInv, NEW j \in Jobs,
           mTracked' = Untrack(j), inFlight' = [inFlight EXCEPT ![j] = Absent],
           UNCHANGED <<setup, mCursor, failed>>
    PROVE  FlowInv'
<1>1. mTracked \in [Jobs -> {Untracked} \cup Entry]
  BY DEF AgingInv
<1>2. inFlight' \in [Jobs -> {Absent} \cup [node : NodeIds, job : {JobOf(k) : k \in Kinds}]]
  BY DEF FlowInv
<1>3. ASSUME NEW i \in Jobs, mTracked'[i].tracked PROVE inFlight'[i] # Absent
  <2>1. i # j /\ mTracked'[i] = mTracked[i] /\ inFlight'[i] = inFlight[i]
    BY <1>1, <1>3 DEF Untrack, Untracked, FlowInv
  <2> QED
    BY <1>3, <2>1 DEF FlowInv
<1> QED
  BY <1>2, <1>3 DEF FlowInv

LEMMA TickKeepsFlow ==
    ASSUME FlowInv, AgingInv, Tick
    PROVE  FlowInv'
<1>1. UNCHANGED <<setup, mCursor, failed, inFlight>> /\ mTracked' = AfterTick
  BY DEF Tick, flowVars
<1>2. ASSUME NEW j \in Jobs, mTracked'[j].tracked PROVE mTracked[j].tracked
  <2>1. ~mTracked[j].tracked => mTracked'[j] = mTracked[j]
    BY <1>1 DEF AfterTick, Expires, Ages
  <2> QED
    BY <1>2, <2>1
<1> QED
  BY <1>1, <1>2 DEF FlowInv

LEMMA CompleteKeepsModel ==
    ASSUME ModelInv, FlowInv, NEW j \in Jobs, Complete(j)
    PROVE  ModelInv'
<1> DEFINE n == inFlight[j].node
           job == inFlight[j].job
<1>1. n \in NodeIds /\ job \in {JobOf(k) : k \in Kinds}
  BY InFlight DEF Complete
<1>2. JobTyped(job) /\ job.depth = 0 /\ job.class \in JobClasses
  BY <1>1, JobTypes, SchedulingAssumption DEF JobOf
<1>3. Observed[n][job.class] \in Nat /\ Unit \in Nat
  BY <1>1, <1>2, SchedulingAssumption, CostModelAssumption
<1>4. Update(n, job, Observed[n][job.class]) /\ UNCHANGED mDegradationEnabled
  BY DEF Complete
<1> HIDE DEF n, job
<1>5. CASE UNCHANGED modelVars
  BY <1>4, <1>5 DEF ModelInv, modelVars
<1>6. CASE /\ job.estimate # 0
           /\ Observe(n, job, (Observed[n][job.class] * Unit) \div job.estimate)
  <2>1. (Observed[n][job.class] * Unit) \div job.estimate \in Nat
    BY <1>2, <1>3, <1>6, Product, Rounded DEF JobTyped
  <2>2. mNodeStates' \in Nodes /\ mAffinityMatrix' \in Matrix /\ Shallow(mNodeStates')
    BY <1>1, <1>2, <1>6, <2>1, ObserveKeepsModel
  <2> QED
    BY <1>4, <2>2 DEF ModelInv
<1> QED
  BY <1>4, <1>5, <1>6 DEF Update

SchedInv == AgingInv /\ ModelInv /\ PersistInv /\ FlowInv

LEMMA SchedInit == Init => ModelInv /\ PersistInv /\ FlowInv
<1> SUFFICES ASSUME Init PROVE ModelInv /\ PersistInv /\ FlowInv
  OBVIOUS
<1>1. ModelInv
  BY ColdModel DEF Init, CostModelInit, ModelInv
<1>2. PersistInv
  BY DEF Init, CostModelInit, PersistInv, FileInv
<1>3. FlowInv
  BY SchedulingAssumption DEF Init, AgingInit, FlowInv, Untracked
<1> QED
  BY <1>1, <1>2, <1>3

LEMMA SchedStep ==
    ASSUME SchedInv, [Next]_vars
    PROVE  (ModelInv /\ PersistInv /\ FlowInv)'
<1> USE DEF SchedInv
<1>1. CASE \E n \in NodeIds : Fail(n) \/ Recover(n)
  <2>1. UNCHANGED <<costModelVars, mTracked, setup, mCursor, inFlight>>
        /\ failed' \subseteq NodeIds
    BY <1>1 DEF Fail, Recover, agingVars, FlowInv
  <2> QED
    BY <2>1 DEF ModelInv, PersistInv, FlowInv, costModelVars, modelVars
<1>2. CASE \E j \in Jobs, kind \in Kinds : Submit(j, kind)
  <2>1. FlowInv' /\ UNCHANGED costModelVars
    BY <1>2, SubmitKeepsFlow DEF Submit
  <2> QED
    BY <2>1 DEF ModelInv, PersistInv, costModelVars, modelVars
<1>3. CASE \E j \in Jobs : Complete(j)
  <2>1. PICK j \in Jobs : Complete(j)
    BY <1>3
  <2>2. ModelInv'
    BY <2>1, CompleteKeepsModel
  <2>3. FlowInv'
    BY <2>1, LeavingKeepsFlow DEF Complete
  <2>4. UNCHANGED <<file, saving, loading>>
    BY <2>1 DEF Complete
  <2> QED
    BY <2>2, <2>3, <2>4 DEF PersistInv
<1>4. CASE \E j \in Jobs : CompleteFailed(j)
  <2>1. FlowInv' /\ UNCHANGED costModelVars
    BY <1>4, LeavingKeepsFlow DEF CompleteFailed
  <2> QED
    BY <2>1 DEF ModelInv, PersistInv, costModelVars, modelVars
<1>5. CASE Tick
  <2>1. FlowInv' /\ UNCHANGED costModelVars
    BY <1>5, TickKeepsFlow DEF Tick
  <2> QED
    BY <2>1 DEF ModelInv, PersistInv, costModelVars, modelVars
<1>6. CASE Clock \/ UNCHANGED vars
  <2>1. UNCHANGED <<costModelVars, mTracked, setup, mCursor, inFlight, failed>>
    BY <1>6 DEF Clock, vars, flowVars, agingVars
  <2> QED
    BY <2>1 DEF ModelInv, PersistInv, FlowInv, costModelVars, modelVars
<1>7. CASE Toggle
  <2>1. /\ UNCHANGED <<mNodeStates, mAffinityMatrix, file, saving, loading>>
        /\ UNCHANGED <<mTracked, setup, mCursor, inFlight, failed>>
        /\ mDegradationEnabled' \in BOOLEAN
    BY <1>7 DEF Toggle, SetDegradationEnabled, Elsewhere, modelVars, flowVars, agingVars
  <2> QED
    BY <2>1 DEF ModelInv, PersistInv, FlowInv
<1>8. CASE Save \/ Load
  <2>1. UNCHANGED <<mTracked, setup, mCursor, inFlight, failed>>
    BY <1>8 DEF Save, Load, Elsewhere, flowVars, agingVars
  <2>2. ModelInv' /\ PersistInv'
    BY <1>8, SaveKeepsFiles, LoadKeepsModel DEF Save, Load
  <2> QED
    BY <2>1, <2>2 DEF FlowInv
<1>9. CASE SwapFile
  <2>1. PICK kind \in {"missing", "foreign"} : ReplaceFile(kind) /\ Elsewhere
    BY <1>9 DEF SwapFile
  <2>2. /\ UNCHANGED <<mNodeStates, mAffinityMatrix, mDegradationEnabled, saving, loading>>
        /\ UNCHANGED <<mTracked, setup, mCursor, inFlight, failed>>
        /\ file' = [kind |-> kind]
    BY <2>1 DEF ReplaceFile, Elsewhere, modelVars, flowVars, agingVars
  <2>3. FileInv(file')
    BY <2>2 DEF FileInv
  <2> QED
    BY <2>2, <2>3 DEF ModelInv, PersistInv, FlowInv
<1>10. CASE ResetModel
  <2>1. /\ UNCHANGED <<mDegradationEnabled, file, saving, loading>>
        /\ UNCHANGED <<mTracked, setup, mCursor, inFlight, failed>>
        /\ mNodeStates' = ColdNodes /\ mAffinityMatrix' = ColdMatrix
    BY <1>10 DEF ResetModel, Reset, Elsewhere, flowVars, agingVars
  <2> QED
    BY <2>1, ColdModel DEF ModelInv, PersistInv, FlowInv
<1>11. CASE RestartProcess
  <2>1. /\ UNCHANGED <<file, setup, failed>>
        /\ mNodeStates' = ColdNodes /\ mAffinityMatrix' = ColdMatrix
        /\ mDegradationEnabled' = TRUE
        /\ saving' = [step |-> "idle"] /\ loading' = [step |-> "idle"]
        /\ inFlight' = [j \in Jobs |-> Absent]
        /\ mTracked' = [j \in Jobs |-> Untracked] /\ mCursor' = 0
    BY <1>11 DEF RestartProcess, Restart
  <2>2. 0 \in 0..(CursorRange - 1)
    BY SchedulingAssumption
  <2>3. ModelInv' /\ PersistInv'
    BY <2>1, ColdModel DEF ModelInv, PersistInv
  <2> QED
    BY <2>1, <2>2, <2>3 DEF FlowInv, Untracked
<1> QED
  BY <1>1, <1>2, <1>3, <1>4, <1>5, <1>6, <1>7, <1>8, <1>9, <1>10, <1>11
     DEF Next, Persist

THEOREM SchedulingInvariant == Spec => []SchedInv
<1>1. Init => ModelInv /\ PersistInv /\ FlowInv
  BY SchedInit
<1>2. AgingInv /\ (ModelInv /\ PersistInv /\ FlowInv) /\ [Next]_vars
        => (ModelInv /\ PersistInv /\ FlowInv)'
  BY SchedStep DEF SchedInv
<1>3. Spec => [](ModelInv /\ PersistInv /\ FlowInv)
  BY <1>1, <1>2, AgingInvariant, PTL DEF Spec
<1>4. AgingInv /\ (ModelInv /\ PersistInv /\ FlowInv) => SchedInv
  BY DEF SchedInv
<1> QED
  BY <1>3, <1>4, AgingInvariant, PTL

(* Every variable keeps its type, and a job that is tracked is in flight.  *)
THEOREM SchedulingTypeCorrect == Spec => []TypeOK
<1>1. SchedInv => TypeOK
  <2> SUFFICES ASSUME SchedInv PROVE TypeOK
    OBVIOUS
  <2>1. \A j \in Jobs : inFlight[j] # Absent =>
          inFlight[j].node \in NodeIds /\ inFlight[j].job \in {JobOf(k) : k \in Kinds}
    BY InFlight DEF SchedInv
  <2> QED
    BY <2>1 DEF SchedInv, AgingInv, ModelInv, PersistInv, FileInv, FlowInv,
                TypeOK, Nodes, Matrix
<1> QED
  BY <1>1, SchedulingInvariant, PTL

(* A degradation curve never learns from any depth but 0, whatever runs    *)
(* and for how long: the callback that reports a completed job does not    *)
(* pass on the depth at which it was dispatched                            *)
(* (Job::queueDepthAtDispatch, DegradationCurve::update).                  *)
THEOREM CurveLearnsDepthZeroOnly == Spec => []Shallow(mNodeStates)
<1>1. SchedInv => Shallow(mNodeStates)
  BY DEF SchedInv, ModelInv
<1> QED
  BY <1>1, SchedulingInvariant, PTL

(* A load replaces the model by what one save() found of it, to the last   *)
(* bit, and nothing else but the learning of a job and a reset changes it, *)
(* for any numbers that the model has learned.                             *)
THEOREM LoadRestoresOneModel == Spec => RestoresOneModel
<1>1. SchedInv /\ [Next]_vars =>
        [ \/ \E j \in Jobs : Complete(j)
          \/ Model' \in {Model, Cold}
          \/ loading.step = "read" /\ Model' = loading.content.of ]_vars
  <2> SUFFICES ASSUME SchedInv, [Next]_vars
               PROVE  \/ \E j \in Jobs : Complete(j)
                      \/ Model' \in {Model, Cold}
                      \/ loading.step = "read" /\ Model' = loading.content.of
                      \/ UNCHANGED vars
    OBVIOUS
  <2>1. CASE UNCHANGED modelVars
    BY <2>1 DEF modelVars, Model
  <2>2. CASE mNodeStates' = ColdNodes /\ mAffinityMatrix' = ColdMatrix
    BY <2>2 DEF Model, Cold
  <2>3. CASE LoadCommit
    <3>1. /\ loading.step = "read"
          /\ loading.content.of \in [nodes : Nodes, affinity : Matrix]
          /\ mNodeStates' = loading.content.of.nodes
          /\ mAffinityMatrix' = loading.content.of.affinity
      BY <2>3, CommitRestores DEF SchedInv, LoadCommit, Holds
    <3> QED
      BY <3>1 DEF Model
  <2>4. CASE \E n \in NodeIds : Fail(n) \/ Recover(n)
    BY <2>1, <2>4 DEF Fail, Recover, costModelVars
  <2>5. CASE \E j \in Jobs, kind \in Kinds : Submit(j, kind)
    BY <2>1, <2>5 DEF Submit, costModelVars
  <2>6. CASE \E j \in Jobs : CompleteFailed(j)
    BY <2>1, <2>6 DEF CompleteFailed, costModelVars
  <2>7. CASE Tick \/ Clock
    BY <2>1, <2>7 DEF Tick, Clock, costModelVars
  <2>8. CASE Toggle \/ SwapFile \/ Save
    BY <2>1, <2>8 DEF Toggle, SetDegradationEnabled, SwapFile, ReplaceFile, Save,
                      SaveOpen, SaveCollect, SaveWrite
  <2>9. CASE Load
    BY <2>1, <2>2, <2>3, <2>9 DEF Load, LoadRead, LoadFails
  <2>10. CASE ResetModel \/ RestartProcess
    BY <2>2, <2>10 DEF ResetModel, Reset, RestartProcess, Restart
  <2> QED
    BY <2>4, <2>5, <2>6, <2>7, <2>8, <2>9, <2>10 DEF Next, Persist
<1> QED
  BY <1>1, SchedulingInvariant, PTL DEF Spec, RestoresOneModel

-----------------------------------------------------------------------------
(* The averages count alike.                                               *)

LEMMA UpTo ==
    ASSUME NEW k \in Nat
    PROVE  IsFiniteSet(1..k) /\ IsFiniteSet(0..(k - 1))
<1>1. 1 \in Int /\ 0 \in Int /\ k \in Int /\ k - 1 \in Int
  OBVIOUS
<1>2. IsFiniteSet(1..k)
  BY <1>1, FS_Interval
<1>3. IsFiniteSet(0..(k - 1))
  BY <1>1, FS_Interval
<1> QED
  BY <1>2, <1>3

LEMMA FiniteAverages == IsFiniteSet(Buckets) /\ IsFiniteSet(Columns)
<1>1. bucketCount \in Nat /\ maxJobClasses \in Nat
  BY CostModelAssumption
<1> QED
  BY <1>1, UpTo DEF Buckets, Columns

LEMMA InObservations ==
    ASSUME NEW emas, NEW S, NEW o
    PROVE  o \in Observations(emas, S)
             <=> \E i \in S : \E k \in 1..emas[i].observations : o = <<i, k>>
BY DEF Observations

LEMMA ObservationsFinite ==
    ASSUME NEW S, IsFiniteSet(S), NEW emas, \A i \in S : emas[i].observations \in Nat
    PROVE  /\ IsFiniteSet(Observations(emas, S))
           /\ Cardinality(Observations(emas, S)) \in Nat
<1> DEFINE Of(i) == {i} \X (1..emas[i].observations)
           sets == {Of(i) : i \in S}
           f == [i \in S |-> Of(i)]
<1>1. IsFiniteSet(sets)
  <2>1. f \in Surjection(S, sets)
    BY DEF Surjection
  <2> QED
    BY <2>1, FS_Surjection
<1>2. \A T \in sets : IsFiniteSet(T)
  <2> SUFFICES ASSUME NEW i \in S PROVE IsFiniteSet(Of(i))
    OBVIOUS
  <2>1. IsFiniteSet({i}) /\ IsFiniteSet(1..emas[i].observations)
    BY FS_Singleton, UpTo
  <2> QED
    BY <2>1, FS_Product
<1>3. IsFiniteSet(UNION sets)
  <2> HIDE DEF sets
  <2> QED
    BY <1>1, <1>2, FS_UNION
<1>4. Observations(emas, S) = UNION sets
  BY DEF Observations
<1> QED
  BY <1>3, <1>4, FS_CardinalityType

(* Averages that have counted alike have the same observations.            *)
LEMMA SameObservations ==
    ASSUME NEW S, NEW emas, NEW other,
           \A i \in S : other[i].observations = emas[i].observations
    PROVE  Observations(other, S) = Observations(emas, S)
<1>1. \A o : o \in Observations(other, S) <=> o \in Observations(emas, S)
  BY InObservations
<1> QED
  BY <1>1

LEMMA NoObservations ==
    ASSUME NEW S, NEW emas, \A i \in S : emas[i].observations = 0
    PROVE  Cardinality(Observations(emas, S)) = 0
<1>1. 1..0 = {}
  OBVIOUS
<1>2. \A o : o \notin Observations(emas, S)
  BY <1>1, InObservations
<1> QED
  BY <1>2, FS_EmptySet

(* One average more has observed once more.                                *)
LEMMA OneMoreObservation ==
    ASSUME NEW S, IsFiniteSet(S), NEW emas, NEW other, NEW x \in S,
           \A i \in S : emas[i].observations \in Nat,
           other[x].observations = emas[x].observations + 1,
           \A i \in S \ {x} : other[i].observations = emas[i].observations
    PROVE  Cardinality(Observations(other, S)) = Cardinality(Observations(emas, S)) + 1
<1> DEFINE last == emas[x].observations + 1
<1>1. last \in Nat /\ 1..last = (1..(last - 1)) \cup {last} /\ last \notin 1..(last - 1)
      /\ last - 1 = emas[x].observations
  OBVIOUS
<1>2. <<x, last>> \notin Observations(emas, S)
  <2>1. ASSUME <<x, last>> \in Observations(emas, S) PROVE FALSE
    <3>1. PICK i \in S : \E k \in 1..emas[i].observations : <<x, last>> = <<i, k>>
      BY <2>1, InObservations
    <3>2. PICK k \in 1..emas[i].observations : <<x, last>> = <<i, k>>
      BY <3>1
    <3>3. i = x /\ k = last
      BY <3>2
    <3> QED
      BY <1>1, <3>2, <3>3
  <2> QED
    BY <2>1
<1>3. \A o : o \in Observations(other, S)
               <=> o \in Observations(emas, S) \cup {<<x, last>>}
  <2> SUFFICES ASSUME NEW o
               PROVE  (\E i \in S : \E k \in 1..other[i].observations : o = <<i, k>>)
                        <=> \/ \E i \in S : \E k \in 1..emas[i].observations : o = <<i, k>>
                            \/ o = <<x, last>>
    BY InObservations
  <2> HIDE DEF last
  <2>1. ASSUME NEW i \in S, NEW k, k \in 1..other[i].observations, o = <<i, k>>
        PROVE  \/ \E m \in 1..emas[i].observations : o = <<i, m>>
               \/ o = <<x, last>>
    <3>1. CASE i = x
      BY <1>1, <2>1, <3>1 DEF last
    <3>2. CASE i # x
      BY <2>1, <3>2
    <3> QED
      BY <3>1, <3>2
  <2>2. ASSUME NEW i \in S, NEW k, k \in 1..emas[i].observations, o = <<i, k>>
        PROVE  \E m \in 1..other[i].observations : o = <<i, m>>
    <3>1. CASE i = x
      BY <1>1, <2>2, <3>1 DEF last
    <3>2. CASE i # x
      BY <2>2, <3>2
    <3> QED
      BY <3>1, <3>2
  <2>3. o = <<x, last>> => \E k \in 1..other[x].observations : o = <<x, k>>
    BY <1>1 DEF last
  <2> QED
    BY <2>1, <2>2, <2>3
<1>4. Observations(other, S) = Observations(emas, S) \cup {<<x, last>>}
  BY <1>3
<1> HIDE DEF last
<1> QED
  BY <1>2, <1>4, ObservationsFinite, FS_AddElement

(* The three averages of a model have counted alike.                        *)
RowNodes(r) == {n \in NodeIds : ClampRow(n) = r}

Agree(nodes, matrix) ==
    /\ \A n \in NodeIds :
          Cardinality(Observations(nodes[n].buckets, Buckets))
              = nodes[n].throughput.observations
    /\ \A r \in Rows :
          Cardinality(Observations(matrix[r], Columns))
              = Cardinality(Observations([n \in NodeIds |-> nodes[n].throughput],
                                         RowNodes(r)))

LEMMA ColdAgrees == Agree(ColdNodes, ColdMatrix)
<1>1. ASSUME NEW n \in NodeIds
      PROVE  Cardinality(Observations(ColdNodes[n].buckets, Buckets))
                 = ColdNodes[n].throughput.observations
  <2>1. /\ \A b \in Buckets : ColdNodes[n].buckets[b].observations = 0
        /\ ColdNodes[n].throughput.observations = 0
    BY DEF ColdNodes, ColdNode, Neutral
  <2> QED
    BY <2>1, NoObservations
<1>2. ASSUME NEW r \in Rows
      PROVE  Cardinality(Observations(ColdMatrix[r], Columns))
                 = Cardinality(Observations([n \in NodeIds |-> ColdNodes[n].throughput],
                                            RowNodes(r)))
  <2> DEFINE throughputs == [n \in NodeIds |-> ColdNodes[n].throughput]
  <2>1. \A c \in Columns : ColdMatrix[r][c].observations = 0
    BY DEF ColdMatrix, Neutral
  <2>2. \A n \in RowNodes(r) : throughputs[n].observations = 0
    BY DEF ColdNodes, ColdNode, Neutral, RowNodes
  <2> HIDE DEF throughputs
  <2>3. Cardinality(Observations(throughputs, RowNodes(r))) = 0
    BY <2>2, NoObservations
  <2> QED
    BY <2>1, <2>3, NoObservations DEF throughputs
<1> QED
  BY <1>1, <1>2 DEF Agree

(* An observation is counted once by the node, once by its curve and once  *)
(* by its row of the matrix.                                               *)
LEMMA ObserveKeepsAgreement ==
    ASSUME ModelInv, Agree(mNodeStates, mAffinityMatrix),
           NEW n \in NodeIds, NEW job, JobTyped(job), job.depth = 0,
           NEW ratio \in Nat, Observe(n, job, ratio)
    PROVE  Agree(mNodeStates', mAffinityMatrix')
<1> DEFINE grown == Grown(n, job, ratio)
           before == mNodeStates[n]
<1>1. /\ BucketIndex(job.depth) = 0 /\ 0 \in Buckets
      /\ mNodeStates' = [mNodeStates EXCEPT ![n] = grown]
  BY ObserveGrows
<1>2. before.throughput \in Ema /\ before.buckets \in [Buckets -> Ema]
  BY DEF ModelInv, Nodes
<1>3. /\ grown.throughput.observations = before.throughput.observations + 1
      /\ grown.buckets[0].observations = before.buckets[0].observations + 1
      /\ \A d \in Buckets \ {0} :
            grown.buckets[d].observations = before.buckets[d].observations
  BY <1>1, <1>2 DEF Grown, Learned
<1> HIDE DEF grown, before
<1>4. /\ mNodeStates'[n] = grown
      /\ \A m \in NodeIds \ {n} : mNodeStates'[m] = mNodeStates[m]
  BY <1>1 DEF ModelInv, Nodes
<1>5. ASSUME NEW m \in NodeIds
      PROVE  Cardinality(Observations(mNodeStates'[m].buckets, Buckets))
                 = mNodeStates'[m].throughput.observations
  <2>1. CASE m # n
    BY <1>4, <2>1 DEF Agree
  <2>2. CASE m = n
    <3>1. IsFiniteSet(Buckets) /\ \A d \in Buckets : before.buckets[d].observations \in Nat
      BY <1>2, FiniteAverages DEF Ema
    <3>2. Cardinality(Observations(grown.buckets, Buckets))
            = Cardinality(Observations(before.buckets, Buckets)) + 1
      BY <1>1, <1>3, <3>1, OneMoreObservation
    <3> QED
      BY <1>3, <1>4, <2>2, <3>2 DEF Agree, before
  <2> QED
    BY <2>1, <2>2
<1> DEFINE throughputs == [m \in NodeIds |-> mNodeStates[m].throughput]
           later == [m \in NodeIds |-> mNodeStates'[m].throughput]
<1>6. /\ later[n].observations = throughputs[n].observations + 1
      /\ \A m \in NodeIds \ {n} : later[m] = throughputs[m]
      /\ \A m \in NodeIds : throughputs[m].observations \in Nat
  BY <1>3, <1>4 DEF before, ModelInv, Nodes, Ema
<1> HIDE DEF throughputs, later
<1>7. ASSUME NEW r \in Rows
      PROVE  Cardinality(Observations(mAffinityMatrix'[r], Columns))
                 = Cardinality(Observations(later, RowNodes(r)))
  <2>1. Cardinality(Observations(mAffinityMatrix[r], Columns))
          = Cardinality(Observations(throughputs, RowNodes(r)))
    BY DEF Agree, throughputs
  <2> DEFINE x == ClampRow(n)
             c == ClampColumn(job.class)
             l == Learned(mAffinityMatrix[x][c], ratio, cellPeriod)
  <2>2. /\ x \in Rows /\ c \in Columns
        /\ mAffinityMatrix' = [mAffinityMatrix EXCEPT ![x][c] = l]
    BY ObserveTeachesCell
  <2>3. mAffinityMatrix[r] \in [Columns -> Ema] /\ mAffinityMatrix \in Matrix
    BY DEF ModelInv, Matrix
  <2>4. l.observations = mAffinityMatrix[x][c].observations + 1
    BY DEF Learned
  <2> HIDE DEF c, l
  <2>5. CASE r # x
    <3>1. mAffinityMatrix'[r] = mAffinityMatrix[r]
      <4> HIDE DEF x
      <4> QED
        BY <2>2, <2>3, <2>5 DEF Matrix
    <3>2. n \notin RowNodes(r)
      BY <2>5 DEF RowNodes
    <3>3. \A m \in RowNodes(r) : later[m].observations = throughputs[m].observations
      BY <1>6, <3>2 DEF RowNodes
    <3> QED
      BY <2>1, <3>1, <3>3, SameObservations
  <2>6. CASE r = x
    <3>1. /\ mAffinityMatrix'[r][c].observations = mAffinityMatrix[r][c].observations + 1
          /\ \A k \in Columns \ {c} : mAffinityMatrix'[r][k] = mAffinityMatrix[r][k]
      <4> HIDE DEF x
      <4> QED
        BY <2>2, <2>3, <2>4, <2>6 DEF Matrix
    <3>2. IsFiniteSet(Columns) /\ \A k \in Columns : mAffinityMatrix[r][k].observations \in Nat
      BY <2>3, FiniteAverages DEF Ema
    <3>3. Cardinality(Observations(mAffinityMatrix'[r], Columns))
            = Cardinality(Observations(mAffinityMatrix[r], Columns)) + 1
      BY <2>2, <3>1, <3>2, OneMoreObservation
    <3>4. n \in RowNodes(r) /\ IsFiniteSet(RowNodes(r)) /\ RowNodes(r) \subseteq NodeIds
      BY <2>6, CostModelAssumption, FS_Subset DEF RowNodes
    <3>5. /\ \A m \in RowNodes(r) : throughputs[m].observations \in Nat
          /\ \A m \in RowNodes(r) \ {n} : later[m].observations = throughputs[m].observations
      BY <1>6, <3>4
    <3>6. Cardinality(Observations(later, RowNodes(r)))
            = Cardinality(Observations(throughputs, RowNodes(r))) + 1
      BY <1>6, <3>4, <3>5, OneMoreObservation
    <3> QED
      BY <2>1, <3>3, <3>6
  <2> QED
    BY <2>5, <2>6
<1> QED
  BY <1>5, <1>7 DEF Agree, later

CountedFile(f) == f.kind = "model" => Agree(f.of.nodes, f.of.affinity)

CountInv ==
    /\ Agree(mNodeStates, mAffinityMatrix)
    /\ CountedFile(file)
    /\ saving.step = "collected" => Agree(saving.of.nodes, saving.of.affinity)
    /\ loading.step = "read" => CountedFile(loading.content)

LEMMA CompleteKeepsAgreement ==
    ASSUME ModelInv, FlowInv, Agree(mNodeStates, mAffinityMatrix),
           NEW j \in Jobs, Complete(j)
    PROVE  Agree(mNodeStates', mAffinityMatrix')
<1> DEFINE n == inFlight[j].node
           job == inFlight[j].job
<1>1. n \in NodeIds /\ job \in {JobOf(k) : k \in Kinds}
  BY InFlight DEF Complete
<1>2. JobTyped(job) /\ job.depth = 0 /\ job.class \in JobClasses
  BY <1>1, JobTypes, SchedulingAssumption DEF JobOf
<1>3. Observed[n][job.class] \in Nat /\ Unit \in Nat
  BY <1>1, <1>2, SchedulingAssumption, CostModelAssumption
<1>4. Update(n, job, Observed[n][job.class])
  BY DEF Complete
<1> HIDE DEF n, job
<1>5. CASE UNCHANGED modelVars
  BY <1>5 DEF modelVars
<1>6. CASE /\ job.estimate # 0
           /\ Observe(n, job, (Observed[n][job.class] * Unit) \div job.estimate)
  <2>1. (Observed[n][job.class] * Unit) \div job.estimate \in Nat
    BY <1>2, <1>3, <1>6, Product, Rounded DEF JobTyped
  <2> QED
    BY <1>1, <1>2, <1>6, <2>1, ObserveKeepsAgreement
<1> QED
  BY <1>4, <1>5, <1>6 DEF Update

LEMMA CountStep ==
    ASSUME SchedInv, CountInv, [Next]_vars
    PROVE  CountInv'
<1>1. CASE UNCHANGED <<modelVars, file, saving, loading>>
  BY <1>1 DEF CountInv, modelVars
<1>2. CASE \E j \in Jobs : Complete(j)
  <2>1. UNCHANGED <<file, saving, loading>>
    BY <1>2 DEF Complete
  <2>2. Agree(mNodeStates', mAffinityMatrix')
    BY <1>2, CompleteKeepsAgreement DEF SchedInv, CountInv
  <2> QED
    BY <2>1, <2>2 DEF CountInv
<1>3. CASE /\ mNodeStates' = ColdNodes /\ mAffinityMatrix' = ColdMatrix
           /\ UNCHANGED file
           /\ saving' \in {saving, [step |-> "idle"]}
           /\ loading' \in {loading, [step |-> "idle"]}
  BY <1>3, ColdAgrees DEF CountInv
<1>4. CASE SaveOpen \/ SaveCollect \/ SaveWrite
  <2>1. CASE SaveOpen
    BY <2>1 DEF SaveOpen, CountInv, CountedFile, modelVars
  <2>2. CASE SaveCollect
    <3>1. /\ UNCHANGED <<mNodeStates, mAffinityMatrix, file, loading>>
          /\ saving'.of = [nodes |-> mNodeStates, affinity |-> mAffinityMatrix]
      BY <2>2 DEF SaveCollect, modelVars
    <3> QED
      BY <3>1 DEF CountInv
  <2>3. CASE SaveWrite
    <3>1. /\ UNCHANGED <<mNodeStates, mAffinityMatrix, loading>>
          /\ saving.step = "collected" /\ saving'.step = "idle"
          /\ file'.of = saving.of
      BY <2>3 DEF SaveWrite, modelVars
    <3> QED
      BY <3>1 DEF CountInv, CountedFile
  <2> QED
    BY <1>4, <2>1, <2>2, <2>3
<1>5. CASE ReplaceFile("missing") \/ ReplaceFile("foreign")
  BY <1>5 DEF ReplaceFile, CountInv, CountedFile, modelVars
<1>6. CASE LoadRead
  <2>1. /\ UNCHANGED <<mNodeStates, mAffinityMatrix, file, saving>>
        /\ loading' = [step |-> "read", content |-> file]
    BY <1>6 DEF LoadRead, modelVars
  <2> QED
    BY <2>1 DEF CountInv
<1>7. CASE LoadCommit
  <2>1. /\ loading.step = "read" /\ loading.content.kind = "model"
        /\ loading'.step = "idle" /\ UNCHANGED <<file, saving>>
    BY <1>7 DEF LoadCommit
  <2>2. /\ mNodeStates' = loading.content.of.nodes
        /\ mAffinityMatrix' = loading.content.of.affinity
    BY <1>7, CommitRestores DEF SchedInv
  <2> QED
    BY <2>1, <2>2 DEF CountInv, CountedFile
<1>8. CASE \/ \E m \in NodeIds : Fail(m) \/ Recover(m)
           \/ \E j \in Jobs : CompleteFailed(j) \/ \E kind \in Kinds : Submit(j, kind)
           \/ Tick \/ Clock \/ Toggle \/ UNCHANGED vars
  BY <1>1, <1>8 DEF Fail, Recover, CompleteFailed, Submit, Tick, Clock, Toggle,
                    SetDegradationEnabled, costModelVars, vars
<1>9. CASE Save \/ SwapFile
  BY <1>4, <1>5, <1>9 DEF Save, SwapFile
<1>10. CASE Load
  BY <1>3, <1>6, <1>7, <1>10 DEF Load, LoadFails
<1>11. CASE ResetModel \/ RestartProcess
  BY <1>3, <1>11 DEF ResetModel, Reset, RestartProcess, Restart
<1> QED
  BY <1>2, <1>8, <1>9, <1>10, <1>11 DEF Next, Persist

(* Throughput, degradation curve and affinity matrix count the same        *)
(* observations, for any nodes, classes and sizes of the matrix, whatever  *)
(* is saved, lost, loaded and restarted in between (CostModel::update,     *)
(* load).                                                                  *)
THEOREM AveragesCountAlike == Spec => []ObservationsAgree
<1>1. Init => CountInv
  BY ColdAgrees DEF Init, CostModelInit, CountInv, CountedFile
<1>2. SchedInv /\ CountInv /\ [Next]_vars => CountInv'
  BY CountStep
<1>3. CountInv => ObservationsAgree
  BY DEF CountInv, Agree, RowNodes, ObservationsAgree, Throughputs
<1> QED
  BY <1>1, <1>2, <1>3, SchedulingInvariant, PTL DEF Spec

-----------------------------------------------------------------------------
(* Load decides.                                                           *)

(* No multiplier is so small that a known cost is predicted to be none.    *)
KnownCosts == \A k \in Kinds : k.estimate = 0 \/ 2 * (k.estimate * minMultiplier) >= Unit

LEMMA Larger ==
    ASSUME NEW a \in Nat, NEW b \in Nat, NEW c \in Nat, b <= c
    PROVE  a * b <= a * c /\ b * a <= c * a
BY SMT

LEMMA PredictPositive ==
    ASSUME ModelInv, KnownCosts, NEW kind \in Kinds, kind.estimate > 0,
           NEW n \in NodeIds
    PROVE  Predict(JobOf(kind), n) > 0 /\ NodeMultiplier(n) > 0
<1> DEFINE job == JobOf(kind)
<1>1. /\ ModelTyped /\ JobTyped(job)
      /\ job.estimate = kind.estimate /\ kind.estimate \in Nat
      /\ Unit \in Nat \ {0} /\ minMultiplier \in Nat
  BY JobTypes, SchedulingAssumption, CostModelAssumption
     DEF ModelInv, ModelTyped, Nodes, Matrix, JobOf
<1>2. 2 * (kind.estimate * minMultiplier) >= Unit
  BY <1>1 DEF KnownCosts
<1>3. minMultiplier > 0
  BY <1>1, <1>2, SMT
<1>4. NodeMultiplier(n) > 0
  <2>1. mNodeStates[n].throughput.value \in Nat
    BY <1>1 DEF ModelTyped, Ema
  <2>2. Clamped(mNodeStates[n].throughput.value) >= minMultiplier
        /\ Clamped(mNodeStates[n].throughput.value) \in Nat
    BY <2>1, ClampedType
  <2> QED
    BY <1>1, <1>3, <2>2 DEF NodeMultiplier
<1>5. Predict(job, n) > 0
  <2> DEFINE learned == Times(mNodeStates[n].throughput.value, AffinityScore(n, job.class))
             degraded == IF mDegradationEnabled
                         THEN Times(learned, DegradationMultiplier(n, job.depth))
                         ELSE learned
  <2>1. degraded \in Nat
    BY <1>1, AnswerTypes, TimesType DEF ModelTyped, Ema
  <2>2. Clamped(degraded) \in Nat /\ minMultiplier <= Clamped(degraded)
    BY <2>1, ClampedType, CostModelAssumption
  <2>3. kind.estimate * minMultiplier <= kind.estimate * Clamped(degraded)
    BY <1>1, <2>2, Larger
  <2> HIDE DEF degraded
  <2>4. /\ kind.estimate * Clamped(degraded) \in Nat
        /\ kind.estimate * minMultiplier \in Nat
    BY <1>1, <2>2, Product
  <2>5. kind.estimate * Clamped(degraded) + Unit \div 2 >= Unit
        /\ Unit \div 2 \in Nat
    BY <1>1, <1>2, <2>3, <2>4, SMT
  <2>6. ASSUME NEW a \in Nat, a >= Unit PROVE a \div Unit > 0
    BY <1>1, <2>6, SMTT(30)
  <2>7. (kind.estimate * Clamped(degraded) + Unit \div 2) \div Unit > 0
    BY <2>4, <2>5, <2>6
  <2> QED
    BY <1>1, <2>7 DEF Predict, degraded
<1> QED
  BY <1>4, <1>5

(* The node that a load-aware policy selects comes first by some measure.  *)
LEMMA ChosenByLoad ==
    ASSUME ModelInv, FlowInv, NEW kind \in Kinds, Policy.kind \in LoadAware,
           Eligible(JobOf(kind), View) # {},
           NEW m \in Eligible(JobOf(kind), View)
    PROVE  LET job == JobOf(kind)
               n == SelectNode(Policy, job, View, mCursor)
           IN  \/ ~(Waiting(m, View) * NodeMultiplier(m)
                        < Waiting(n, View) * NodeMultiplier(n))
               \/ ~(View[m].depth < View[n].depth)
               \/ /\ AffinityScore(m, job.class) = AffinityScore(n, job.class)
                     => ~(Completion(m, job, View) < Completion(n, job, View))
<1> DEFINE job == JobOf(kind)
           n == SelectNode(Policy, job, View, mCursor)
           name == setup.policy
           First(i) ==
               \/ ~(Waiting(m, View) * NodeMultiplier(m)
                        < Waiting(i, View) * NodeMultiplier(i))
               \/ ~(View[m].depth < View[i].depth)
               \/ /\ AffinityScore(m, job.class) = AffinityScore(i, job.class)
                     => ~(Completion(m, job, View) < Completion(i, job, View))
<1>1. /\ ModelTyped /\ JobTyped(job) /\ ViewTyped(View) /\ mCursor \in Nat
      /\ Eligible(job, View) # {}
  BY JobTypes, ViewTypes, SchedulingAssumption
     DEF ModelInv, ModelTyped, Nodes, Matrix, FlowInv
<1> HIDE DEF job
<1>2. First(EarliestDeadlineFirst(job, View))
  BY <1>1, EarliestDeadlineFirstFirst DEF job
<1>3. CASE name = "policy.composite"
  <2>1. DefaultChain # <<>> /\ DefaultChain[1] = "earliest_deadline_first"
    BY DEF DefaultChain
  <2>2. DefaultChain \in Seq({"earliest_deadline_first", "least_loaded"})
    BY ChainIsSequence
  <2>3. n = SelectNode(MakePolicy("earliest_deadline_first", TRUE, DefaultChain),
                       job, View, mCursor)
    BY <1>1, <1>3, <2>1, <2>2, FirstPolicyDecides DEF Policy, Decisive
  <2>4. n = EarliestDeadlineFirst(job, View)
    BY <1>1, <2>3 DEF MakePolicy, MakeSimple, Simple, Standalone, SelectNode, SelectSimple
  <2> HIDE DEF First, n
  <2>5. First(n)
    BY <1>2, <2>4
  <2> QED
    BY <2>5 DEF First, n, job
<1>4. CASE name # "policy.composite"
  <2>1. Policy = MakeSimple(name, TRUE)
    BY <1>4 DEF Policy, MakePolicy
  <2>2. Policy.kind # "policy.composite"
    BY <2>1, SimpleKind
  <2>3. n = SelectSimple(Policy.kind, job, View, mCursor)
    BY <2>2 DEF SelectNode
  <2>4. /\ First(LeastLoaded(job, View)) /\ First(WorkStealing(job, View))
        /\ First(AffinityRouting(job, View)) /\ First(ShortestJobFirst(job, View))
    BY <1>1, LeastLoadedFirst, WorkStealingFirst, AffinityRoutingFirst,
       ShortestJobFirstFirst DEF job
  <2> HIDE DEF First, n
  <2>5. n \in {LeastLoaded(job, View), WorkStealing(job, View),
               AffinityRouting(job, View), ShortestJobFirst(job, View),
               EarliestDeadlineFirst(job, View)}
    BY <1>1, <2>2, <2>3 DEF LoadAware, SelectSimple
  <2>6. First(n)
    BY <1>2, <2>4, <2>5
  <2> QED
    BY <2>6 DEF First, n, job
<1> QED
  BY <1>3, <1>4

(* For a job of a known cost, no node that would take it is worse in load, *)
(* in predicted cost and in speed than the one it is sent to, and of the   *)
(* same affinity.                                                          *)
LEMMA DominatedComesLater ==
    ASSUME ModelInv, FlowInv, KnownCosts, NEW kind \in Kinds, kind.estimate > 0,
           NEW m \in NodeIds, NEW n \in NodeIds, Dominates(m, n, JobOf(kind))
    PROVE  LET job == JobOf(kind)
           IN  /\ View[m].depth < View[n].depth
               /\ Waiting(m, View) * NodeMultiplier(m) < Waiting(n, View) * NodeMultiplier(n)
               /\ AffinityScore(m, job.class) = AffinityScore(n, job.class)
               /\ Completion(m, job, View) < Completion(n, job, View)
<1> DEFINE job == JobOf(kind)
<1>1. /\ ModelTyped /\ JobTyped(job) /\ ViewTyped(View)
  BY JobTypes, ViewTypes DEF ModelInv, ModelTyped, Nodes, Matrix
<1>2. \A i \in NodeIds : View[i].depth = QueueDepth(i)
  BY DEF View
<1>3. /\ Waiting(m, View) \in Nat /\ Waiting(n, View) \in Nat
      /\ View[m].depth < View[n].depth
      /\ Waiting(m, View) < Waiting(n, View)
  BY <1>1, <1>2 DEF Dominates, Waiting, ViewTyped
<1>4. /\ Predict(job, m) \in Nat /\ Predict(job, n) \in Nat
      /\ NodeMultiplier(m) \in Nat /\ NodeMultiplier(n) \in Nat
  BY <1>1, AnswerTypes
<1>5. Predict(job, n) > 0 /\ NodeMultiplier(n) > 0
  BY PredictPositive
<1>6. /\ Predict(job, m) <= Predict(job, n)
      /\ NodeMultiplier(m) <= NodeMultiplier(n)
      /\ AffinityScore(m, job.class) = AffinityScore(n, job.class)
  BY DEF Dominates
<1>7. ASSUME NEW a \in Nat, NEW b \in Nat, a <= b, b > 0
      PROVE  /\ Waiting(m, View) * a < Waiting(n, View) * b
             /\ a * Waiting(m, View) < b * Waiting(n, View)
  <2>1. Waiting(m, View) * a <= Waiting(m, View) * b
        /\ a * Waiting(m, View) <= b * Waiting(m, View)
    BY <1>3, <1>7, Larger
  <2>2. Waiting(m, View) * b < Waiting(n, View) * b
    BY <1>3, <1>7, Scaling
  <2>3. /\ b * Waiting(m, View) = Waiting(m, View) * b
        /\ b * Waiting(n, View) = Waiting(n, View) * b
    BY <1>3, SMT
  <2>4. /\ Waiting(m, View) * a \in Nat /\ Waiting(m, View) * b \in Nat
        /\ Waiting(n, View) * b \in Nat /\ a * Waiting(m, View) \in Nat
    BY <1>3, Product
  <2> QED
    BY <2>1, <2>2, <2>3, <2>4
<1> QED
  BY <1>3, <1>4, <1>5, <1>6, <1>7 DEF Completion

(* Every policy that looks at the load avoids a node that is worse in load *)
(* and no better in anything else, whatever the model has learned, unless  *)
(* a multiplier may round a known cost down to none.                       *)
THEOREM LoadDecides ==
    ASSUME KnownCosts
    PROVE  Spec => NoDominatedChoice
<1>1. SchedInv /\ [Next]_vars =>
        [ \A j \in Jobs :
            /\ Policy.kind \in LoadAware
            /\ inFlight[j] = Absent
            /\ inFlight'[j] # Absent
            /\ inFlight'[j].job.estimate > 0
            =>
              \A m \in Eligible(inFlight'[j].job, View) :
                  ~Dominates(m, inFlight'[j].node, inFlight'[j].job) ]_vars
  <2> SUFFICES ASSUME SchedInv, Next, NEW j \in Jobs,
                      Policy.kind \in LoadAware,
                      inFlight[j] = Absent, inFlight'[j] # Absent,
                      inFlight'[j].job.estimate > 0,
                      NEW m \in Eligible(inFlight'[j].job, View)
               PROVE  ~Dominates(m, inFlight'[j].node, inFlight'[j].job)
    BY DEF vars, flowVars
  <2>1. inFlight \in [Jobs -> {Absent} \cup [node : NodeIds, job : {JobOf(k) : k \in Kinds}]]
    BY DEF SchedInv, FlowInv
  <2>2. PICK kind \in Kinds : Submit(j, kind)
    <3>1. CASE \E i \in Jobs, kind \in Kinds : Submit(i, kind)
      <4>1. PICK i \in Jobs, kind \in Kinds : Submit(i, kind)
        BY <3>1
      <4>2. i = j
        <5>1. inFlight' = inFlight \/ \E x : inFlight' = [inFlight EXCEPT ![i] = x]
          BY <4>1, Zenon DEF Submit
        <5> QED
          BY <2>1, <5>1
      <4> QED
        BY <4>1, <4>2
    <3>2. CASE \E i \in Jobs : Complete(i) \/ CompleteFailed(i)
      <4>1. PICK i \in Jobs : inFlight' = [inFlight EXCEPT ![i] = Absent]
        BY <3>2 DEF Complete, CompleteFailed
      <4> QED
        BY <2>1, <4>1
    <3>3. CASE RestartProcess
      BY <3>3 DEF RestartProcess
    <3>4. CASE \/ \E n \in NodeIds : Fail(n) \/ Recover(n)
              \/ Tick \/ Clock \/ Toggle \/ Save \/ Load \/ SwapFile \/ ResetModel
      <4>1. inFlight' = inFlight
        BY <3>4 DEF Fail, Recover, Tick, Clock, Toggle, Save, Load, SwapFile,
                    ResetModel, Elsewhere, flowVars
      <4> QED
        BY <4>1
    <3> QED
      BY <3>1, <3>2, <3>3, <3>4 DEF Next, Persist
  <2> DEFINE job == JobOf(kind)
             n == SelectNode(Policy, job, View, mCursor)
  <2>3. n # NoNode /\ inFlight' = [inFlight EXCEPT ![j] = [node |-> n, job |-> job]]
    BY <2>2 DEF Submit
  <2>4. inFlight'[j].node = n /\ inFlight'[j].job = job
    <3> HIDE DEF n, job
    <3> QED
      BY <2>1, <2>3
  <2>5. kind.estimate > 0
    BY <2>4 DEF JobOf
  <2>6. m \in Eligible(job, View)
    BY <2>4
  <2>7. n \in NodeIds /\ m \in NodeIds
    BY <2>3, <2>6, Selected, EligibleSet DEF SchedInv
  <2>8. SUFFICES ASSUME Dominates(m, n, job) PROVE FALSE
    BY <2>4
  <2>9. /\ View[m].depth < View[n].depth
        /\ Waiting(m, View) * NodeMultiplier(m) < Waiting(n, View) * NodeMultiplier(n)
        /\ AffinityScore(m, job.class) = AffinityScore(n, job.class)
        /\ Completion(m, job, View) < Completion(n, job, View)
    <3> HIDE DEF n
    <3> QED
      BY <2>5, <2>7, <2>8, DominatedComesLater DEF SchedInv
  <2>10. \/ ~(Waiting(m, View) * NodeMultiplier(m) < Waiting(n, View) * NodeMultiplier(n))
         \/ ~(View[m].depth < View[n].depth)
         \/ /\ AffinityScore(m, job.class) = AffinityScore(n, job.class)
               => ~(Completion(m, job, View) < Completion(n, job, View))
    BY <2>6, ChosenByLoad DEF SchedInv
  <2> QED
    BY <2>9, <2>10, Zenon
<1> QED
  BY <1>1, SchedulingInvariant, PTL DEF Spec, NoDominatedChoice
=============================================================================
