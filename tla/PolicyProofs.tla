---------------------------- MODULE PolicyProofs ----------------------------
(***************************************************************************)
(* Proofs about the scheduling policies, for any nodes, any model and any  *)
(* view: each policy selects an eligible node that comes first by its own  *)
(* measure whenever there is an eligible node, so that a chain of policies *)
(* never reaches its second member.                                        *)
(***************************************************************************)
EXTENDS SchedulingPolicies, FiniteSetTheorems, WellFoundedInduction, TLAPS

(* The types of what the policies read.                                    *)
ModelTyped ==
    /\ mNodeStates \in [NodeIds -> [throughput : Ema, buckets : [Buckets -> Ema]]]
    /\ mAffinityMatrix \in [Rows -> [Columns -> Ema]]

ViewTyped(view) ==
    \A n \in NodeIds : view[n].depth \in Nat /\ view[n].utilization \in Nat

JobTyped(job) == job.class \in Nat /\ job.estimate \in Nat /\ job.depth \in Nat

-----------------------------------------------------------------------------
(* A strict weak order R on a finite set of ids, with the ids to break     *)
(* ties, has a first element.                                              *)

Before(R, m, n) == <<m, n>> \in R \/ (<<n, m>> \notin R /\ m < n)

WeakOrder(R, S) ==
    /\ \A x \in S : <<x, x>> \notin R
    /\ \A x, y, z \in S : <<x, y>> \in R /\ <<y, z>> \in R => <<x, z>> \in R
    /\ \A x, y, z \in S : <<x, z>> \in R => <<x, y>> \in R \/ <<y, z>> \in R

LEMMA BeforeOrders ==
    ASSUME NEW S, S \subseteq Nat, NEW R, WeakOrder(R, S)
    PROVE  /\ \A x \in S : ~Before(R, x, x)
           /\ \A x, y, z \in S : Before(R, x, y) /\ Before(R, y, z) => Before(R, x, z)
           /\ \A x, y \in S : x # y => Before(R, x, y) \/ Before(R, y, x)
<1>1. ASSUME NEW x \in S PROVE ~Before(R, x, x)
  <2>1. x \in Nat
    OBVIOUS
  <2> QED
    BY <2>1, SMT DEF Before, WeakOrder
<1>2. ASSUME NEW x \in S, NEW y \in S, NEW z \in S,
             Before(R, x, y), Before(R, y, z)
      PROVE  Before(R, x, z)
  <2>1. x \in Nat /\ y \in Nat /\ z \in Nat
    OBVIOUS
  <2>2. ~(<<z, x>> \in R /\ <<x, y>> \in R /\ <<z, y>> \notin R)
    BY DEF WeakOrder
  <2>3. CASE <<x, y>> \in R
    BY <1>2, <2>1, <2>3, SMT DEF Before, WeakOrder
  <2>4. CASE <<x, y>> \notin R
    BY <1>2, <2>1, <2>4, SMT DEF Before, WeakOrder
  <2> QED
    BY <2>3, <2>4
<1>3. \A x, y \in S : x # y => Before(R, x, y) \/ Before(R, y, x)
  BY SMT DEF Before
<1> QED
  BY <1>1, <1>2, <1>3

LEMMA FirstExists ==
    ASSUME NEW S, IsFiniteSet(S), S # {}, S \subseteq Nat,
           NEW R, WeakOrder(R, S)
    PROVE  \E n \in S : \A m \in S \ {n} : Before(R, n, m)
<1> DEFINE Down(n) == {m \in S : Before(R, m, n)}
           Ranks == {Cardinality(Down(n)) : n \in S}
<1>1. \A n \in S : IsFiniteSet(Down(n)) /\ Cardinality(Down(n)) \in Nat
  BY FS_Subset, FS_CardinalityType
<1>2. PICK r \in Ranks : \A q \in Ranks : ~(<<q, r>> \in OpToRel(<, Nat))
  <2>1. Ranks \subseteq Nat /\ Ranks # {}
    BY <1>1
  <2> HIDE DEF Ranks
  <2> QED
    BY <2>1, NatLessThanWellFounded, WFMin
<1>3. PICK n \in S : r = Cardinality(Down(n))
  BY <1>2
<1>4. ASSUME NEW m \in S, Before(R, m, n)
      PROVE  FALSE
  <2>1. Down(m) \subseteq Down(n) /\ m \in Down(n) /\ m \notin Down(m)
    BY <1>4, BeforeOrders
  <2>2. Cardinality(Down(m)) <= Cardinality(Down(n)) /\ Cardinality(Down(m)) # Cardinality(Down(n))
    <3> HIDE DEF Down
    <3> QED
      BY <1>1, <2>1, FS_Subset
  <2>3. Cardinality(Down(m)) \in Nat /\ r \in Nat /\ Cardinality(Down(m)) < r
    BY <1>1, <1>3, <2>2
  <2>4. <<Cardinality(Down(m)), r>> \in OpToRel(<, Nat)
    BY <2>3 DEF OpToRel
  <2> QED
    BY <1>2, <2>4
<1>5. ASSUME NEW m \in S \ {n}
      PROVE  Before(R, n, m)
  <2>1. Before(R, n, m) \/ Before(R, m, n)
    BY <1>5, BeforeOrders
  <2> QED
    BY <1>4, <2>1
<1> QED
  BY <1>5

-----------------------------------------------------------------------------
(* The numbers that the model answers with.                                *)

LEMMA Rounded == ASSUME NEW a \in Nat, NEW b \in Nat \ {0} PROVE a \div b \in Nat
BY SMT

LEMMA Product == ASSUME NEW a \in Nat, NEW b \in Nat PROVE a * b \in Nat
BY SMT

LEMMA TimesType == ASSUME NEW a \in Nat, NEW b \in Nat PROVE Times(a, b) \in Nat
BY Product, Rounded, CostModelAssumption DEF Times

LEMMA ClampedType ==
    ASSUME NEW v \in Nat
    PROVE  Clamped(v) \in Nat /\ Clamped(v) >= minMultiplier
BY CostModelAssumption, SMT DEF Clamped

LEMMA BucketType ==
    ASSUME NEW depth \in Nat
    PROVE  BucketIndex(depth) \in Buckets
<1>1. depth \div bucketSize \in Nat
  BY Rounded, CostModelAssumption
<1> QED
  BY <1>1, CostModelAssumption, SMT DEF BucketIndex, Buckets

LEMMA CellType ==
    ASSUME ModelTyped, NEW n \in NodeIds, NEW c \in Nat
    PROVE  /\ ClampRow(n) \in Rows /\ ClampColumn(c) \in Columns
           /\ Cell(n, c) \in Ema
<1>1. n \in Nat
  BY CostModelAssumption
<1>2. ClampRow(n) \in Rows /\ ClampColumn(c) \in Columns
  BY <1>1, CostModelAssumption, SMT DEF ClampRow, ClampColumn, Rows, Columns
<1> QED
  BY <1>2 DEF ModelTyped, Cell

LEMMA AnswerTypes ==
    ASSUME ModelTyped, NEW n \in NodeIds, NEW job, JobTyped(job)
    PROVE  /\ NodeMultiplier(n) \in Nat
           /\ AffinityScore(n, job.class) \in Nat
           /\ DegradationMultiplier(n, job.depth) \in Nat
           /\ Predict(job, n) \in Nat
<1>1. mNodeStates[n].throughput.value \in Nat /\ Unit \in Nat \ {0}
  BY CostModelAssumption DEF ModelTyped, Ema
<1>2. NodeMultiplier(n) \in Nat
  BY <1>1, ClampedType DEF NodeMultiplier
<1>3. AffinityScore(n, job.class) \in Nat
  <2>1. Cell(n, job.class) \in Ema
    BY CellType DEF JobTyped
  <2> QED
    BY <1>1, <2>1 DEF AffinityScore, Correction, Ema
<1>4. DegradationMultiplier(n, job.depth) \in Nat
  <2>1. mNodeStates[n].buckets[BucketIndex(job.depth)] \in Ema
    BY BucketType DEF ModelTyped, JobTyped
  <2> QED
    BY <1>1, <2>1 DEF DegradationMultiplier, Correction, Ema
<1>5. Predict(job, n) \in Nat
  <2> DEFINE learned == Times(mNodeStates[n].throughput.value, AffinityScore(n, job.class))
             degraded == IF mDegradationEnabled
                         THEN Times(learned, DegradationMultiplier(n, job.depth))
                         ELSE learned
  <2>1. degraded \in Nat
    BY <1>1, <1>3, <1>4, TimesType
  <2>2. Clamped(degraded) \in Nat
    BY <2>1, ClampedType
  <2>3. job.estimate * Clamped(degraded) + Unit \div 2 \in Nat
    <3>1. job.estimate * Clamped(degraded) \in Nat
      BY <2>2, Product DEF JobTyped
    <3>2. Unit \div 2 \in Nat
      BY <1>1, SMT
    <3> QED
      BY <3>1, <3>2, SMT
  <2>4. (job.estimate * Clamped(degraded) + Unit \div 2) \div Unit \in Nat
    BY <1>1, <2>3, Rounded
  <2> QED
    BY <2>4 DEF Predict, JobTyped
<1> QED
  BY <1>2, <1>3, <1>4, <1>5

-----------------------------------------------------------------------------
(* What each policy selects.                                               *)

LEMMA EligibleSet ==
    ASSUME NEW job, NEW view
    PROVE  /\ Eligible(job, view) \subseteq NodeIds
           /\ Eligible(job, view) \subseteq Nat
           /\ IsFiniteSet(Eligible(job, view))
BY CostModelAssumption, FS_Subset DEF Eligible

LEMMA LeastExists ==
    ASSUME NEW S, IsFiniteSet(S), S # {}, S \subseteq Nat,
           NEW f, \A n \in S : f[n] \in Nat
    PROVE  \E n \in S : \A m \in S \ {n} : f[n] < f[m] \/ (~(f[m] < f[n]) /\ n < m)
<1> DEFINE R == {p \in S \X S : f[p[1]] < f[p[2]]}
<1>1. \A m, n \in S : <<m, n>> \in R <=> f[m] < f[n]
  OBVIOUS
<1> HIDE DEF R
<1>2. WeakOrder(R, S)
  <2>1. \A x \in S : <<x, x>> \notin R
    BY <1>1
  <2>2. ASSUME NEW x \in S, NEW y \in S, NEW z \in S
        PROVE  /\ <<x, y>> \in R /\ <<y, z>> \in R => <<x, z>> \in R
               /\ <<x, z>> \in R => <<x, y>> \in R \/ <<y, z>> \in R
    <3>1. f[x] \in Nat /\ f[y] \in Nat /\ f[z] \in Nat
      OBVIOUS
    <3> QED
      BY <1>1, <3>1
  <2> QED
    BY <2>1, <2>2 DEF WeakOrder
<1> QED
  BY <1>1, <1>2, FirstExists DEF Before

LEMMA LeastLoadedFirst ==
    ASSUME ModelTyped, NEW job, JobTyped(job), NEW view, ViewTyped(view),
           Eligible(job, view) # {}
    PROVE  LET n == LeastLoaded(job, view)
           IN  /\ n \in Eligible(job, view)
               /\ \A m \in Eligible(job, view) :
                     ~(Waiting(m, view) * NodeMultiplier(m)
                           < Waiting(n, view) * NodeMultiplier(n))
<1> DEFINE S == Eligible(job, view)
           f == [n \in S |-> Waiting(n, view) * NodeMultiplier(n)]
<1>1. \A n \in S : f[n] \in Nat
  BY EligibleSet, AnswerTypes, Product DEF ViewTyped, Waiting
<1>2. \E n \in S : \A m \in S \ {n} : f[n] < f[m] \/ (~(f[m] < f[n]) /\ n < m)
  <2> HIDE DEF f, S
  <2> QED
    BY <1>1, EligibleSet, LeastExists DEF S
<1> QED
  BY <1>1, <1>2 DEF LeastLoaded, FirstBy

LEMMA CompletionType ==
    ASSUME ModelTyped, NEW job, JobTyped(job), NEW view, ViewTyped(view),
           NEW n \in NodeIds
    PROVE  Completion(n, job, view) \in Nat
<1>1. Waiting(n, view) \in Nat
  BY DEF ViewTyped, Waiting
<1> QED
  BY <1>1, AnswerTypes, Product DEF Completion

LEMMA ShortestJobFirstFirst ==
    ASSUME ModelTyped, NEW job, JobTyped(job), NEW view, ViewTyped(view),
           Eligible(job, view) # {}
    PROVE  LET n == ShortestJobFirst(job, view)
           IN  /\ n \in Eligible(job, view)
               /\ \A m \in Eligible(job, view) :
                     ~(Completion(m, job, view) < Completion(n, job, view))
<1> DEFINE S == Eligible(job, view)
           f == [n \in S |-> Completion(n, job, view)]
<1>1. \A n \in S : f[n] \in Nat
  BY EligibleSet, CompletionType
<1>2. \E n \in S : \A m \in S \ {n} : f[n] < f[m] \/ (~(f[m] < f[n]) /\ n < m)
  <2> HIDE DEF f, S
  <2> QED
    BY <1>1, EligibleSet, LeastExists DEF S
<1> QED
  BY <1>1, <1>2 DEF ShortestJobFirst, FirstBy

LEMMA EarliestDeadlineFirstFirst ==
    ASSUME ModelTyped, NEW job, JobTyped(job), NEW view, ViewTyped(view),
           Eligible(job, view) # {}
    PROVE  LET n == EarliestDeadlineFirst(job, view)
           IN  /\ n \in Eligible(job, view)
               /\ \A m \in Eligible(job, view) :
                     \/ ~(view[m].depth < view[n].depth)
                     \/ ~(Completion(m, job, view) < Completion(n, job, view))
<1> DEFINE S == Eligible(job, view)
           f == [n \in S |-> view[n].depth]
<1>1. \A n \in S : f[n] \in Nat
  BY EligibleSet DEF ViewTyped
<1>2. \E n \in S : \A m \in S \ {n} : f[n] < f[m] \/ (~(f[m] < f[n]) /\ n < m)
  <2> HIDE DEF f, S
  <2> QED
    BY <1>1, EligibleSet, LeastExists DEF S
<1>3. CASE job.hasDeadline
  BY <1>3, ShortestJobFirstFirst DEF EarliestDeadlineFirst
<1>4. CASE ~job.hasDeadline
  BY <1>1, <1>2, <1>4 DEF EarliestDeadlineFirst, FirstBy
<1> QED
  BY <1>3, <1>4

LEMMA WeightedCapacityFirst ==
    ASSUME ModelTyped, NEW job, JobTyped(job), NEW view, ViewTyped(view),
           Eligible(job, view) # {}
    PROVE  WeightedCapacity(job, view) \in Eligible(job, view)
<1> DEFINE S == Eligible(job, view)
           f == [n \in S |-> view[n].utilization]
<1>1. \A n \in S : f[n] \in Nat
  BY EligibleSet DEF ViewTyped
<1>2. \E n \in S : \A m \in S \ {n} : f[n] < f[m] \/ (~(f[m] < f[n]) /\ n < m)
  <2> HIDE DEF f, S
  <2> QED
    BY <1>1, EligibleSet, LeastExists DEF S
<1> QED
  BY <1>1, <1>2 DEF WeightedCapacity, FirstBy

LEMMA RoundRobinFirst ==
    ASSUME NEW job, NEW view, NEW cursor \in Nat, Eligible(job, view) # {}
    PROVE  RoundRobin(job, view, cursor) \in Eligible(job, view)
<1> DEFINE S == Eligible(job, view)
           count == Cardinality(NodeIds)
           start == cursor % count
           Position(n) == Cardinality({m \in NodeIds : m < n})
           Distance(n) == (Position(n) + count - start) % count
           f == [n \in S |-> Distance(n)]
<1>1. count \in Nat \ {0}
  BY EligibleSet, CostModelAssumption, FS_CardinalityType, FS_EmptySet
<1>2. start \in Nat /\ start <= count
  <2> HIDE DEF count
  <2> QED
    BY <1>1, SMT
<1>3. \A n \in S : Position(n) \in Nat
  BY CostModelAssumption, FS_Subset, FS_CardinalityType
<1>4. \A n \in S : f[n] \in Nat
  <2> HIDE DEF count, start, Position
  <2>1. \A n \in S : Position(n) + count - start \in Nat
    BY <1>1, <1>2, <1>3
  <2>2. \A a \in Nat : a % count \in Nat
    BY <1>1, SMT
  <2> QED
    BY <2>1, <2>2
<1>5. \E n \in S : \A m \in S \ {n} : f[n] < f[m] \/ (~(f[m] < f[n]) /\ n < m)
  <2> HIDE DEF f, S
  <2> QED
    BY <1>4, EligibleSet, LeastExists DEF S
<1>6. \E n \in S : \A m \in S \ {n} :
         Distance(n) < Distance(m) \/ (~(Distance(m) < Distance(n)) /\ n < m)
  <2> HIDE DEF Distance, S
  <2> QED
    BY <1>5
<1> QED
  BY <1>6 DEF RoundRobin, FirstBy

LEMMA WorkStealingFirst ==
    ASSUME ModelTyped, NEW job, JobTyped(job), NEW view, ViewTyped(view),
           Eligible(job, view) # {}
    PROVE  LET n == WorkStealing(job, view)
           IN  /\ n \in Eligible(job, view)
               /\ \A m \in Eligible(job, view) :
                     \/ ~(view[m].depth < view[n].depth)
                     \/ ~(Completion(m, job, view) < Completion(n, job, view))
<1> DEFINE S == Eligible(job, view)
           c == [n \in S |-> Completion(n, job, view)]
           k == [n \in S |-> IF view[n].depth < stealThreshold THEN 0 ELSE 1]
           R == {p \in S \X S :
                    k[p[1]] < k[p[2]] \/ (k[p[1]] = k[p[2]] /\ c[p[1]] < c[p[2]])}
<1>1. \A n \in S : c[n] \in Nat /\ k[n] \in Nat
  BY EligibleSet, CompletionType
<1>2. \A m, n \in S : <<m, n>> \in R <=> k[m] < k[n] \/ (k[m] = k[n] /\ c[m] < c[n])
  <2> HIDE DEF S, c, k
  <2> QED
    OBVIOUS
<1>3. \E n \in S : \A m \in S \ {n} : Before(R, n, m)
  <2> HIDE DEF R, S, c, k
  <2>1. ASSUME NEW x \in S, NEW y \in S, NEW z \in S
        PROVE  /\ <<x, x>> \notin R
               /\ <<x, y>> \in R /\ <<y, z>> \in R => <<x, z>> \in R
               /\ <<x, z>> \in R => <<x, y>> \in R \/ <<y, z>> \in R
    <3>1. c[x] \in Nat /\ c[y] \in Nat /\ c[z] \in Nat
          /\ k[x] \in Nat /\ k[y] \in Nat /\ k[z] \in Nat
      BY <1>1
    <3> QED
      BY <1>2, <3>1
  <2>2. WeakOrder(R, S)
    BY <2>1, Zenon DEF WeakOrder
  <2> QED
    BY <2>2, EligibleSet, FirstExists DEF S
<1>4. \E n \in S : \A m \in S \ {n} :
        \/ k[n] < k[m] \/ (k[n] = k[m] /\ c[n] < c[m])
        \/ ~(k[m] < k[n] \/ (k[m] = k[n] /\ c[m] < c[n])) /\ n < m
  <2> HIDE DEF R, S, c, k
  <2> QED
    BY <1>2, <1>3 DEF Before
<1> DEFINE U(n) == view[n].depth < stealThreshold
<1>5. \E n \in S : \A m \in S \ {n} :
        \/ (U(n) /\ ~U(m)) \/ ((U(n) <=> U(m)) /\ c[n] < c[m])
        \/ ~((U(m) /\ ~U(n)) \/ ((U(m) <=> U(n)) /\ c[m] < c[n])) /\ n < m
  <2>1. \A m, n \in S : /\ k[m] < k[n] <=> U(m) /\ ~U(n)
                        /\ k[m] = k[n] <=> (U(m) <=> U(n))
    OBVIOUS
  <2> HIDE DEF S, c, k, U
  <2> QED
    BY <1>4, <2>1, Zenon
<1>6. LET n == WorkStealing(job, view)
      IN  n \in S /\ \A m \in S \ {n} :
            \/ (U(n) /\ ~U(m)) \/ ((U(n) <=> U(m)) /\ c[n] < c[m])
            \/ ~((U(m) /\ ~U(n)) \/ ((U(m) <=> U(n)) /\ c[m] < c[n])) /\ n < m
  BY <1>5 DEF WorkStealing, FirstBy
<1>7. \A n \in S : view[n].depth \in Nat /\ stealThreshold \in Nat
  BY EligibleSet, PolicyAssumption DEF ViewTyped
<1> QED
  BY <1>1, <1>6, <1>7

(* Quotients are ordered like numbers.                                     *)
LEMMA Scaling ==
    ASSUME NEW x \in Nat, NEW y \in Nat, NEW k \in Nat \ {0}
    PROVE  x < y <=> x * k < y * k
<1>1. x < y => x * k < y * k
  BY SMT
<1>2. y <= x => y * k <= x * k
  BY SMT
<1> QED
  BY <1>1, <1>2, Product

LEMMA Exchange ==
    ASSUME NEW x \in Nat, NEW y \in Nat, NEW z \in Nat
    PROVE  (x * y) * z = (x * z) * y
BY SMT

LEMMA QuotientOrder ==
    ASSUME NEW c1 \in Nat, NEW c2 \in Nat, NEW c3 \in Nat,
           NEW a1 \in Nat \ {0}, NEW a2 \in Nat \ {0}, NEW a3 \in Nat \ {0}
    PROVE  /\ c1 * a2 < c2 * a1 /\ c2 * a3 < c3 * a2 => c1 * a3 < c3 * a1
           /\ c1 * a3 < c3 * a1 => c1 * a2 < c2 * a1 \/ c2 * a3 < c3 * a2
<1>1. /\ c1 * a2 \in Nat /\ c2 * a1 \in Nat /\ c2 * a3 \in Nat
      /\ c3 * a2 \in Nat /\ c1 * a3 \in Nat /\ c3 * a1 \in Nat
  BY Product
<1>2. /\ (c1 * a2) * a3 \in Nat /\ (c2 * a1) * a3 \in Nat
      /\ (c3 * a2) * a1 \in Nat
  BY <1>1, Product
<1>3. c1 * a2 < c2 * a1 <=> (c1 * a2) * a3 < (c2 * a1) * a3
  BY <1>1, Scaling
<1>4. c2 * a3 < c3 * a2 <=> (c2 * a3) * a1 < (c3 * a2) * a1
  BY <1>1, Scaling
<1>5. c1 * a3 < c3 * a1 <=> (c1 * a3) * a2 < (c3 * a1) * a2
  BY <1>1, Scaling
<1>6. /\ (c1 * a2) * a3 = (c1 * a3) * a2
      /\ (c2 * a1) * a3 = (c2 * a3) * a1
      /\ (c3 * a1) * a2 = (c3 * a2) * a1
  BY Exchange
<1> QED
  BY <1>2, <1>3, <1>4, <1>5, <1>6

LEMMA AffinityRoutingFirst ==
    ASSUME ModelTyped, NEW job, JobTyped(job), NEW view, ViewTyped(view),
           Eligible(job, view) # {}
    PROVE  LET n == AffinityRouting(job, view)
           IN  /\ n \in Eligible(job, view)
               /\ \A m \in Eligible(job, view) :
                     AffinityScore(m, job.class) = AffinityScore(n, job.class)
                       => ~(Completion(m, job, view) < Completion(n, job, view))
<1> DEFINE S == Eligible(job, view)
           anyWarm == \E n \in S : IsAffinityCellWarm(n, job.class)
           Affinity(n) == LET score == AffinityScore(n, job.class)
                          IN  IF anyWarm /\ score > 0 THEN score ELSE Unit
           c == [n \in S |-> Completion(n, job, view)]
           a == [n \in S |-> Affinity(n)]
           R == {p \in S \X S : c[p[1]] * a[p[2]] < c[p[2]] * a[p[1]]}
<1>1. \A n \in S : c[n] \in Nat /\ a[n] \in Nat \ {0}
  <2> HIDE DEF anyWarm
  <2> QED
    BY EligibleSet, CompletionType, AnswerTypes, CostModelAssumption
<1>2. \A m, n \in S : <<m, n>> \in R <=> c[m] * a[n] < c[n] * a[m]
  <2> HIDE DEF S, c, a
  <2> QED
    OBVIOUS
<1>3. \E n \in S : \A m \in S \ {n} : Before(R, n, m)
  <2> HIDE DEF R, S, c, a
  <2>1. ASSUME NEW x \in S, NEW y \in S, NEW z \in S
        PROVE  /\ <<x, x>> \notin R
               /\ <<x, y>> \in R /\ <<y, z>> \in R => <<x, z>> \in R
               /\ <<x, z>> \in R => <<x, y>> \in R \/ <<y, z>> \in R
    <3>1. c[x] \in Nat /\ c[y] \in Nat /\ c[z] \in Nat
          /\ a[x] \in Nat \ {0} /\ a[y] \in Nat \ {0} /\ a[z] \in Nat \ {0}
      BY <1>1
    <3>2. c[x] * a[x] \in Nat
      BY <3>1, Product
    <3>3. /\ c[x] * a[y] < c[y] * a[x] /\ c[y] * a[z] < c[z] * a[y]
             => c[x] * a[z] < c[z] * a[x]
          /\ c[x] * a[z] < c[z] * a[x]
             => c[x] * a[y] < c[y] * a[x] \/ c[y] * a[z] < c[z] * a[y]
      BY <3>1, QuotientOrder
    <3> QED
      BY <1>2, <3>2, <3>3
  <2>2. WeakOrder(R, S)
    BY <2>1, Zenon DEF WeakOrder
  <2> QED
    BY <2>2, EligibleSet, FirstExists DEF S
<1>4. \E n \in S : \A m \in S \ {n} :
        \/ c[n] * a[m] < c[m] * a[n]
        \/ ~(c[m] * a[n] < c[n] * a[m]) /\ n < m
  <2> HIDE DEF R, S, c, a
  <2> QED
    BY <1>2, <1>3 DEF Before
<1>5. \E n \in S : \A m \in S \ {n} :
        LET cn == Completion(n, job, view)
            cm == Completion(m, job, view)
        IN  \/ cn * Affinity(m) < cm * Affinity(n)
            \/ ~(cm * Affinity(n) < cn * Affinity(m)) /\ n < m
  <2>1. \A n \in S : c[n] = Completion(n, job, view) /\ a[n] = Affinity(n)
    OBVIOUS
  <2> HIDE DEF S, c, a, Affinity
  <2> QED
    BY <1>4, <2>1
<1>6. LET n == AffinityRouting(job, view)
      IN  n \in S /\ \A m \in S \ {n} :
            \/ Completion(n, job, view) * Affinity(m) < Completion(m, job, view) * Affinity(n)
            \/ ~(Completion(m, job, view) * Affinity(n)
                    < Completion(n, job, view) * Affinity(m)) /\ n < m
  BY <1>5 DEF AffinityRouting, FirstBy
<1>7. ASSUME NEW n \in S, NEW m \in S,
             AffinityScore(m, job.class) = AffinityScore(n, job.class),
             Completion(m, job, view) < Completion(n, job, view)
      PROVE  /\ Completion(m, job, view) * Affinity(n)
                   < Completion(n, job, view) * Affinity(m)
             /\ ~(Completion(n, job, view) * Affinity(m)
                     < Completion(m, job, view) * Affinity(n))
  <2>1. Affinity(n) = Affinity(m)
    <3> HIDE DEF anyWarm
    <3> QED
      BY <1>7
  <2>2. Affinity(n) \in Nat \ {0} /\ Completion(n, job, view) \in Nat
        /\ Completion(m, job, view) \in Nat
    BY <1>1
  <2> HIDE DEF Affinity
  <2>3. Completion(m, job, view) * Affinity(n) < Completion(n, job, view) * Affinity(n)
    BY <1>7, <2>2, Scaling
  <2> QED
    BY <2>1, <2>2, <2>3, Product
<1> QED
  <2> HIDE DEF Affinity
  <2> QED
    BY <1>1, <1>6, <1>7

-----------------------------------------------------------------------------
(* Policies and chains of policies.                                        *)

LEMMA SimpleSelects ==
    ASSUME ModelTyped, NEW job, JobTyped(job), NEW view, ViewTyped(view),
           NEW cursor \in Nat, NEW kind
    PROVE  LET n == SelectSimple(kind, job, view, cursor)
           IN  /\ Eligible(job, view) # {} => n \in Eligible(job, view) /\ n # NoNode
               /\ Eligible(job, view) = {} => n = NoNode
<1>1. NoNode \notin Eligible(job, view)
  BY EligibleSet, PolicyAssumption DEF NoNode
<1>2. CASE Eligible(job, view) # {}
  <2>1. /\ LeastLoaded(job, view) \in Eligible(job, view)
        /\ WorkStealing(job, view) \in Eligible(job, view)
        /\ AffinityRouting(job, view) \in Eligible(job, view)
        /\ ShortestJobFirst(job, view) \in Eligible(job, view)
        /\ WeightedCapacity(job, view) \in Eligible(job, view)
        /\ EarliestDeadlineFirst(job, view) \in Eligible(job, view)
        /\ RoundRobin(job, view, cursor) \in Eligible(job, view)
    BY <1>2, LeastLoadedFirst, WorkStealingFirst, AffinityRoutingFirst,
       ShortestJobFirstFirst, WeightedCapacityFirst, EarliestDeadlineFirstFirst,
       RoundRobinFirst
  <2> QED
    BY <1>1, <1>2, <2>1 DEF SelectSimple
<1>3. CASE Eligible(job, view) = {}
  BY <1>3 DEF SelectSimple
<1> QED
  BY <1>2, <1>3

(* FirstSuccess(), when the answer of the first member f[1] is NoNode only *)
(* if all answers are.                                                     *)
LEMMA FirstDecides ==
    ASSUME NEW k \in Nat \ {0}, NEW f,
           f[1] = NoNode => \A i \in 1..k : f[i] = NoNode
    PROVE  LET succeeding == {i \in 1..k : f[i] # NoNode}
           IN  (IF succeeding = {} THEN NoNode
                ELSE f[CHOOSE i \in succeeding : \A j \in succeeding : i <= j]) = f[1]
<1> DEFINE succeeding == {i \in 1..k : f[i] # NoNode}
<1>1. CASE f[1] = NoNode
  BY <1>1
<1>2. CASE f[1] # NoNode
  <2>1. 1 \in succeeding /\ \A j \in succeeding : 1 <= j
    BY <1>2
  <2>2. \A i \in succeeding : (\A j \in succeeding : i <= j) => i = 1
    BY <2>1
  <2> HIDE DEF succeeding
  <2>3. (CHOOSE i \in succeeding : \A j \in succeeding : i <= j) = 1
    BY <2>1, <2>2
  <2> QED
    BY <2>1, <2>3
<1> QED
  BY <1>1, <1>2

LEMMA SimpleKind ==
    ASSUME NEW name, NEW hasCostModel
    PROVE  MakeSimple(name, hasCostModel).kind # "policy.composite"
BY DEF MakeSimple, Simple, Standalone

LEMMA InnerChain ==
    ASSUME ModelTyped, NEW job, JobTyped(job), NEW view, ViewTyped(view),
           NEW cursor \in Nat, NEW hasCostModel
    PROVE  SelectFlat(MakeChild("policy.composite", hasCostModel), job, view, cursor)
             = SelectSimple("earliest_deadline_first", job, view, cursor)
<1> DEFINE inner == MakeChild("policy.composite", hasCostModel)
           child == [i \in 1..2 |-> MakeSimple(DefaultChain[i], hasCostModel)]
           f == [i \in 1..2 |-> SelectSimple(child[i].kind, job, view, cursor)]
<1>1. inner = [kind |-> "policy.composite", children |-> child]
  BY DEF MakeChild, Chain, DefaultChain
<1>2. child[1].kind = "earliest_deadline_first"
  BY DEF DefaultChain, MakeSimple, Simple, Standalone
<1>3. f[1] = NoNode => \A i \in 1..2 : f[i] = NoNode
  BY SimpleSelects
<1>4. LET succeeding == {i \in 1..2 : f[i] # NoNode}
      IN  (IF succeeding = {} THEN NoNode
           ELSE f[CHOOSE i \in succeeding : \A j \in succeeding : i <= j]) = f[1]
  <2> HIDE DEF f
  <2> QED
    BY <1>3, FirstDecides
<1>5. FirstSuccess(child, LAMBDA q : SelectSimple(q.kind, job, view, cursor)) = f[1]
  <2>1. DOMAIN child = 1..2
    OBVIOUS
  <2>2. \A i \in 1..2 : f[i] = SelectSimple(child[i].kind, job, view, cursor)
    OBVIOUS
  <2> HIDE DEF child, f
  <2> QED
    BY <1>4, <2>1, <2>2 DEF FirstSuccess
<1> QED
  <2> HIDE DEF inner, child, f
  <2>1. SelectFlat(inner, job, view, cursor)
          = FirstSuccess(child, LAMBDA q : SelectSimple(q.kind, job, view, cursor))
    BY <1>1 DEF SelectFlat
  <2> QED
    BY <1>2, <1>5, <2>1 DEF inner, f

(* The name that decides for a chain of the first name "name".             *)
Decisive(name) ==
    IF name = "policy.composite" THEN "earliest_deadline_first" ELSE name

LEMMA ChildSelects ==
    ASSUME ModelTyped, NEW job, JobTyped(job), NEW view, ViewTyped(view),
           NEW cursor \in Nat, NEW hasCostModel, NEW name
    PROVE  SelectFlat(MakeChild(name, hasCostModel), job, view, cursor)
             = SelectSimple(MakeSimple(Decisive(name), hasCostModel).kind,
                            job, view, cursor)
<1>1. CASE name = "policy.composite"
  <2>1. MakeSimple(Decisive(name), hasCostModel).kind = "earliest_deadline_first"
    BY <1>1 DEF Decisive, MakeSimple, Simple, Standalone
  <2> QED
    BY <1>1, <2>1, InnerChain
<1>2. CASE name # "policy.composite"
  BY <1>2, SimpleKind DEF Decisive, MakeChild, SelectFlat
<1> QED
  BY <1>1, <1>2

(* Only the first policy of a composite ever decides: every policy selects *)
(* a node if any node is eligible, and fails if none is, so a member that  *)
(* follows another one is asked only when it cannot answer either.  The    *)
(* chains of the code, its default and its nested one included, are their  *)
(* first member by another name (Composite::selectNode, makePolicy).       *)
THEOREM FirstPolicyDecides ==
    ASSUME ModelTyped, NEW job, JobTyped(job), NEW view, ViewTyped(view),
           NEW cursor \in Nat, NEW hasCostModel,
           NEW Names, NEW chain \in Seq(Names), chain # <<>>
    PROVE  SelectNode(MakePolicy("policy.composite", hasCostModel, chain),
                      job, view, cursor)
             = SelectNode(MakePolicy(Decisive(chain[1]), hasCostModel, chain),
                          job, view, cursor)
<1> DEFINE count == Len(chain)
           child == [i \in 1..count |-> MakeChild(chain[i], hasCostModel)]
           f == [i \in 1..count |-> SelectFlat(child[i], job, view, cursor)]
<1>1. count \in Nat \ {0} /\ 1 \in 1..count
  OBVIOUS
<1>2. \A i \in 1..count :
        f[i] = SelectSimple(MakeSimple(Decisive(chain[i]), hasCostModel).kind,
                            job, view, cursor)
  BY ChildSelects
<1>3. f[1] = NoNode => \A i \in 1..count : f[i] = NoNode
  <2> HIDE DEF f
  <2> QED
    BY <1>1, <1>2, SimpleSelects
<1>4. LET succeeding == {i \in 1..count : f[i] # NoNode}
      IN  (IF succeeding = {} THEN NoNode
           ELSE f[CHOOSE i \in succeeding : \A j \in succeeding : i <= j]) = f[1]
  <2> HIDE DEF f, count
  <2> QED
    BY <1>1, <1>3, FirstDecides
<1>5. FirstSuccess(child, LAMBDA q : SelectFlat(q, job, view, cursor)) = f[1]
  <2>1. DOMAIN child = 1..count
    OBVIOUS
  <2>2. \A i \in 1..count : f[i] = SelectFlat(child[i], job, view, cursor)
    OBVIOUS
  <2> DEFINE succeeding == {i \in 1..count : f[i] # NoNode}
             first == CHOOSE i \in succeeding : \A j \in succeeding : i <= j
  <2>3. {i \in DOMAIN child : SelectFlat(child[i], job, view, cursor) # NoNode}
          = succeeding
    <3> HIDE DEF child, f, count
    <3> QED
      BY <2>1, <2>2
  <2>4. succeeding # {} => first \in 1..count
    <3>1. succeeding # {} => \E i \in succeeding : \A j \in succeeding : i <= j
      BY <1>1, <1>3
    <3>2. succeeding \subseteq 1..count
      OBVIOUS
    <3> HIDE DEF succeeding
    <3> QED
      BY <3>1, <3>2
  <2>5. succeeding # {} => SelectFlat(child[first], job, view, cursor) = f[first]
    <3> HIDE DEF succeeding, first
    <3> QED
      BY <2>4
  <2> DEFINE answering ==
               {i \in DOMAIN child : SelectFlat(child[i], job, view, cursor) # NoNode}
  <2>6. FirstSuccess(child, LAMBDA q : SelectFlat(q, job, view, cursor))
          = IF answering = {} THEN NoNode
            ELSE SelectFlat(child[CHOOSE i \in answering : \A j \in answering : i <= j],
                            job, view, cursor)
    <3> HIDE DEF child
    <3> QED
      BY DEF FirstSuccess
  <2>7. answering = succeeding
    BY <2>3
  <2> HIDE DEF answering
  <2> QED
    BY <1>4, <2>5, <2>6, <2>7, Zenon
<1>6. SelectNode(MakePolicy("policy.composite", hasCostModel, chain), job, view, cursor)
        = f[1]
  <2>1. MakePolicy("policy.composite", hasCostModel, chain)
          = [kind |-> "policy.composite", children |-> child]
    BY DEF MakePolicy, Chain
  <2> HIDE DEF child, f, count
  <2> QED
    BY <1>5, <2>1 DEF SelectNode
<1>7. SelectNode(MakePolicy(Decisive(chain[1]), hasCostModel, chain), job, view, cursor)
        = SelectSimple(MakeSimple(Decisive(chain[1]), hasCostModel).kind,
                       job, view, cursor)
  <2>1. Decisive(chain[1]) # "policy.composite"
    BY DEF Decisive
  <2> QED
    BY <2>1, SimpleKind DEF SelectNode, MakePolicy
<1> QED
  BY <1>1, <1>2, <1>6, <1>7

(* What the factory makes selects a node that accepts the job, whenever    *)
(* there is one, and NoNode otherwise.                                     *)
THEOREM PoliciesSelectEligible ==
    ASSUME ModelTyped, NEW job, JobTyped(job), NEW view, ViewTyped(view),
           NEW cursor \in Nat, NEW hasCostModel, NEW name,
           NEW Names, NEW chain \in Seq(Names)
    PROVE  LET n == SelectNode(MakePolicy(name, hasCostModel, chain), job, view, cursor)
           IN  IF Eligible(job, view) = {}
               THEN n = NoNode ELSE n \in Eligible(job, view)
<1>1. CASE name # "policy.composite"
  BY <1>1, SimpleKind, SimpleSelects DEF MakePolicy, SelectNode
<1>2. CASE name = "policy.composite" /\ chain = <<>>
  BY <1>2, SimpleSelects DEF MakePolicy, Chain, Simple, SelectNode
<1>3. CASE name = "policy.composite" /\ chain # <<>>
  <2>1. Decisive(chain[1]) # "policy.composite"
    BY DEF Decisive
  <2>2. LET n == SelectNode(MakePolicy(Decisive(chain[1]), hasCostModel, chain),
                            job, view, cursor)
        IN  IF Eligible(job, view) = {}
            THEN n = NoNode ELSE n \in Eligible(job, view)
    BY <2>1, SimpleKind, SimpleSelects DEF MakePolicy, SelectNode
  <2>3. SelectNode(MakePolicy("policy.composite", hasCostModel, chain),
                   job, view, cursor)
          = SelectNode(MakePolicy(Decisive(chain[1]), hasCostModel, chain),
                       job, view, cursor)
    BY <1>3, FirstPolicyDecides
  <2> QED
    BY <1>3, <2>2, <2>3, Zenon
<1> QED
  BY <1>1, <1>2, <1>3
=============================================================================
