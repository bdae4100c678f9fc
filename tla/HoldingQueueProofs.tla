------------------------- MODULE HoldingQueueProofs -------------------------
(***************************************************************************)
(* What the operations of HoldingQueue do to the set of held jobs.         *)
(***************************************************************************)
EXTENDS HoldingQueue, FiniteSetTheorems, SequenceTheorems, TLAPS

Distinct(q) == \A i, k \in 1 .. Len(q) : q[i] = q[k] => i = k

(* The two deques hold jobs, none of them twice, and mSize is their number. *)
QueueOK ==
    /\ mCritical \in Seq(Jobs) /\ Distinct(mCritical)
    /\ mHigh \in Seq(Jobs) /\ Distinct(mHigh)
    /\ ToSet(mCritical) \cap ToSet(mHigh) = {}
    /\ QueueSize = Cardinality(Queued)

(* Sequences.                                                              *)

LEMMA ToSetIsRange ==
    ASSUME NEW q \in Seq(Jobs)
    PROVE  ToSet(q) = {q[i] : i \in 1 .. Len(q)}
BY DEF ToSet

LEMMA AppendSet ==
    ASSUME NEW q \in Seq(Jobs), Distinct(q), NEW j \in Jobs, j \notin ToSet(q)
    PROVE  /\ Append(q, j) \in Seq(Jobs)
           /\ Distinct(Append(q, j))
           /\ ToSet(Append(q, j)) = ToSet(q) \cup {j}
           /\ Len(Append(q, j)) = Len(q) + 1
<1> DEFINE r == Append(q, j)
<1>1. /\ r \in Seq(Jobs) /\ Len(r) = Len(q) + 1 /\ Len(q) \in Nat
      /\ r[Len(q) + 1] = j /\ \A i \in 1 .. Len(q) : r[i] = q[i]
  OBVIOUS
<1>2. \A i \in 1 .. Len(q) : q[i] # j
  BY ToSetIsRange
<1>3. Distinct(r)
  BY <1>1, <1>2 DEF Distinct
<1>4. 1 .. Len(r) = (1 .. Len(q)) \cup {Len(q) + 1}
  BY <1>1
<1>5. {r[i] : i \in 1 .. Len(r)} = {q[i] : i \in 1 .. Len(q)} \cup {j}
  BY <1>1, <1>4
<1> QED
  BY <1>1, <1>3, <1>5, ToSetIsRange

LEMMA TailSet ==
    ASSUME NEW q \in Seq(Jobs), Distinct(q), q # <<>>
    PROVE  /\ Tail(q) \in Seq(Jobs)
           /\ Distinct(Tail(q))
           /\ Head(q) \in ToSet(q)
           /\ ToSet(Tail(q)) = ToSet(q) \ {Head(q)}
           /\ Len(Tail(q)) = Len(q) - 1
<1> DEFINE r == Tail(q)
<1>1. /\ r \in Seq(Jobs) /\ Len(r) = Len(q) - 1 /\ Len(q) \in Nat \ {0}
      /\ Head(q) = q[1] /\ \A i \in 1 .. Len(r) : r[i] = q[i + 1]
  OBVIOUS
<1>2. Distinct(r)
  BY <1>1 DEF Distinct
<1>3. \A i \in 2 .. Len(q) : q[i] # q[1]
  BY <1>1 DEF Distinct
<1>4. {r[i] : i \in 1 .. Len(r)} = {q[i] : i \in 2 .. Len(q)}
  <2>1. \A i \in 2 .. Len(q) : i - 1 \in 1 .. Len(r) /\ q[i] = r[i - 1]
    BY <1>1
  <2> QED
    BY <1>1, <2>1
<1>5. {q[i] : i \in 2 .. Len(q)} = {q[i] : i \in 1 .. Len(q)} \ {q[1]}
  BY <1>1, <1>3
<1>6. ToSet(r) = {r[i] : i \in 1 .. Len(r)}
  BY <1>1, ToSetIsRange
<1>7. ToSet(q) = {q[i] : i \in 1 .. Len(q)}
  BY ToSetIsRange
<1>8. Head(q) \in ToSet(q)
  BY <1>1, <1>7
<1>9. ToSet(r) = ToSet(q) \ {Head(q)}
  BY <1>1, <1>4, <1>5, <1>6, <1>7
<1> QED
  BY <1>1, <1>2, <1>8, <1>9

(* A sequence put together from what is before and behind position k.      *)
LEMMA Joined ==
    ASSUME NEW q \in Seq(Jobs), NEW k \in 1 .. Len(q),
           NEW front \in Seq(Jobs), Len(front) = k - 1,
           \A i \in 1 .. k - 1 : front[i] = q[i],
           NEW back \in Seq(Jobs), Len(back) = Len(q) - k,
           \A i \in 1 .. Len(q) - k : back[i] = q[k + i]
    PROVE  /\ front \o back \in Seq(Jobs)
           /\ Len(front \o back) = Len(q) - 1
           /\ \A i \in 1 .. Len(q) - 1 :
                 (front \o back)[i] = IF i < k THEN q[i] ELSE q[i + 1]
<1>1. /\ front \o back \in Seq(Jobs)
      /\ Len(front \o back) = Len(front) + Len(back)
      /\ \A i \in 1 .. Len(front) + Len(back) :
            (front \o back)[i] = IF i <= Len(front) THEN front[i]
                                                    ELSE back[i - Len(front)]
  BY ConcatProperties
<1>2. Len(q) \in Nat
  OBVIOUS
<1>3. ASSUME NEW i \in 1 .. Len(q) - 1
      PROVE  (front \o back)[i] = IF i < k THEN q[i] ELSE q[i + 1]
  <2>1. CASE i < k
    BY <1>1, <1>2, <2>1
  <2>2. CASE i >= k
    <3>1. i - (k - 1) \in 1 .. Len(q) - k
      BY <1>2, <2>2
    <3>2. back[i - (k - 1)] = q[k + (i - (k - 1))]
      BY <3>1
    <3>3. (front \o back)[i] = back[i - (k - 1)]
      BY <1>1, <1>2, <2>2
    <3>4. k + (i - (k - 1)) = i + 1
      BY <1>2
    <3> QED
      BY <2>2, <3>2, <3>3, <3>4
  <2> QED
    BY <1>2, <2>1, <2>2
<1> QED
  BY <1>1, <1>2, <1>3

LEMMA ExtractSet ==
    ASSUME NEW q \in Seq(Jobs), Distinct(q), NEW j \in ToSet(q)
    PROVE  /\ Extract(q, j) \in Seq(Jobs)
           /\ Distinct(Extract(q, j))
           /\ ToSet(Extract(q, j)) = ToSet(q) \ {j}
           /\ Len(Extract(q, j)) = Len(q) - 1
<1> DEFINE k == CHOOSE i \in DOMAIN q : q[i] = j
           r == Extract(q, j)
<1>1. k \in 1 .. Len(q) /\ q[k] = j /\ Len(q) \in Nat
  BY ToSetIsRange
<1> DEFINE front == SubSeq(q, 1, k - 1)
           back == SubSeq(q, k + 1, Len(q))
<1>2. r = front \o back
  BY DEF Extract, RemoveAt
<1>3. /\ front \in Seq(Jobs) /\ Len(front) = k - 1
      /\ \A i \in 1 .. k - 1 : front[i] = q[i]
  BY <1>1, SubSeqProperties
<1>4. /\ back \in Seq(Jobs) /\ Len(back) = Len(q) - k
      /\ \A i \in 1 .. Len(q) - k : back[i] = q[k + i]
  BY <1>1, SubSeqProperties
<1>5. /\ r \in Seq(Jobs) /\ Len(r) = Len(q) - 1
      /\ \A i \in 1 .. Len(r) : r[i] = IF i < k THEN q[i] ELSE q[i + 1]
  <2> HIDE DEF k, r, front, back
  <2>1. /\ front \o back \in Seq(Jobs)
        /\ Len(front \o back) = Len(q) - 1
        /\ \A i \in 1 .. Len(q) - 1 :
              (front \o back)[i] = IF i < k THEN q[i] ELSE q[i + 1]
    BY <1>1, <1>3, <1>4, Joined, ZenonT(30)
  <2> QED
    BY <1>2, <2>1, Zenon
<1> HIDE DEF k, r
<1>6. Distinct(r)
  BY <1>1, <1>5 DEF Distinct
<1>7. {r[i] : i \in 1 .. Len(r)} = {q[i] : i \in 1 .. Len(q)} \ {q[k]}
  <2>1. \A i \in 1 .. Len(r) : r[i] \in {q[m] : m \in 1 .. Len(q)} \ {q[k]}
    BY <1>1, <1>5 DEF Distinct
  <2>2. \A i \in (1 .. Len(q)) \ {k} :
           \E m \in 1 .. Len(r) : r[m] = q[i]
    <3> SUFFICES ASSUME NEW i \in (1 .. Len(q)) \ {k}
                 PROVE  \E m \in 1 .. Len(r) : r[m] = q[i]
      OBVIOUS
    <3>1. CASE i < k
      BY <1>1, <1>5, <3>1
    <3>2. CASE i > k
      <4>1. i - 1 \in 1 .. Len(r) /\ r[i - 1] = q[i]
        BY <1>1, <1>5, <3>2
      <4> QED
        BY <4>1
    <3> QED
      BY <1>1, <3>1, <3>2
  <2>3. \A x \in {q[m] : m \in 1 .. Len(q)} \ {q[k]} :
           \E m \in 1 .. Len(r) : r[m] = x
    BY <2>2
  <2> QED
    BY <2>1, <2>3
<1>8. ToSet(r) = {r[i] : i \in 1 .. Len(r)}
  BY <1>5, ToSetIsRange
<1>9. ToSet(q) = {q[i] : i \in 1 .. Len(q)}
  BY ToSetIsRange
<1>10. ToSet(r) = ToSet(q) \ {j}
  BY <1>1, <1>7, <1>8, <1>9
<1> QED
  BY <1>5, <1>6, <1>10 DEF r

----------------------------------------------------------------------------
(* The operations of the class.                                            *)

LEMMA QueuedJobs ==
    ASSUME IsFiniteSet(Jobs), QueueOK
    PROVE  /\ Queued \subseteq Jobs
           /\ IsFiniteSet(Queued)
           /\ QueueSize \in Nat
           /\ QueueSize = 0 <=> Queued = {}
<1>1. Queued \subseteq Jobs
  BY ToSetIsRange DEF QueueOK, Queued
<1>2. IsFiniteSet(Queued)
  BY <1>1, FS_Subset
<1> QED
  BY <1>1, <1>2, FS_EmptySet, FS_CardinalityType DEF QueueOK

LEMMA InitQueueOK == QueueInit => QueueOK /\ Queued = {}
<1> SUFFICES ASSUME QueueInit PROVE QueueOK /\ Queued = {}
  OBVIOUS
<1>1. <<>> \in Seq(Jobs) /\ Len(<<>>) = 0 /\ Distinct(<<>>)
  BY DEF Distinct
<1>2. ToSet(<<>>) = {}
  BY <1>1 DEF ToSet
<1>3. Queued = {} /\ QueueSize = 0
  BY <1>1, <1>2 DEF QueueInit, Queued, QueueSize
<1> QED
  BY <1>1, <1>2, <1>3, FS_EmptySet DEF QueueInit, QueueOK

LEMMA PushBackAdds ==
    ASSUME IsFiniteSet(Jobs), QueueOK, NEW j \in Jobs, j \notin Queued, PushBack(j)
    PROVE  QueueOK' /\ Queued' = Queued \cup {j}
<1>1. j \notin ToSet(mCritical) /\ j \notin ToSet(mHigh)
  BY DEF Queued
<1>2. Len(mCritical) \in Nat /\ Len(mHigh) \in Nat
  BY DEF QueueOK
<1>3. IsFiniteSet(Queued)
  BY QueuedJobs
<1>4. Cardinality(Queued \cup {j}) = Cardinality(Queued) + 1
  BY <1>3, FS_AddElement
<1>5. CASE Prio[j] = "Critical"
  <2>1. mCritical' = Append(mCritical, j) /\ mHigh' = mHigh
    BY <1>5 DEF PushBack
  <2>2. /\ mCritical' \in Seq(Jobs) /\ Distinct(mCritical')
        /\ ToSet(mCritical') = ToSet(mCritical) \cup {j}
        /\ Len(mCritical') = Len(mCritical) + 1
    BY <1>1, <2>1, AppendSet DEF QueueOK
  <2>3. Queued' = Queued \cup {j}
    BY <2>1, <2>2 DEF Queued
  <2>4. QueueSize' = QueueSize + 1
    BY <1>2, <2>1, <2>2 DEF QueueSize
  <2> QED
    BY <1>1, <1>4, <2>1, <2>2, <2>3, <2>4 DEF QueueOK
<1>6. CASE Prio[j] # "Critical"
  <2>1. mHigh' = Append(mHigh, j) /\ mCritical' = mCritical
    BY <1>6 DEF PushBack
  <2>2. /\ mHigh' \in Seq(Jobs) /\ Distinct(mHigh')
        /\ ToSet(mHigh') = ToSet(mHigh) \cup {j}
        /\ Len(mHigh') = Len(mHigh) + 1
    BY <1>1, <2>1, AppendSet DEF QueueOK
  <2>3. Queued' = Queued \cup {j}
    BY <2>1, <2>2 DEF Queued
  <2>4. QueueSize' = QueueSize + 1
    BY <1>2, <2>1, <2>2 DEF QueueSize
  <2> QED
    BY <1>1, <1>4, <2>1, <2>2, <2>3, <2>4 DEF QueueOK
<1> QED
  BY <1>5, <1>6

LEMMA TryDequeueTakes ==
    ASSUME IsFiniteSet(Jobs), QueueOK, TryDequeue
    PROVE  /\ NextEntry \in Queued
           /\ QueueOK'
           /\ Queued' = Queued \ {NextEntry}
<1>1. Len(mCritical) \in Nat /\ Len(mHigh) \in Nat
  BY DEF QueueOK
<1>2. IsFiniteSet(Queued)
  BY QueuedJobs
<1>3. CASE mCritical # <<>>
  <2>1. /\ NextEntry = Head(mCritical)
        /\ mCritical' = Tail(mCritical) /\ mHigh' = mHigh
    BY <1>3 DEF NextEntry, TryDequeue
  <2>2. /\ mCritical' \in Seq(Jobs) /\ Distinct(mCritical')
        /\ NextEntry \in ToSet(mCritical)
        /\ ToSet(mCritical') = ToSet(mCritical) \ {NextEntry}
        /\ Len(mCritical') = Len(mCritical) - 1
    BY <1>3, <2>1, TailSet DEF QueueOK
  <2>3. NextEntry \in Queued /\ Queued' = Queued \ {NextEntry}
    BY <2>1, <2>2 DEF Queued, QueueOK
  <2>4. QueueSize' = QueueSize - 1
    BY <1>1, <2>1, <2>2 DEF QueueSize
  <2>5. Cardinality(Queued') = Cardinality(Queued) - 1
    BY <1>2, <2>3, FS_RemoveElement
  <2> QED
    BY <2>1, <2>2, <2>3, <2>4, <2>5 DEF QueueOK
<1>4. CASE mCritical = <<>>
  <2>1. mHigh # <<>>
    BY <1>4 DEF TryDequeue, QueueSize
  <2>2. /\ NextEntry = Head(mHigh)
        /\ mHigh' = Tail(mHigh) /\ mCritical' = mCritical
    BY <1>4 DEF NextEntry, TryDequeue
  <2>3. /\ mHigh' \in Seq(Jobs) /\ Distinct(mHigh')
        /\ NextEntry \in ToSet(mHigh)
        /\ ToSet(mHigh') = ToSet(mHigh) \ {NextEntry}
        /\ Len(mHigh') = Len(mHigh) - 1
    BY <2>1, <2>2, TailSet DEF QueueOK
  <2>4. NextEntry \in Queued /\ Queued' = Queued \ {NextEntry}
    BY <2>2, <2>3 DEF Queued, QueueOK
  <2>5. QueueSize' = QueueSize - 1
    BY <1>1, <2>2, <2>3 DEF QueueSize
  <2>6. Cardinality(Queued') = Cardinality(Queued) - 1
    BY <1>2, <2>4, FS_RemoveElement
  <2> QED
    BY <2>2, <2>3, <2>4, <2>5, <2>6 DEF QueueOK
<1> QED
  BY <1>3, <1>4

LEMMA RemoveHeldRemoves ==
    ASSUME IsFiniteSet(Jobs), QueueOK, NEW j \in Jobs, RemoveHeld(j)
    PROVE  j \in Queued /\ QueueOK' /\ Queued' = Queued \ {j}
<1>1. Len(mCritical) \in Nat /\ Len(mHigh) \in Nat
  BY DEF QueueOK
<1>2. IsFiniteSet(Queued) /\ j \in Queued
  BY QueuedJobs DEF RemoveHeld
<1>3. CASE j \in ToSet(mCritical)
  <2>1. mCritical' = Extract(mCritical, j) /\ mHigh' = mHigh
    BY <1>3 DEF RemoveHeld
  <2>2. /\ mCritical' \in Seq(Jobs) /\ Distinct(mCritical')
        /\ ToSet(mCritical') = ToSet(mCritical) \ {j}
        /\ Len(mCritical') = Len(mCritical) - 1
    BY <1>3, <2>1, ExtractSet DEF QueueOK
  <2>3. Queued' = Queued \ {j}
    BY <1>3, <2>1, <2>2 DEF Queued, QueueOK
  <2>4. QueueSize' = QueueSize - 1
    BY <1>1, <2>1, <2>2 DEF QueueSize
  <2>5. Cardinality(Queued') = Cardinality(Queued) - 1
    BY <1>2, <2>3, FS_RemoveElement
  <2> QED
    BY <1>2, <2>1, <2>2, <2>3, <2>4, <2>5 DEF QueueOK
<1>4. CASE j \notin ToSet(mCritical)
  <2>1. /\ j \in ToSet(mHigh)
        /\ mHigh' = Extract(mHigh, j) /\ mCritical' = mCritical
    BY <1>2, <1>4 DEF RemoveHeld, Queued
  <2>2. /\ mHigh' \in Seq(Jobs) /\ Distinct(mHigh')
        /\ ToSet(mHigh') = ToSet(mHigh) \ {j}
        /\ Len(mHigh') = Len(mHigh) - 1
    BY <2>1, ExtractSet DEF QueueOK
  <2>3. Queued' = Queued \ {j}
    BY <1>4, <2>1, <2>2 DEF Queued, QueueOK
  <2>4. QueueSize' = QueueSize - 1
    BY <1>1, <2>1, <2>2 DEF QueueSize
  <2>5. Cardinality(Queued') = Cardinality(Queued) - 1
    BY <1>2, <2>3, FS_RemoveElement
  <2> QED
    BY <1>2, <2>1, <2>2, <2>3, <2>4, <2>5 DEF QueueOK
<1> QED
  BY <1>3, <1>4

LEMMA QueueUntouched ==
    ASSUME QueueOK, UNCHANGED queueVars
    PROVE  QueueOK' /\ Queued' = Queued /\ QueueSize' = QueueSize
BY DEF QueueOK, queueVars, Queued, QueueSize, Distinct
=============================================================================
