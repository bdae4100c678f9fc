---------------------------- MODULE HoldingQueue ----------------------------
(***************************************************************************)
(* HoldingQueue: the bounded two-band store of overflow jobs.  Every       *)
(* operation of the class runs under its mutex and is one step here.       *)
(*                                                                         *)
(* An entry is represented by the job it holds.  The class numbers entries *)
(* under the lock (mNextSeq), so holding handles are unique and a job is   *)
(* held at most once: the job stands for its handle too.  mSize is the     *)
(* number of entries of the two deques.                                    *)
(*                                                                         *)
(* The module has no environment of its own: Balancer, its only caller,    *)
(* extends it and uses these operators inside its actions.                 *)
(***************************************************************************)
EXTENDS HoldingSlots, Sequences, SequencesExt

CONSTANTS
    Jobs,       \* the jobs that are ever submitted
    Prio        \* Prio[j]: the priority of job j

Priorities == {"Critical", "High", "Normal", "Low", "Bulk"}

ASSUME PrioAssumption == Prio \in [Jobs -> Priorities]

(* The priorities that may wait in the holding queue.                      *)
Holdable(j) == Prio[j] \in {"Critical", "High"}

VARIABLES
    mCritical,  \* std::deque of Critical entries
    mHigh       \* std::deque of High entries

queueVars == <<mCritical, mHigh>>

Queued == ToSet(mCritical) \cup ToSet(mHigh)

QueueSize == Len(mCritical) + Len(mHigh)

QueueInit ==
    /\ mCritical = <<>>
    /\ mHigh = <<>>

QueueFull == QueueSize >= Capacity

(* The push_back of enqueue() and of requeue(): both append at the back of *)
(* the deque of the job's band.                                            *)
PushBack(j) ==
    IF Prio[j] = "Critical"
    THEN /\ mCritical' = Append(mCritical, j)
         /\ UNCHANGED mHigh
    ELSE /\ mHigh' = Append(mHigh, j)
         /\ UNCHANGED mCritical

(* requeue(): the entry is pushed back, or, when the queue is full, it is  *)
(* destroyed with its callback (every caller discards the result).         *)
Requeue(j) == IF QueueFull THEN UNCHANGED queueVars ELSE PushBack(j)

(* The entry tryDequeue() would take: the front of the Critical deque, and *)
(* of the High deque only when that is empty.                              *)
NextEntry == IF mCritical # <<>> THEN Head(mCritical) ELSE Head(mHigh)

(* A dequeue that leaves the entry in the queue.                           *)
TryDequeuePeeks == QueueSize > 0 /\ UNCHANGED queueVars

TryDequeue ==
    /\ QueueSize > 0
    /\ IF mCritical # <<>>
       THEN /\ mCritical' = Tail(mCritical)
            /\ UNCHANGED mHigh
       ELSE /\ mHigh' = Tail(mHigh)
            /\ UNCHANGED mCritical

(* extractFrom(): the first entry of q with this handle is erased.         *)
Extract(q, j) == RemoveAt(q, CHOOSE i \in DOMAIN q : q[i] = j)

RemoveHeld(j) ==
    /\ j \in Queued
    /\ IF j \in ToSet(mCritical)
       THEN /\ mCritical' = Extract(mCritical, j)
            /\ UNCHANGED mHigh
       ELSE /\ mHigh' = Extract(mHigh, j)
            /\ UNCHANGED mCritical
=============================================================================
