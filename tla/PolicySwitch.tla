---------------------------- MODULE PolicySwitch ----------------------------
(***************************************************************************)
(* The drain gate between submit() and switchPolicy(), with the memory     *)
(* orders the code asks for.                                               *)
(*                                                                         *)
(*   submit():        mSubmittedCount.fetch_add(1, relaxed)                *)
(*                    mDraining.load(acquire)                              *)
(*   switchPolicy():  mDraining.store(true, release)                       *)
(*                    mSubmittedCount.load(acquire)                        *)
(*                                                                         *)
(* The protocol is Dekker's: each side writes its own variable and then    *)
(* reads the other's.  Release and acquire do not order a store before a   *)
(* later load of another variable, and on x86 a release store is a plain   *)
(* one, that waits in the core's store buffer while the load is served.    *)
(* Here every switching thread has such a buffer; a locked instruction     *)
(* (the mutex operations, submit()'s fetch_add) needs it empty, and the    *)
(* hardware empties it at will.  With SeqCst a store to mDraining reaches  *)
(* memory before the thread's next load, which is what the comments of the *)
(* code assume; without it, the orders are those the code asks for.        *)
(***************************************************************************)
EXTENDS Integers, FiniteSets

CONSTANTS
    Submitters,     \* threads that submit, one job after another
    Switchers,      \* threads that call switchPolicy, once each
    Rounds,         \* how many jobs each submitter submits
    SeqCst          \* BOOLEAN: whether a store is visible before a later load

ASSUME PolicySwitchAssumption ==
    /\ IsFiniteSet(Submitters) /\ IsFiniteSet(Switchers)
    /\ Rounds \in Nat
    /\ SeqCst \in BOOLEAN

VARIABLES
    mSubmittedCount,
    mDraining,      \* as every other thread sees it
    buffered,       \* buffered[w]: the store to mDraining still in w's buffer
    switchLock,     \* the thread that holds mSwitchMutex, or none: {} or {w}
    mPolicy,        \* how many times the policy has been exchanged
    submitPc,
    rounds,         \* rounds[s]: the jobs s has still to submit
    asked,          \* asked[s]: the policies that were asked for a node for its job
    switchPc

vars == <<mSubmittedCount, mDraining, buffered, switchLock, mPolicy, submitPc,
          rounds, asked, switchPc>>

Init ==
    /\ mSubmittedCount = 0
    /\ mDraining = FALSE
    /\ buffered = [w \in Switchers |-> "none"]
    /\ switchLock = {}
    /\ mPolicy = 0
    /\ submitPc = [s \in Submitters |-> "idle"]
    /\ rounds = [s \in Submitters |-> Rounds]
    /\ asked = [s \in Submitters |-> {}]
    /\ switchPc = [w \in Switchers |-> "called"]

----------------------------------------------------------------------------
(* submit(), and the life of the job behind it.                            *)

SubmitStep(s, from, to) ==
    /\ submitPc[s] = from
    /\ submitPc' = [submitPc EXCEPT ![s] = to]
    /\ UNCHANGED <<mDraining, buffered, switchLock, mPolicy, switchPc>>

(* The increment forgotten until the gate has been passed.                 *)
IncrementLate(s) ==
    /\ rounds[s] > 0
    /\ SubmitStep(s, "idle", "counted")
    /\ rounds' = [rounds EXCEPT ![s] = @ - 1]
    /\ UNCHANGED <<asked, mSubmittedCount>>

Increment(s) ==
    /\ rounds[s] > 0
    /\ SubmitStep(s, "idle", "counted")
    /\ rounds' = [rounds EXCEPT ![s] = @ - 1]
    /\ mSubmittedCount' = mSubmittedCount + 1
    /\ UNCHANGED asked

ReadGate(s) ==
    /\ SubmitStep(s, "counted", IF mDraining THEN "refused" ELSE "inside")
    /\ UNCHANGED <<mSubmittedCount, rounds, asked>>

(* mPolicy->selectNode under mPolicyMutex: by submit() itself and, for a   *)
(* held job, by every retry of the drain thread.                           *)
Ask(s) ==
    /\ SubmitStep(s, "inside", "inside")
    /\ asked' = [asked EXCEPT ![s] = @ \cup {mPolicy}]
    /\ UNCHANGED <<mSubmittedCount, rounds>>

(* The job ends, or submit() returns an error: the count is given back.    *)
Leave(s) ==
    /\ \E pc \in {"refused", "inside"} : SubmitStep(s, pc, "idle")
    /\ asked' = [asked EXCEPT ![s] = {}]
    /\ mSubmittedCount' = mSubmittedCount - 1
    /\ UNCHANGED rounds

----------------------------------------------------------------------------
(* switchPolicy().                                                         *)

SwitchStep(w, from, to) ==
    /\ switchPc[w] = from
    /\ switchPc' = [switchPc EXCEPT ![w] = to]
    /\ UNCHANGED <<mSubmittedCount, submitPc, rounds, asked>>

Store(w, value) == buffered' = [buffered EXCEPT ![w] = value]

(* mSwitchMutex missing.                                                   *)
SwitchEnterUnlocked(w) ==
    /\ SwitchStep(w, "called", "locked")
    /\ UNCHANGED <<switchLock, mDraining, buffered, mPolicy>>

SwitchEnter(w) ==
    /\ switchLock = {}
    /\ SwitchStep(w, "called", "locked")
    /\ switchLock' = {w}
    /\ UNCHANGED <<mDraining, buffered, mPolicy>>

CloseGate(w) ==
    /\ SwitchStep(w, "locked", "waiting")
    /\ Store(w, "close")
    /\ UNCHANGED <<mDraining, switchLock, mPolicy>>

(* The load of mSubmittedCount.                                            *)
SeeZero(w) ==
    /\ SeqCst => buffered[w] = "none"
    /\ mSubmittedCount = 0
    /\ SwitchStep(w, "waiting", "clear")
    /\ UNCHANGED <<mDraining, buffered, switchLock, mPolicy>>

(* Locking mPolicyMutex needs an empty store buffer.                       *)
Swap(w) ==
    /\ buffered[w] = "none"
    /\ SwitchStep(w, "clear", "swapped")
    /\ mPolicy' = mPolicy + 1
    /\ UNCHANGED <<mDraining, buffered, switchLock>>

(* The gate left closed.                                                   *)
OpenGateForgets(w) ==
    /\ SwitchStep(w, "swapped", "opened")
    /\ UNCHANGED <<mDraining, buffered, switchLock, mPolicy>>

OpenGate(w) ==
    /\ SwitchStep(w, "swapped", "opened")
    /\ Store(w, "open")
    /\ UNCHANGED <<mDraining, switchLock, mPolicy>>

SwitchLeave(w) ==
    /\ buffered[w] = "none"
    /\ SwitchStep(w, "opened", "returned")
    /\ switchLock' = switchLock \ {w}
    /\ UNCHANGED <<mDraining, buffered, mPolicy>>

(* The hardware empties a store buffer whenever it likes.                  *)
Flush(w) ==
    /\ buffered[w] # "none"
    /\ mDraining' = (buffered[w] = "close")
    /\ buffered' = [buffered EXCEPT ![w] = "none"]
    /\ UNCHANGED <<mSubmittedCount, switchLock, mPolicy, submitPc, rounds,
                   asked, switchPc>>

----------------------------------------------------------------------------

SubmitterStep(s) == Increment(s) \/ ReadGate(s) \/ Ask(s) \/ Leave(s)

SwitcherStep(w) ==
    \/ SwitchEnter(w) \/ CloseGate(w) \/ SeeZero(w) \/ Swap(w)
    \/ OpenGate(w) \/ SwitchLeave(w) \/ Flush(w)

(* All calls have returned.                                                *)
AllReturned ==
    /\ \A s \in Submitters : submitPc[s] = "idle" /\ rounds[s] = 0
    /\ \A w \in Switchers : switchPc[w] = "returned"
    /\ UNCHANGED vars

Next ==
    \/ \E s \in Submitters : SubmitterStep(s)
    \/ \E w \in Switchers : SwitcherStep(w)
    \/ AllReturned

Spec == Init /\ [][Next]_vars

(* Threads that can run do run, and a job behind the gate ends.  Nobody is *)
(* obliged to submit.                                                      *)
Fairness ==
    /\ \A s \in Submitters : WF_vars(ReadGate(s)) /\ WF_vars(Leave(s))
    /\ \A w \in Switchers : WF_vars(SwitcherStep(w))

FairSpec == Spec /\ Fairness

----------------------------------------------------------------------------

(* The values each variable may take; the count never exceeds the number   *)
(* of submitting threads and never falls below zero.                       *)
TypeOK ==
    /\ mSubmittedCount \in 0 .. Cardinality(Submitters)
    /\ mDraining \in BOOLEAN
    /\ buffered \in [Switchers -> {"none", "close", "open"}]
    /\ switchLock \subseteq Switchers
    /\ mPolicy \in 0 .. Cardinality(Switchers)
    /\ submitPc \in [Submitters -> {"idle", "counted", "inside", "refused"}]
    /\ rounds \in [Submitters -> 0 .. Rounds]
    /\ asked \in [Submitters -> SUBSET (0 .. Cardinality(Switchers))]
    /\ switchPc \in [Switchers -> {"called", "locked", "waiting", "clear",
                                   "swapped", "opened", "returned"}]

(* "This ensures no job is routed by two policies" (Balancer.h:39-42), with *)
(* any number of concurrent switchPolicy() and submit() calls.  It holds   *)
(* with SeqCst, and not without.                                           *)
OnePolicyPerJob == \A s \in Submitters : Cardinality(asked[s]) <= 1

(* The threads that may ask the policy are behind the gate, and with       *)
(* SeqCst the policy is exchanged only while there are none.               *)
Gate == INSTANCE DrainGate
            WITH Entrants <- Submitters,
                 behind <- {s \in Submitters : submitPc[s] = "inside"},
                 policy <- mPolicy

ImplementsGate == Gate!Spec

(* Every switchPolicy() call returns, the concurrent ones one after the    *)
(* other, and submit() is open in the end.                                 *)
SwitchesComplete ==
    <>[](~mDraining /\ \A w \in Switchers : switchPc[w] = "returned")
=============================================================================
