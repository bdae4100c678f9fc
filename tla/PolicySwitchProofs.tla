------------------------- MODULE PolicySwitchProofs -------------------------
(***************************************************************************)
(* Proofs about PolicySwitch, for any number of submitting and switching   *)
(* threads and any number of rounds.                                       *)
(*                                                                         *)
(* TypeCorrect holds under every memory order.  OnePolicy needs SeqCst:    *)
(* the invariant is that the gate, once closed in memory by the holder of  *)
(* mSwitchMutex, stays closed until that thread opens it, and that the     *)
(* policy is exchanged only while nobody is behind the gate.               *)
(***************************************************************************)
EXTENDS PolicySwitch, FiniteSetTheorems, TLAPS

(* What the two counters count.                                            *)
Counted == {s \in Submitters : submitPc[s] # "idle"}
Exchanged == {w \in Switchers : switchPc[w] \in {"swapped", "opened", "returned"}}

(* TypeOK without the upper bounds of the counters, which follow.          *)
Typed ==
    /\ mSubmittedCount \in Nat
    /\ mDraining \in BOOLEAN
    /\ buffered \in [Switchers -> {"none", "close", "open"}]
    /\ switchLock \subseteq Switchers
    /\ mPolicy \in Nat
    /\ submitPc \in [Submitters -> {"idle", "counted", "inside", "refused"}]
    /\ rounds \in [Submitters -> 0 .. Rounds]
    /\ asked \in [Submitters -> SUBSET (0 .. Cardinality(Switchers))]
    /\ switchPc \in [Switchers -> {"called", "locked", "waiting", "clear",
                                   "swapped", "opened", "returned"}]

CountersExact ==
    /\ mSubmittedCount = Cardinality(Counted)
    /\ mPolicy = Cardinality(Exchanged)

TypeInv == Typed /\ CountersExact

(* The subsets counted are finite, and no larger than the whole.           *)
LEMMA Finite ==
    /\ IsFiniteSet(Counted) /\ Cardinality(Counted) \in 0 .. Cardinality(Submitters)
    /\ IsFiniteSet(Exchanged) /\ Cardinality(Exchanged) \in 0 .. Cardinality(Switchers)
<1>1. Counted \in SUBSET Submitters /\ Exchanged \in SUBSET Switchers
  BY DEF Counted, Exchanged
<1>2. IsFiniteSet(Submitters) /\ IsFiniteSet(Switchers)
  BY PolicySwitchAssumption
<1>3. IsFiniteSet(Counted) /\ IsFiniteSet(Exchanged)
  BY <1>1, <1>2, FS_Subset
<1>4. Cardinality(Counted) <= Cardinality(Submitters)
  BY <1>1, <1>2, FS_Subset
<1>5. Cardinality(Exchanged) <= Cardinality(Switchers)
  BY <1>1, <1>2, FS_Subset
<1> QED
  BY <1>2, <1>3, <1>4, <1>5, FS_CardinalityType

LEMMA TypeInvImplies == TypeInv => TypeOK
BY Finite DEF TypeInv, Typed, CountersExact, TypeOK

LEMMA TypeInit == Init => TypeInv
<1> SUFFICES ASSUME Init PROVE TypeInv
  OBVIOUS
<1>1. Counted = {} /\ Exchanged = {}
  BY DEF Init, Counted, Exchanged
<1>2. Cardinality({}) = 0
  BY FS_EmptySet
<1>3. CountersExact
  BY <1>1, <1>2 DEF Init, CountersExact
<1>4. rounds \in [Submitters -> 0 .. Rounds]
  BY PolicySwitchAssumption DEF Init
<1>5. asked \in [Submitters -> SUBSET (0 .. Cardinality(Switchers))]
  BY DEF Init
<1>6. Typed
  BY <1>4, <1>5 DEF Init, Typed
<1> QED
  BY <1>3, <1>6 DEF TypeInv

LEMMA TypeStep == TypeInv /\ [Next]_vars => TypeInv'
<1> SUFFICES ASSUME TypeInv, [Next]_vars PROVE TypeInv'
  OBVIOUS
<1> USE DEF TypeInv, Typed
<1>0. /\ IsFiniteSet(Counted) /\ Cardinality(Counted) \in Nat
      /\ IsFiniteSet(Exchanged) /\ Cardinality(Exchanged) \in 0 .. Cardinality(Switchers)
  BY Finite
<1>s. ASSUME NEW s \in Submitters, SubmitterStep(s) PROVE TypeInv'
  <2>1. Exchanged' = Exchanged
    BY <1>s DEF SubmitterStep, Increment, ReadGate, Ask, Leave, SubmitStep, Exchanged
  <2>2. CASE Increment(s)
    <3>1. Counted' = Counted \cup {s} /\ s \notin Counted
      BY <2>2 DEF Increment, SubmitStep, Counted
    <3>2. Cardinality(Counted') = Cardinality(Counted) + 1
      BY <3>1, <1>0, FS_AddElement
    <3>3. CountersExact'
      BY <2>1, <2>2, <3>2, <1>0 DEF CountersExact, Increment, SubmitStep
    <3>4. Typed'
      BY <2>2, PolicySwitchAssumption DEF Increment, SubmitStep
    <3> QED
      BY <3>3, <3>4
  <2>3. CASE ReadGate(s)
    <3>1. Counted' = Counted
      BY <2>3 DEF ReadGate, SubmitStep, Counted
    <3>2. CountersExact'
      BY <2>1, <2>3, <3>1 DEF CountersExact, ReadGate, SubmitStep
    <3>3. Typed'
      BY <2>3 DEF ReadGate, SubmitStep
    <3> QED
      BY <3>2, <3>3
  <2>4. CASE Ask(s)
    <3>1. Counted' = Counted
      BY <2>4 DEF Ask, SubmitStep, Counted
    <3>2. CountersExact'
      BY <2>1, <2>4, <3>1 DEF CountersExact, Ask, SubmitStep
    <3>3. mPolicy \in 0 .. Cardinality(Switchers)
      BY <1>0 DEF CountersExact
    <3>4. asked' \in [Submitters -> SUBSET (0 .. Cardinality(Switchers))]
      BY <2>4, <3>3 DEF Ask
    <3>5. Typed'
      BY <2>4, <3>4 DEF Ask, SubmitStep
    <3> QED
      BY <3>2, <3>5
  <2>5. CASE Leave(s)
    <3>1. Counted' = Counted \ {s} /\ s \in Counted
      BY <2>5 DEF Leave, SubmitStep, Counted
    <3>2. Cardinality(Counted') = Cardinality(Counted) - 1 /\ Cardinality(Counted') \in Nat
      BY <3>1, <1>0, FS_RemoveElement, FS_CardinalityType
    <3>3. CountersExact'
      BY <2>1, <2>5, <3>2, <1>0 DEF CountersExact, Leave, SubmitStep
    <3>4. Typed'
      BY <2>5, <3>2, <3>3 DEF Leave, SubmitStep, CountersExact
    <3> QED
      BY <3>3, <3>4
  <2> QED
    BY <1>s, <2>2, <2>3, <2>4, <2>5 DEF SubmitterStep
<1>w. ASSUME NEW w \in Switchers, SwitcherStep(w) PROVE TypeInv'
  <2>1. Counted' = Counted
    BY <1>w DEF SwitcherStep, SwitchEnter, CloseGate, SeeZero, Swap, OpenGate,
                SwitchLeave, Flush, SwitchStep, Counted
  <2>2. CASE Swap(w)
    <3>1. Exchanged' = Exchanged \cup {w} /\ w \notin Exchanged
      BY <2>2 DEF Swap, SwitchStep, Exchanged
    <3>2. Cardinality(Exchanged') = Cardinality(Exchanged) + 1
      BY <3>1, <1>0, FS_AddElement
    <3>3. CountersExact'
      BY <2>1, <2>2, <3>2, <1>0 DEF CountersExact, Swap, SwitchStep
    <3>4. Typed'
      BY <2>2 DEF Swap, SwitchStep
    <3> QED
      BY <3>3, <3>4
  <2>3. CASE ~Swap(w)
    <3>1. Exchanged' = Exchanged
      BY <1>w, <2>3 DEF SwitcherStep, SwitchEnter, CloseGate, SeeZero, OpenGate,
                        SwitchLeave, Flush, SwitchStep, Exchanged
    <3>2. CountersExact'
      BY <1>w, <2>1, <2>3, <3>1 DEF CountersExact, SwitcherStep, SwitchEnter, CloseGate,
            SeeZero, OpenGate, SwitchLeave, Flush, SwitchStep
    <3>3. mDraining' \in BOOLEAN /\ buffered' \in [Switchers -> {"none", "close", "open"}]
      BY <1>w, <2>3 DEF SwitcherStep, SwitchEnter, CloseGate, SeeZero, OpenGate,
                        SwitchLeave, Flush, Store
    <3>4. switchLock' \subseteq Switchers
      BY <1>w, <2>3 DEF SwitcherStep, SwitchEnter, CloseGate, SeeZero, OpenGate,
                        SwitchLeave, Flush
    <3>5. switchPc' \in [Switchers -> {"called", "locked", "waiting", "clear",
                                       "swapped", "opened", "returned"}]
      BY <1>w, <2>3 DEF SwitcherStep, SwitchEnter, CloseGate, SeeZero, OpenGate,
                        SwitchLeave, Flush, SwitchStep
    <3>6. UNCHANGED <<mSubmittedCount, submitPc, rounds, asked, mPolicy>>
      BY <1>w, <2>3 DEF SwitcherStep, SwitchEnter, CloseGate, SeeZero, OpenGate,
                        SwitchLeave, Flush, SwitchStep
    <3>7. Typed'
      BY <3>3, <3>4, <3>5, <3>6
    <3> QED
      BY <3>2, <3>7
  <2> QED
    BY <2>2, <2>3
<1>u. CASE UNCHANGED vars
  BY <1>u DEF vars, CountersExact, Counted, Exchanged
<1> QED
  BY <1>s, <1>w, <1>u DEF Next, AllReturned

(* Every variable keeps its type: the count of submissions stays between   *)
(* zero and the number of submitting threads (no fetch_sub of submit() or  *)
(* of a completion meets a zero).                                          *)
THEOREM TypeCorrect == Spec => []TypeOK
<1>1. Spec => []TypeInv
  BY TypeInit, TypeStep, PTL DEF Spec
<1> QED
  BY <1>1, TypeInvImplies, PTL

----------------------------------------------------------------------------
(* The drain-swap-resume protocol, when a store is visible before a later  *)
(* load of the same thread.                                                *)

Holding == {"locked", "waiting", "clear", "swapped", "opened"}

(* mSwitchMutex is held by the one thread inside switchPolicy().           *)
MutualExclusion ==
    /\ \A w \in Switchers : switchPc[w] \in Holding <=> w \in switchLock
    /\ \A v, w \in switchLock : v = w

(* Only the holder has stores of its own under way, and the gate is closed *)
(* in memory from the moment that its closing store has left the buffer    *)
(* until its opening store does.                                           *)
GateClosed ==
    \A w \in Switchers :
        /\ switchPc[w] \in {"called", "locked", "clear", "swapped", "returned"}
               => buffered[w] = "none"
        /\ switchPc[w] = "waiting" => buffered[w] # "open"
        /\ switchPc[w] = "waiting" /\ buffered[w] = "none" => mDraining
        /\ switchPc[w] \in {"clear", "swapped"} => mDraining

(* Nobody is behind the gate while the policy is exchanged.                *)
Deserted ==
    \A w \in Switchers : switchPc[w] \in {"clear", "swapped"}
        => \A s \in Submitters : submitPc[s] # "inside"

(* Only the active policy has been asked about a job behind the gate.      *)
AskedActive ==
    \A s \in Submitters :
        /\ asked[s] \subseteq {mPolicy}
        /\ submitPc[s] # "inside" => asked[s] = {}

GateInv == MutualExclusion /\ GateClosed /\ Deserted /\ AskedActive

LEMMA GateInit == Init => GateInv
BY DEF Init, GateInv, MutualExclusion, GateClosed, Deserted, AskedActive, Holding

LEMMA GateStep ==
    ASSUME SeqCst, TypeInv, GateInv, [Next]_vars
    PROVE  GateInv'
<1> USE DEF TypeInv, Typed, GateInv
<1>s. ASSUME NEW s \in Submitters, SubmitterStep(s) PROVE GateInv'
  <2>1. UNCHANGED <<mDraining, buffered, switchLock, mPolicy, switchPc>>
    BY <1>s DEF SubmitterStep, Increment, ReadGate, Ask, Leave, SubmitStep
  <2>2. MutualExclusion' /\ GateClosed'
    BY <2>1 DEF MutualExclusion, GateClosed
  <2>3. Deserted'
    BY <1>s, <2>1 DEF Deserted, GateClosed, SubmitterStep, Increment, ReadGate, Ask,
                      Leave, SubmitStep
  <2>4. AskedActive'
    BY <1>s, <2>1 DEF AskedActive, SubmitterStep, Increment, ReadGate, Ask, Leave,
                      SubmitStep
  <2> QED
    BY <2>2, <2>3, <2>4
<1>w. ASSUME NEW w \in Switchers, SwitcherStep(w) PROVE GateInv'
  <2>1. UNCHANGED <<mSubmittedCount, submitPc, rounds, asked>>
    BY <1>w DEF SwitcherStep, SwitchEnter, CloseGate, SeeZero, Swap, OpenGate,
                SwitchLeave, Flush, SwitchStep
  <2>2. MutualExclusion'
    BY <1>w DEF MutualExclusion, Holding, SwitcherStep, SwitchEnter, CloseGate, SeeZero,
                Swap, OpenGate, SwitchLeave, Flush, SwitchStep
  <2>3. GateClosed'
    <3> SUFFICES ASSUME NEW v \in Switchers
                 PROVE  /\ switchPc'[v] \in {"called", "locked", "clear", "swapped", "returned"}
                               => buffered'[v] = "none"
                        /\ switchPc'[v] = "waiting" => buffered'[v] # "open"
                        /\ switchPc'[v] = "waiting" /\ buffered'[v] = "none" => mDraining'
                        /\ switchPc'[v] \in {"clear", "swapped"} => mDraining'
      BY DEF GateClosed
    <3>1. CASE SeeZero(w)
      <4>1. buffered[w] = "none"
        BY <3>1 DEF SeeZero
      <4> QED
        BY <3>1, <4>1 DEF SeeZero, SwitchStep, GateClosed
    <3>2. CASE Flush(w)
      <4>1. switchPc[w] \in {"waiting", "opened"}
        BY <3>2 DEF Flush, GateClosed
      <4>2. v # w => switchPc[v] \notin Holding
        BY <4>1 DEF MutualExclusion, Holding
      <4>3. CASE v # w
        BY <3>2, <4>2, <4>3 DEF Flush, GateClosed, Holding
      <4>4. CASE v = w
        <5>1. buffered'[w] = "none" /\ switchPc'[w] = switchPc[w]
          BY <3>2 DEF Flush
        <5>2. switchPc[w] = "waiting" => buffered[w] = "close"
          BY <3>2 DEF Flush, GateClosed
        <5>3. switchPc[w] = "waiting" => mDraining'
          BY <3>2, <5>2 DEF Flush
        <5> QED
          BY <4>1, <4>4, <5>1, <5>3
      <4> QED
        BY <4>3, <4>4
    <3>3. CASE SwitchEnter(w) \/ CloseGate(w) \/ Swap(w) \/ OpenGate(w) \/ SwitchLeave(w)
      <4>1. mDraining' = mDraining
        BY <3>3 DEF SwitchEnter, CloseGate, Swap, OpenGate, SwitchLeave
      <4> QED
        BY <3>3, <4>1 DEF GateClosed, SwitchEnter, CloseGate, Swap, OpenGate,
                          SwitchLeave, SwitchStep, Store
    <3> QED
      BY <1>w, <3>1, <3>2, <3>3 DEF SwitcherStep
  <2>4. Deserted'
    <3>1. CASE SeeZero(w)
      <4>1. Counted = {}
        BY <3>1, Finite, FS_EmptySet DEF SeeZero, CountersExact
      <4> QED
        BY <2>1, <4>1 DEF Counted, Deserted
    <3>2. CASE ~SeeZero(w)
      BY <1>w, <2>1, <3>2 DEF Deserted, SwitcherStep, SwitchEnter, CloseGate, Swap,
                              OpenGate, SwitchLeave, Flush, SwitchStep
    <3> QED
      BY <3>1, <3>2
  <2>5. AskedActive'
    <3>1. CASE Swap(w)
      BY <2>1, <3>1 DEF AskedActive, Deserted, Swap, SwitchStep
    <3>2. CASE ~Swap(w)
      BY <1>w, <2>1, <3>2 DEF AskedActive, SwitcherStep, SwitchEnter, CloseGate, SeeZero,
                              OpenGate, SwitchLeave, Flush
    <3> QED
      BY <3>1, <3>2
  <2> QED
    BY <2>2, <2>3, <2>4, <2>5
<1>u. CASE UNCHANGED vars
  BY <1>u DEF vars, MutualExclusion, GateClosed, Deserted, AskedActive
<1> QED
  BY <1>s, <1>w, <1>u DEF Next, AllReturned

LEMMA AskedOnce == AskedActive => OnePolicyPerJob
<1> SUFFICES ASSUME AskedActive, NEW s \in Submitters PROVE Cardinality(asked[s]) <= 1
  BY DEF OnePolicyPerJob
<1>1. asked[s] = {} \/ asked[s] = {mPolicy}
  BY DEF AskedActive
<1>2. Cardinality({}) = 0 /\ Cardinality({mPolicy}) = 1
  BY FS_EmptySet, FS_Singleton
<1> QED
  BY <1>1, <1>2

(* Drain-swap-resume is right as designed: with stores ordered before      *)
(* later loads, no job is routed by two policies, however many threads     *)
(* submit and switch at the same time.                                     *)
THEOREM OnePolicy == ASSUME SeqCst PROVE Spec => []OnePolicyPerJob
<1>1. Spec => []TypeInv
  BY TypeInit, TypeStep, PTL DEF Spec
<1>2. TypeInv /\ GateInv /\ [Next]_vars => GateInv'
  BY GateStep
<1>3. GateInv => OnePolicyPerJob
  BY AskedOnce DEF GateInv
<1> QED
  BY <1>1, <1>2, <1>3, GateInit, PTL DEF Spec

(* A thread's step behind the gate, at it or past it.                      *)
LEMMA SubmitterImplements ==
    ASSUME TypeInv, NEW s \in Submitters, SubmitterStep(s)
    PROVE  [Gate!Next]_Gate!gateVars
<1> DEFINE Behind == {t \in Submitters : submitPc[t] = "inside"}
<1>1. mPolicy' = mPolicy
  BY DEF SubmitterStep, Increment, ReadGate, Ask, Leave, SubmitStep
<1>2. PICK to : submitPc' = [submitPc EXCEPT ![s] = to]
  BY DEF SubmitterStep, Increment, ReadGate, Ask, Leave, SubmitStep
<1>3. CASE to = "inside"
  <2>1. Behind' = Behind \cup {s}
    BY <1>2, <1>3 DEF TypeInv, Typed
  <2>2. Gate!Enter(s)
    BY <1>1, <2>1 DEF Gate!Enter
  <2> QED
    BY <2>2 DEF Gate!Next
<1>4. CASE to # "inside"
  <2>1. Behind' = Behind \ {s}
    BY <1>2, <1>4 DEF TypeInv, Typed
  <2>2. Gate!Leave(s)
    BY <1>1, <2>1 DEF Gate!Leave
  <2> QED
    BY <2>2 DEF Gate!Next
<1> QED
  BY <1>3, <1>4

(* Only the exchange matters to the gate: Deserted says that it finds      *)
(* nobody.                                                                 *)
LEMMA SwitcherImplements ==
    ASSUME GateInv, NEW w \in Switchers, SwitcherStep(w)
    PROVE  [Gate!Next]_Gate!gateVars
<1>1. submitPc' = submitPc
  BY DEF SwitcherStep, SwitchEnter, CloseGate, SeeZero, Swap, OpenGate, SwitchLeave,
         Flush, SwitchStep
<1>2. CASE Swap(w)
  <2>1. {s \in Submitters : submitPc[s] = "inside"} = {}
    BY <1>2 DEF Swap, SwitchStep, GateInv, Deserted
  <2> QED
    BY <1>1, <2>1 DEF Gate!Next, Gate!Exchange
<1>3. CASE ~Swap(w)
  <2>1. mPolicy' = mPolicy
    BY <1>3 DEF SwitcherStep, SwitchEnter, CloseGate, SeeZero, OpenGate, SwitchLeave, Flush
  <2> QED
    BY <1>1, <2>1 DEF Gate!gateVars
<1> QED
  BY <1>2, <1>3

(* Ordered stores make the protocol of submit() and switchPolicy() a drain *)
(* gate, for any number of threads on either side: what Balancer, which    *)
(* takes its atomics for sequentially consistent, builds on.               *)
THEOREM DrainProtocolIsGate == ASSUME SeqCst PROVE Spec => ImplementsGate
<1>1. Spec => []TypeInv
  BY TypeInit, TypeStep, PTL DEF Spec
<1>2. TypeInv /\ GateInv /\ [Next]_vars => GateInv'
  BY GateStep
<1>3. Init => Gate!Init
  BY DEF Init, Gate!Init
<1>4. ASSUME TypeInv, GateInv, [Next]_vars
      PROVE  [Gate!Next]_Gate!gateVars
  <2>1. CASE UNCHANGED vars
    BY <2>1 DEF vars, Gate!gateVars
  <2> QED
    BY <1>4, <2>1, SubmitterImplements, SwitcherImplements DEF Next, AllReturned
<1> QED
  BY <1>1, <1>2, <1>3, <1>4, GateInit, PTL DEF Spec, ImplementsGate, Gate!Spec
=============================================================================
