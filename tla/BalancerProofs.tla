--------------------------- MODULE BalancerProofs ---------------------------
(***************************************************************************)
(* IInv is an inductive invariant of Balancer, its safety properties       *)
(* follow, and Balancer implements JobLifecycle.                           *)
(***************************************************************************)
EXTENDS BalancerInvariant

(* The counters, when nothing or one job enters or leaves what they count. *)

LEMMA CountsFinite ==
    IsFiniteSet(FlightJobs) /\ IsFiniteSet(SlotJobs)
BY BalancerAssumption, FS_Subset DEF FlightJobs, SlotJobs

LEMMA CountSame ==
    ASSUME CountInv, mSubmittedCount' = mSubmittedCount,
           \A j \in Jobs : InFlight(j)' <=> InFlight(j)
    PROVE  CountInv'
<1>1. FlightJobs' = FlightJobs
  BY DEF FlightJobs
<1> QED
  BY <1>1 DEF CountInv

LEMMA CountUp ==
    ASSUME CountInv, NEW k \in Jobs, ~InFlight(k),
           mSubmittedCount' = mSubmittedCount + 1,
           \A j \in Jobs : InFlight(j)' <=> (InFlight(j) \/ j = k)
    PROVE  CountInv' /\ mSubmittedCount' \in Nat
<1>1. FlightJobs' = FlightJobs \cup {k} /\ k \notin FlightJobs
  BY DEF FlightJobs
<1>2. IsFiniteSet(FlightJobs) /\ Cardinality(FlightJobs) \in Nat
  BY CountsFinite, FS_CardinalityType
<1>3. Cardinality(FlightJobs') = Cardinality(FlightJobs) + 1
  BY <1>1, <1>2, FS_AddElement
<1> QED
  BY <1>2, <1>3 DEF CountInv

LEMMA CountDown ==
    ASSUME CountInv, NEW k \in Jobs, InFlight(k),
           mSubmittedCount' = mSubmittedCount - 1,
           \A j \in Jobs : InFlight(j)' <=> (InFlight(j) /\ j # k)
    PROVE  CountInv' /\ mSubmittedCount' \in Nat
<1>1. FlightJobs' = FlightJobs \ {k} /\ k \in FlightJobs
  BY DEF FlightJobs
<1>2. IsFiniteSet(FlightJobs) /\ IsFiniteSet(FlightJobs')
  BY <1>1, CountsFinite, FS_RemoveElement
<1>3. Cardinality(FlightJobs') = Cardinality(FlightJobs) - 1
  BY <1>1, <1>2, FS_RemoveElement
<1>4. Cardinality(FlightJobs') \in Nat
  BY <1>2, FS_CardinalityType
<1> QED
  BY <1>3, <1>4 DEF CountInv

LEMMA SlotSame ==
    ASSUME SlotInv, mHoldingQueueDepth' = mHoldingQueueDepth,
           \A j \in Jobs : HasSlot(j)' <=> HasSlot(j)
    PROVE  SlotInv'
<1>1. SlotJobs' = SlotJobs
  BY DEF SlotJobs
<1> QED
  BY <1>1 DEF SlotInv

LEMMA SlotUp ==
    ASSUME SlotInv, NEW k \in Jobs, ~HasSlot(k), ReserveSlot,
           \A j \in Jobs : HasSlot(j)' <=> (HasSlot(j) \/ j = k)
    PROVE  SlotInv' /\ mHoldingQueueDepth' \in 0 .. Capacity
<1>1. SlotJobs' = SlotJobs \cup {k} /\ k \notin SlotJobs
  BY DEF SlotJobs
<1>2. IsFiniteSet(SlotJobs) /\ Cardinality(SlotJobs) \in Nat
  BY CountsFinite, FS_CardinalityType
<1>3. Cardinality(SlotJobs') = Cardinality(SlotJobs) + 1
  BY <1>1, <1>2, FS_AddElement
<1> QED
  BY <1>2, <1>3, CapacityAssumption DEF SlotInv, ReserveSlot, SlotFree

LEMMA SlotDown ==
    ASSUME SlotInv, mHoldingQueueDepth \in 0 .. Capacity,
           NEW k \in Jobs, HasSlot(k), ReleaseSlot,
           \A j \in Jobs : HasSlot(j)' <=> (HasSlot(j) /\ j # k)
    PROVE  SlotInv' /\ mHoldingQueueDepth' \in 0 .. Capacity
<1>1. SlotJobs' = SlotJobs \ {k} /\ k \in SlotJobs
  BY DEF SlotJobs
<1>2. IsFiniteSet(SlotJobs) /\ IsFiniteSet(SlotJobs')
  BY <1>1, CountsFinite, FS_RemoveElement
<1>3. Cardinality(SlotJobs') = Cardinality(SlotJobs) - 1
  BY <1>1, <1>2, FS_RemoveElement
<1>4. Cardinality(SlotJobs') \in Nat
  BY <1>2, FS_CardinalityType
<1> QED
  BY <1>3, <1>4, CapacityAssumption DEF SlotInv, ReleaseSlot

(* A job outside the queue that owns a slot leaves room in the queue: no   *)
(* requeue meets a full queue.                                             *)
LEMMA RoomToRequeue ==
    ASSUME QueueOK, SlotInv, mHoldingQueueDepth \in 0 .. Capacity,
           NEW k \in Jobs, HasSlot(k), k \notin Queued
    PROVE  ~QueueFull
<1>1. IsFiniteSet(Jobs)
  BY BalancerAssumption
<1>2. Queued \subseteq Jobs /\ IsFiniteSet(Queued)
  BY <1>1, QueuedJobs
<1>3. Queued \cup {k} \in SUBSET SlotJobs
  BY <1>2 DEF SlotJobs, HasSlot
<1>4. Cardinality(Queued \cup {k}) = Cardinality(Queued) + 1
  BY <1>2, FS_AddElement
<1>5. Cardinality(Queued \cup {k}) <= Cardinality(SlotJobs)
  BY <1>3, CountsFinite, FS_Subset
<1>6. QueueSize = Cardinality(Queued) /\ Cardinality(Queued) \in Nat
  BY <1>2, FS_CardinalityType DEF QueueOK
<1> QED
  BY <1>4, <1>5, <1>6, CapacityAssumption DEF SlotInv, QueueFull

----------------------------------------------------------------------------
(* Time and finalisation.                                                  *)

LEMMA DeadlinePassesKeeps ==
    ASSUME IInv, NEW k \in Jobs, DeadlinePasses(k)
    PROVE  IInv'
<1> USE DEF IInv
<1>0. UNCHANGED <<queueVars, mHoldingQueueDepth, gateVars, mapVars, jobVars,
                  drainVars, cancelVars, agingVars, ownerVars>>
  BY DEF DeadlinePasses
<1>1. QueueOK' /\ Queued' = Queued
  BY <1>0, QueueUntouched
<1>2. TypeOK'
  BY <1>0 DEF TypeOK, DeadlinePasses, queueVars, gateVars, mapVars, jobVars, drainVars,
              cancelVars, agingVars, ownerVars
<1>3. ThreadInv' /\ DtorInv' /\ SwitchInv'
  BY <1>0 DEF ThreadInv, DtorInv, SwitchInv, PastGate, InFlight, gateVars, jobVars,
              drainVars, cancelVars, agingVars, ownerVars
<1>4. JobInv'
  BY <1>0, <1>1 DEF JobInv, WaitInv, RegisterInv, EndInv, ResidueInv, Held, InHand,
              Removed, mapVars, jobVars, drainVars, cancelVars, agingVars
<1>5. CountInv'
  BY <1>0, CountSame DEF InFlight, gateVars, jobVars
<1>6. SlotInv'
  BY <1>0, <1>1, SlotSame DEF HasSlot, jobVars, drainVars, cancelVars
<1> QED
  BY <1>1, <1>2, <1>3, <1>4, <1>5, <1>6

LEMMA BeginFinalizeTypes ==
    ASSUME NEW k \in Jobs, BeginFinalize(k),
           fin \in [Jobs -> {"none", "begun", "untracked", "erased", "done"}],
           finalized \in [Jobs -> Nat]
    PROVE  /\ fin' \in [Jobs -> {"none", "begun", "untracked", "erased", "done"}]
           /\ finalized' \in [Jobs -> Nat]
BY DEF BeginFinalize

LEMMA FinalizeUntrackKeeps ==
    ASSUME IInv, NEW k \in Jobs, FinalizeUntrack(k)
    PROVE  IInv'
<1> USE DEF IInv
<1>0. /\ fin[k] = "begun" /\ fin' = [fin EXCEPT ![k] = "untracked"]
      /\ mTracked' = mTracked \ {k}
      /\ UNCHANGED <<queueVars, mHoldingQueueDepth, gateVars, mHandleToJobInfo,
                     late, sub, task, reg, early, finalized, holdRetries,
                     drainVars, cancelVars, agingVars, ownerVars>>
  BY DEF FinalizeUntrack
<1>1. QueueOK' /\ Queued' = Queued
  BY <1>0, QueueUntouched
<1>2. TypeOK'
  BY <1>0 DEF TypeOK, queueVars, gateVars, drainVars, cancelVars, agingVars, ownerVars
<1>3. \A j \in Jobs : InFlight(j)' <=> InFlight(j)
  BY <1>0 DEF InFlight, TypeOK
<1>4. ThreadInv' /\ DtorInv' /\ SwitchInv'
  BY <1>0, <1>3 DEF ThreadInv, DtorInv, SwitchInv, PastGate, gateVars,
              drainVars, cancelVars, agingVars, ownerVars
<1>5. JobInv'
  BY <1>0, <1>1 DEF TypeOK, JobInv, WaitInv, RegisterInv, EndInv, ResidueInv, Held, InHand,
              Removed, drainVars, cancelVars, agingVars
<1>6. CountInv'
  BY <1>0, <1>3, CountSame DEF gateVars
<1>7. SlotInv'
  BY <1>0, <1>1, SlotSame DEF HasSlot, drainVars, cancelVars
<1> QED
  BY <1>1, <1>2, <1>4, <1>5, <1>6, <1>7

LEMMA FinalizeEraseKeeps ==
    ASSUME IInv, NEW k \in Jobs, FinalizeErase(k)
    PROVE  IInv'
<1> USE DEF IInv
<1>0. /\ fin[k] = "untracked" /\ fin' = [fin EXCEPT ![k] = "erased"]
      /\ mHandleToJobInfo' = mHandleToJobInfo \ {k}
      /\ UNCHANGED <<queueVars, mHoldingQueueDepth, gateVars, mTracked, late,
                     sub, task, reg, early, finalized, holdRetries, drainVars,
                     cancelVars, agingVars, ownerVars>>
  BY DEF FinalizeErase
<1>1. QueueOK' /\ Queued' = Queued
  BY <1>0, QueueUntouched
<1>2. TypeOK'
  BY <1>0 DEF TypeOK, queueVars, gateVars, drainVars, cancelVars, agingVars, ownerVars
<1>3. \A j \in Jobs : InFlight(j)' <=> InFlight(j)
  BY <1>0 DEF InFlight, TypeOK
<1>4. ThreadInv' /\ DtorInv' /\ SwitchInv'
  BY <1>0, <1>3 DEF ThreadInv, DtorInv, SwitchInv, PastGate, gateVars,
              drainVars, cancelVars, agingVars, ownerVars
<1>5. JobInv'
  BY <1>0, <1>1 DEF TypeOK, JobInv, WaitInv, RegisterInv, EndInv, ResidueInv, Held, InHand,
              Removed, drainVars, cancelVars, agingVars
<1>6. CountInv'
  BY <1>0, <1>3, CountSame DEF gateVars
<1>7. SlotInv'
  BY <1>0, <1>1, SlotSame DEF HasSlot, drainVars, cancelVars
<1> QED
  BY <1>1, <1>2, <1>4, <1>5, <1>6, <1>7

LEMMA FinalizeDecrementKeeps ==
    ASSUME IInv, NEW k \in Jobs, FinalizeDecrement(k)
    PROVE  IInv'
<1> USE DEF IInv
<1>0. /\ fin[k] = "erased" /\ fin' = [fin EXCEPT ![k] = "done"]
      /\ mSubmittedCount' = mSubmittedCount - 1
      /\ UNCHANGED <<queueVars, mHoldingQueueDepth, mDraining, mPolicy, mapVars,
                     late, sub, task, reg, early, finalized, holdRetries,
                     drainVars, cancelVars, agingVars, ownerVars>>
  BY DEF FinalizeDecrement
<1>1. QueueOK' /\ Queued' = Queued
  BY <1>0, QueueUntouched
<1>2. InFlight(k)
  BY <1>0 DEF InFlight, JobInv, WaitInv, Undelivered
<1>3. \A j \in Jobs : InFlight(j)' <=> (InFlight(j) /\ j # k)
  BY <1>0 DEF InFlight, TypeOK
<1>4. CountInv' /\ mSubmittedCount' \in Nat
  BY <1>0, <1>2, <1>3, CountDown
<1>5. TypeOK'
  BY <1>0, <1>4 DEF TypeOK, queueVars, mapVars, drainVars, cancelVars, agingVars, ownerVars
<1>6. ThreadInv' /\ DtorInv' /\ SwitchInv'
  BY <1>0, <1>3 DEF ThreadInv, DtorInv, SwitchInv, PastGate,
              drainVars, cancelVars, agingVars, ownerVars
<1>7. JobInv'
  BY <1>0, <1>1 DEF TypeOK, JobInv, WaitInv, RegisterInv, EndInv, ResidueInv, Held, InHand,
              Removed, mapVars, drainVars, cancelVars, agingVars
<1>8. SlotInv'
  BY <1>0, <1>1, SlotSame DEF HasSlot, drainVars, cancelVars
<1> QED
  BY <1>1, <1>4, <1>5, <1>6, <1>7, <1>8

----------------------------------------------------------------------------
(* submit().                                                               *)

(* The steps of submit() that only move the thread on.                     *)
LEMMA SubmitMovesKeeps ==
    ASSUME IInv, NEW k \in Jobs,
           \/ SubmitGate(k) \/ SubmitReject(k) \/ SubmitHoldReturn(k)
           \/ SubmitAdmit(k) \/ SubmitSelect(k) \/ SubmitNodeRefuses(k)
           \/ SubmitReturn(k)
    PROVE  IInv'
<1> USE DEF IInv
<1>0. UNCHANGED <<queueVars, mHoldingQueueDepth, gateVars, late, mapVars, task,
                  reg, early, fin, finalized, holdRetries, drainVars,
                  cancelVars, agingVars, ownerVars>>
  BY DEF SubmitGate, SubmitReject, SubmitHoldReturn, SubmitAdmit, SubmitSelect,
         SubmitNodeRefuses, SubmitReturn, SubmitStep
<1>1. PICK to \in SubPcs :
         /\ sub' = [sub EXCEPT ![k] = to]
         /\ \/ sub[k] = "counted" /\ to = "refused"
            \/ sub[k] = "counted" /\ to = "gatePassed" /\ ~mDraining
            \/ sub[k] = "gatePassed" /\ to \in {"refused", "admitted"}
            \/ sub[k] = "enqueued" /\ to = "held"
            \/ sub[k] = "admitted" /\ to \in {"selected", "refused"}
            \/ sub[k] = "selected" /\ to = "refused"
            \/ sub[k] = "registering" /\ to = "dispatched" /\ reg[k] = "published"
  BY DEF SubmitGate, SubmitReject, SubmitHoldReturn, SubmitAdmit, SubmitSelect,
         SubmitNodeRefuses, SubmitReturn, SubmitStep, Registered, SubPcs
<1>2. QueueOK' /\ Queued' = Queued
  BY <1>0, QueueUntouched
<1>3. TypeOK'
  BY <1>0, <1>1 DEF TypeOK, queueVars, gateVars, mapVars, drainVars, cancelVars, agingVars,
                    ownerVars
<1>4. \A j \in Jobs : InFlight(j)' <=> InFlight(j)
  BY <1>0, <1>1 DEF InFlight, TypeOK
<1>5. ThreadInv'
  BY <1>0 DEF ThreadInv, drainVars, cancelVars
<1>6. SwitchInv'
  BY <1>0, <1>1, <1>4 DEF SwitchInv, PastGate, TypeOK, gateVars, ownerVars
<1>7. DtorInv'
  BY <1>0, <1>1, <1>4 DEF DtorInv, TypeOK, gateVars, drainVars, agingVars, ownerVars
<1>8. JobInv'
  BY <1>0, <1>1, <1>2 DEF TypeOK, JobInv, WaitInv, RegisterInv, EndInv, ResidueInv, Held,
              InHand, Removed, Undelivered, mapVars, drainVars, cancelVars, agingVars
<1>9. CountInv'
  BY <1>0, <1>4, CountSame DEF gateVars
<1>10. SlotInv'
  BY <1>0, <1>1, <1>2, SlotSame DEF HasSlot, TypeOK, drainVars, cancelVars
<1> QED
  BY <1>2, <1>3, <1>5, <1>6, <1>7, <1>8, <1>9, <1>10

LEMMA SubmitCallKeeps ==
    ASSUME IInv, NEW k \in Jobs, SubmitCall(k)
    PROVE  IInv'
<1> USE DEF IInv
<1>0. /\ Alive
      /\ sub[k] = "idle" /\ sub' = [sub EXCEPT ![k] = "counted"]
      /\ mSubmittedCount' = mSubmittedCount + 1
      /\ UNCHANGED <<queueVars, mHoldingQueueDepth, mDraining, mPolicy, late, mapVars,
                     task, reg, early, fin, finalized, holdRetries, drainVars,
                     cancelVars, agingVars, ownerVars>>
  BY DEF SubmitCall, SubmitStep
<1>1. QueueOK' /\ Queued' = Queued
  BY <1>0, QueueUntouched
<1>2. ~InFlight(k) /\ \A j \in Jobs : InFlight(j)' <=> (InFlight(j) \/ j = k)
  BY <1>0 DEF InFlight, TypeOK, JobInv, WaitInv, Undelivered
<1>3. CountInv' /\ mSubmittedCount' \in Nat
  BY <1>0, <1>2, CountUp
<1>4. TypeOK'
  BY <1>0, <1>3 DEF TypeOK, SubPcs, queueVars, mapVars, drainVars, cancelVars, agingVars,
                    ownerVars
<1>5. ThreadInv' /\ DtorInv'
  BY <1>0 DEF ThreadInv, DtorInv, Alive, drainVars, cancelVars, agingVars, ownerVars
<1>6. SwitchInv'
  BY <1>0, <1>2 DEF SwitchInv, PastGate, TypeOK, ownerVars
<1>7. JobInv'
  BY <1>0, <1>1 DEF TypeOK, JobInv, WaitInv, RegisterInv, EndInv, ResidueInv, Held, InHand,
              Removed, Undelivered, mapVars, drainVars, cancelVars, agingVars
<1>8. SlotInv'
  BY <1>0, <1>1, SlotSame DEF HasSlot, TypeOK, drainVars, cancelVars
<1> QED
  BY <1>1, <1>3, <1>4, <1>5, <1>6, <1>7, <1>8

LEMMA SubmitRefusedKeeps ==
    ASSUME IInv, NEW k \in Jobs, SubmitRefused(k)
    PROVE  IInv'
<1> USE DEF IInv
<1>0. /\ sub[k] = "refused" /\ sub' = [sub EXCEPT ![k] = "rejected"]
      /\ mSubmittedCount' = mSubmittedCount - 1
      /\ UNCHANGED <<queueVars, mHoldingQueueDepth, mDraining, mPolicy, late, mapVars,
                     task, reg, early, fin, finalized, holdRetries, drainVars,
                     cancelVars, agingVars, ownerVars>>
  BY DEF SubmitRefused, SubmitStep
<1>1. QueueOK' /\ Queued' = Queued
  BY <1>0, QueueUntouched
<1>2. InFlight(k) /\ \A j \in Jobs : InFlight(j)' <=> (InFlight(j) /\ j # k)
  BY <1>0 DEF InFlight, TypeOK, JobInv, WaitInv, Undelivered
<1>3. CountInv' /\ mSubmittedCount' \in Nat
  BY <1>0, <1>2, CountDown
<1>4. TypeOK'
  BY <1>0, <1>3 DEF TypeOK, SubPcs, queueVars, mapVars, drainVars, cancelVars, agingVars,
                    ownerVars
<1>5. ThreadInv'
  BY <1>0 DEF ThreadInv, drainVars, cancelVars
<1>6. DtorInv' /\ SwitchInv'
  BY <1>0, <1>2 DEF DtorInv, SwitchInv, PastGate, TypeOK, drainVars, agingVars, ownerVars
<1>7. JobInv'
  BY <1>0, <1>1 DEF TypeOK, JobInv, WaitInv, RegisterInv, EndInv, ResidueInv, Held, InHand,
              Removed, Undelivered, mapVars, drainVars, cancelVars, agingVars
<1>8. SlotInv'
  BY <1>0, <1>1, SlotSame DEF HasSlot, TypeOK, drainVars, cancelVars
<1> QED
  BY <1>1, <1>3, <1>4, <1>5, <1>6, <1>7, <1>8

LEMMA SubmitReserveKeeps ==
    ASSUME IInv, NEW k \in Jobs, SubmitReserve(k)
    PROVE  IInv'
<1> USE DEF IInv
<1>0. /\ sub[k] = "gatePassed" /\ sub' = [sub EXCEPT ![k] = "reserved"]
      /\ ReserveSlot
      /\ UNCHANGED <<queueVars, gateVars, late, mapVars, task, reg, early, fin, finalized,
                     holdRetries, drainVars, cancelVars, agingVars, ownerVars>>
  BY DEF SubmitReserve, SubmitStep
<1>1. QueueOK' /\ Queued' = Queued
  BY <1>0, QueueUntouched
<1>2. \A j \in Jobs : InFlight(j)' <=> InFlight(j)
  BY <1>0 DEF InFlight, TypeOK
<1>3. ~HasSlot(k)
  BY <1>0 DEF HasSlot, JobInv, WaitInv, Undelivered, Removed
<1>4. \A j \in Jobs : HasSlot(j)' <=> (HasSlot(j) \/ j = k)
  BY <1>0, <1>1 DEF HasSlot, TypeOK, drainVars, cancelVars
<1>5. SlotInv' /\ mHoldingQueueDepth' \in 0 .. Capacity
  BY <1>0, <1>3, <1>4, SlotUp
<1>6. TypeOK'
  BY <1>0, <1>5 DEF TypeOK, SubPcs, queueVars, gateVars, mapVars, drainVars, cancelVars,
                    agingVars, ownerVars
<1>7. ThreadInv'
  BY <1>0 DEF ThreadInv, drainVars, cancelVars
<1>8. DtorInv' /\ SwitchInv'
  BY <1>0, <1>2 DEF DtorInv, SwitchInv, PastGate, TypeOK, gateVars, drainVars, agingVars,
                    ownerVars
<1>9. JobInv'
  BY <1>0, <1>1 DEF TypeOK, JobInv, WaitInv, RegisterInv, EndInv, ResidueInv, Held, InHand,
              Removed, Undelivered, mapVars, drainVars, cancelVars, agingVars
<1>10. CountInv'
  BY <1>0, <1>2, CountSame DEF gateVars
<1> QED
  BY <1>1, <1>5, <1>6, <1>7, <1>8, <1>9, <1>10

LEMMA SubmitHoldKeeps ==
    ASSUME IInv, NEW k \in Jobs, SubmitHold(k)
    PROVE  IInv'
<1> USE DEF IInv
<1>0. /\ sub[k] = "reserved"
      /\ UNCHANGED <<gateVars, late, mapVars, task, reg, early, fin, finalized,
                     holdRetries, drainVars, cancelVars, agingVars, ownerVars>>
  BY DEF SubmitHold, SubmitStep
<1>1. /\ task[k] = "none" /\ fin[k] = "none" /\ k \notin Queued /\ drainJob # k
      /\ ~Removed(k) /\ HasSlot(k)
  BY <1>0 DEF JobInv, WaitInv, Undelivered, HasSlot
<1>2. ~QueueFull
  BY <1>1, RoomToRequeue DEF TypeOK
<1>3. /\ sub' = [sub EXCEPT ![k] = "enqueued"]
      /\ PushBack(k) /\ mHoldingQueueDepth' = mHoldingQueueDepth
  BY <1>2 DEF SubmitHold, SubmitStep
<1>4. QueueOK' /\ Queued' = Queued \cup {k}
  BY <1>1, <1>3, PushBackAdds, BalancerAssumption
<1>5. TypeOK'
  BY <1>0, <1>3, <1>4 DEF TypeOK, QueueOK, SubPcs, gateVars, mapVars, drainVars,
                    cancelVars, agingVars, ownerVars
<1>6. \A j \in Jobs : InFlight(j)' <=> InFlight(j)
  BY <1>0, <1>3 DEF InFlight, TypeOK
<1>7. ThreadInv'
  BY <1>0 DEF ThreadInv, drainVars, cancelVars
<1>8. DtorInv' /\ SwitchInv'
  BY <1>0, <1>3, <1>6 DEF DtorInv, SwitchInv, PastGate, TypeOK, gateVars, drainVars,
                    agingVars, ownerVars
<1>9. JobInv'
  BY <1>0, <1>1, <1>3, <1>4 DEF TypeOK, JobInv, WaitInv, RegisterInv, EndInv, ResidueInv,
              Held, InHand, Removed, Undelivered, mapVars, drainVars, cancelVars, agingVars
<1>10. CountInv'
  BY <1>0, <1>6, CountSame DEF gateVars
<1>11. \A j \in Jobs : HasSlot(j)' <=> HasSlot(j)
  BY <1>0, <1>3, <1>4 DEF HasSlot, TypeOK, drainVars, cancelVars
<1>12. SlotInv'
  BY <1>3, <1>11, SlotSame
<1> QED
  BY <1>4, <1>5, <1>7, <1>8, <1>9, <1>10, <1>12

LEMMA SubmitDispatchKeeps ==
    ASSUME IInv, NEW k \in Jobs, SubmitDispatch(k)
    PROVE  IInv'
<1> USE DEF IInv
<1>0. /\ sub[k] = "selected" /\ sub' = [sub EXCEPT ![k] = "registering"]
      /\ task' = [task EXCEPT ![k] = "queued"]
      /\ reg' = [reg EXCEPT ![k] = "started"]
      /\ UNCHANGED <<queueVars, mHoldingQueueDepth, gateVars, late, mapVars, early, fin,
                     finalized, holdRetries, drainVars, cancelVars, agingVars, ownerVars>>
  BY DEF SubmitDispatch, SubmitStep
<1>1. QueueOK' /\ Queued' = Queued
  BY <1>0, QueueUntouched
<1>2. TypeOK'
  BY <1>0 DEF TypeOK, SubPcs, queueVars, gateVars, mapVars, drainVars, cancelVars,
              agingVars, ownerVars
<1>3. \A j \in Jobs : InFlight(j)' <=> InFlight(j)
  BY <1>0 DEF InFlight, TypeOK
<1>4. ThreadInv'
  BY <1>0 DEF ThreadInv, drainVars, cancelVars
<1>5. DtorInv' /\ SwitchInv'
  BY <1>0, <1>3 DEF DtorInv, SwitchInv, PastGate, TypeOK, gateVars, drainVars, agingVars,
                    ownerVars
<1>6. /\ task[k] = "none" /\ fin[k] = "none" /\ reg[k] = "none" /\ ~early[k]
      /\ k \notin Queued /\ drainJob # k /\ ~Removed(k)
  BY <1>0 DEF JobInv, WaitInv, RegisterInv, Undelivered
<1>7. \A c \in Cancellers : canJob[c] = k => canPc[c] \notin {"looked", "finishing"}
  BY <1>6 DEF JobInv, EndInv
<1>8. JobInv'
  BY <1>0, <1>1, <1>6, <1>7 DEF TypeOK, JobInv, WaitInv, RegisterInv, EndInv, ResidueInv,
              Held, InHand, Removed, Undelivered, mapVars, drainVars, cancelVars, agingVars
<1>9. CountInv'
  BY <1>0, <1>3, CountSame DEF gateVars
<1>10. SlotInv'
  BY <1>0, <1>1, SlotSame DEF HasSlot, TypeOK, drainVars, cancelVars
<1> QED
  BY <1>1, <1>2, <1>4, <1>5, <1>8, <1>9, <1>10

----------------------------------------------------------------------------
(* registerDispatchedJob.                                                  *)

LEMMA RegisterRouteKeeps ==
    ASSUME IInv, NEW k \in Jobs, RegisterRoute(k)
    PROVE  IInv'
<1> USE DEF IInv
<1>0. /\ reg[k] = "started" /\ reg' = [reg EXCEPT ![k] = "routed"]
      /\ mHandleToJobInfo' = mHandleToJobInfo \cup {k}
      /\ UNCHANGED <<queueVars, mHoldingQueueDepth, gateVars, late, sub, task, early,
                     holdRetries, drainVars, cancelVars, agingVars, ownerVars,
                     mTracked, fin, finalized>>
  BY DEF RegisterRoute, RegisterStep
<1>1. QueueOK' /\ Queued' = Queued
  BY <1>0, QueueUntouched
<1>2. TypeOK'
  BY <1>0 DEF TypeOK, queueVars, gateVars, drainVars, cancelVars, agingVars, ownerVars
<1>3. ThreadInv' /\ DtorInv' /\ SwitchInv'
  BY <1>0 DEF ThreadInv, DtorInv, SwitchInv, PastGate, InFlight, gateVars, drainVars,
              cancelVars, agingVars, ownerVars
<1>4. JobInv'
  BY <1>0, <1>1 DEF TypeOK, JobInv, WaitInv, RegisterInv, EndInv, ResidueInv, Held, InHand,
              Removed, drainVars, cancelVars, agingVars
<1>5. CountInv'
  BY <1>0, CountSame DEF InFlight, gateVars
<1>6. SlotInv'
  BY <1>0, <1>1, SlotSame DEF HasSlot, drainVars, cancelVars
<1> QED
  BY <1>1, <1>2, <1>3, <1>4, <1>5, <1>6

LEMMA RegisterTrackKeeps ==
    ASSUME IInv, NEW k \in Jobs, RegisterTrack(k)
    PROVE  IInv'
<1> USE DEF IInv
<1>0. /\ reg[k] = "routed" /\ reg' = [reg EXCEPT ![k] = "tracked"]
      /\ mTracked' \in {mTracked, mTracked \cup {k}}
      /\ UNCHANGED <<queueVars, mHoldingQueueDepth, gateVars, late, sub, task, early,
                     holdRetries, drainVars, cancelVars, agingVars, ownerVars,
                     mHandleToJobInfo, fin, finalized>>
  BY DEF RegisterTrack, RegisterStep
<1>1. QueueOK' /\ Queued' = Queued
  BY <1>0, QueueUntouched
<1>2. TypeOK'
  BY <1>0 DEF TypeOK, queueVars, gateVars, drainVars, cancelVars, agingVars, ownerVars
<1>3. ThreadInv' /\ DtorInv' /\ SwitchInv'
  BY <1>0 DEF ThreadInv, DtorInv, SwitchInv, PastGate, InFlight, gateVars, drainVars,
              cancelVars, agingVars, ownerVars
<1>4. JobInv'
  BY <1>0, <1>1 DEF TypeOK, JobInv, WaitInv, RegisterInv, EndInv, ResidueInv, Held, InHand,
              Removed, drainVars, cancelVars, agingVars
<1>5. CountInv'
  BY <1>0, CountSame DEF InFlight, gateVars
<1>6. SlotInv'
  BY <1>0, <1>1, SlotSame DEF HasSlot, drainVars, cancelVars
<1> QED
  BY <1>1, <1>2, <1>3, <1>4, <1>5, <1>6

LEMMA RegisterPublishKeeps ==
    ASSUME IInv, NEW k \in Jobs, RegisterPublish(k)
    PROVE  IInv'
<1> USE DEF IInv
<1>0. /\ reg[k] = "tracked" /\ reg' = [reg EXCEPT ![k] = "published"]
      /\ UNCHANGED <<queueVars, mHoldingQueueDepth, gateVars, late, sub, task, early,
                     holdRetries, drainVars, cancelVars, agingVars, ownerVars, mapVars>>
  BY DEF RegisterPublish, RegisterStep
<1>1. /\ early[k] => /\ fin' = [fin EXCEPT ![k] = "begun"]
                     /\ finalized' = [finalized EXCEPT ![k] = @ + 1]
      /\ ~early[k] => UNCHANGED <<fin, finalized>>
  BY DEF RegisterPublish, BeginFinalize
<1>2. early[k] => task[k] = "called" /\ fin[k] = "none"
  BY <1>0 DEF TypeOK, JobInv, RegisterInv, EndInv
<1>3. QueueOK' /\ Queued' = Queued
  BY <1>0, QueueUntouched
<1>4. TypeOK'
  BY <1>0, <1>1 DEF TypeOK, queueVars, gateVars, mapVars, drainVars, cancelVars, agingVars,
                    ownerVars
<1>5. \A j \in Jobs : InFlight(j)' <=> InFlight(j)
  BY <1>0, <1>1, <1>2 DEF InFlight, TypeOK
<1>6. ThreadInv' /\ DtorInv' /\ SwitchInv'
  BY <1>0, <1>5 DEF ThreadInv, DtorInv, SwitchInv, PastGate, gateVars, drainVars,
              cancelVars, agingVars, ownerVars
<1>7. JobInv'
  <2>1. CASE early[k]
    BY <1>0, <1>1, <1>2, <1>3, <2>1 DEF TypeOK, JobInv, WaitInv, RegisterInv, EndInv,
              ResidueInv, Held, InHand, Removed, mapVars, drainVars, cancelVars, agingVars
  <2>2. CASE ~early[k]
    BY <1>0, <1>1, <1>3, <2>2 DEF TypeOK, JobInv, WaitInv, RegisterInv, EndInv,
              ResidueInv, Held, InHand, Removed, mapVars, drainVars, cancelVars, agingVars
  <2> QED
    BY <2>1, <2>2
<1>8. CountInv'
  BY <1>0, <1>5, CountSame DEF gateVars
<1>9. SlotInv'
  BY <1>0, <1>3, SlotSame DEF HasSlot, drainVars, cancelVars
<1> QED
  BY <1>3, <1>4, <1>6, <1>7, <1>8, <1>9

----------------------------------------------------------------------------
(* The node and its callback.                                              *)

LEMMA NodeStartKeeps ==
    ASSUME IInv, NEW k \in Jobs, NodeStart(k)
    PROVE  IInv'
<1> USE DEF IInv
<1>0. /\ task[k] = "queued" /\ task' = [task EXCEPT ![k] = "running"]
      /\ UNCHANGED <<queueVars, mHoldingQueueDepth, gateVars, mapVars, late, sub, reg,
                     early, fin, finalized, holdRetries, drainVars, cancelVars,
                     agingVars, ownerVars>>
  BY DEF NodeStart, NodeStep
<1>1. QueueOK' /\ Queued' = Queued
  BY <1>0, QueueUntouched
<1>2. TypeOK'
  BY <1>0 DEF TypeOK, queueVars, gateVars, mapVars, drainVars, cancelVars, agingVars,
              ownerVars
<1>3. ThreadInv' /\ DtorInv' /\ SwitchInv'
  BY <1>0 DEF ThreadInv, DtorInv, SwitchInv, PastGate, InFlight, gateVars, drainVars,
              cancelVars, agingVars, ownerVars
<1>4. JobInv'
  BY <1>0, <1>1 DEF TypeOK, JobInv, WaitInv, RegisterInv, EndInv, ResidueInv, Held, InHand,
              Removed, mapVars, drainVars, cancelVars, agingVars
<1>5. CountInv'
  BY <1>0, CountSame DEF InFlight, gateVars
<1>6. SlotInv'
  BY <1>0, <1>1, SlotSame DEF HasSlot, drainVars, cancelVars
<1> QED
  BY <1>1, <1>2, <1>3, <1>4, <1>5, <1>6

LEMMA NodeCompleteKeeps ==
    ASSUME IInv, NEW k \in Jobs, NodeComplete(k)
    PROVE  IInv'
<1> USE DEF IInv
<1>0. /\ task[k] = "running" /\ task' = [task EXCEPT ![k] = "called"]
      /\ UNCHANGED <<queueVars, mHoldingQueueDepth, gateVars, mapVars, late, sub, reg,
                     holdRetries, drainVars, cancelVars, agingVars, ownerVars>>
  BY DEF NodeComplete, NodeStep
<1>1. /\ reg[k] = "published" => /\ fin' = [fin EXCEPT ![k] = "begun"]
                                 /\ finalized' = [finalized EXCEPT ![k] = @ + 1]
                                 /\ UNCHANGED early
      /\ reg[k] # "published" => /\ early' = [early EXCEPT ![k] = TRUE]
                                 /\ UNCHANGED <<fin, finalized>>
  BY DEF NodeComplete, BeginFinalize
<1>2. fin[k] = "none" /\ ~early[k]
  BY <1>0 DEF JobInv, EndInv
<1>3. QueueOK' /\ Queued' = Queued
  BY <1>0, QueueUntouched
<1>4. TypeOK'
  <2>1. /\ fin' \in [Jobs -> {"none", "begun", "untracked", "erased", "done"}]
        /\ finalized' \in [Jobs -> Nat]
    <3>1. CASE BeginFinalize(k)
      BY <3>1, BeginFinalizeTypes DEF TypeOK
    <3>2. CASE UNCHANGED <<fin, finalized>>
      BY <3>2 DEF TypeOK
    <3> QED
      BY <1>1, <3>1, <3>2 DEF BeginFinalize
  <2>4. early' \in [Jobs -> BOOLEAN]
    BY <1>1, Zenon DEF TypeOK
  <2>2. task' \in [Jobs -> {"none", "queued", "running", "called", "cancelled"}]
    BY <1>0 DEF TypeOK
  <2>3. UNCHANGED <<queueVars, mHoldingQueueDepth, gateVars, mapVars, late, sub, reg,
                    holdRetries, drainVars, cancelVars, agingVars, ownerVars>>
    BY <1>0
  <2> QED
    BY <2>1, <2>2, <2>3, <2>4 DEF TypeOK, queueVars, gateVars, mapVars, drainVars, cancelVars,
                      agingVars, ownerVars
<1>5. \A j \in Jobs : InFlight(j)' <=> InFlight(j)
  BY <1>0, <1>1, <1>2 DEF InFlight, TypeOK
<1>6. ThreadInv' /\ DtorInv' /\ SwitchInv'
  BY <1>0, <1>5 DEF ThreadInv, DtorInv, SwitchInv, PastGate, gateVars, drainVars,
              cancelVars, agingVars, ownerVars
<1>7. JobInv'
  BY <1>0, <1>1, <1>2, <1>3 DEF TypeOK, JobInv, WaitInv, RegisterInv, EndInv, ResidueInv,
              Held, InHand, Removed, mapVars, drainVars, cancelVars, agingVars
<1>8. CountInv'
  BY <1>0, <1>5, CountSame DEF gateVars
<1>9. SlotInv'
  BY <1>0, <1>3, SlotSame DEF HasSlot, drainVars, cancelVars
<1> QED
  BY <1>3, <1>4, <1>6, <1>7, <1>8, <1>9

----------------------------------------------------------------------------
(* The holding-drain thread.                                               *)

(* The steps that only move the thread on.                                 *)
LEMMA DrainMovesKeeps ==
    ASSUME IInv,
           \/ DrainWake \/ DrainStop \/ DrainSweepEnds \/ DrainSelect
           \/ DrainDropped \/ DrainRegistered
    PROVE  IInv'
<1> USE DEF IInv
<1>0. UNCHANGED <<queueVars, mHoldingQueueDepth, gateVars, late, mapVars, jobVars,
                  cancelVars, agingVars, ownerVars>>
  BY DEF DrainWake, DrainStop, DrainSweepEnds, DrainSelect, DrainDropped,
         DrainRegistered, DrainStep, jobVars
<1>1. \/ /\ drainPc \in {"wait", "sweep"} /\ drainPc' \in {"wait", "sweep"}
         /\ drainJob' = NoJob
      \/ drainPc = "wait" /\ drainPc' = "stopped" /\ drainJob' = NoJob
      \/ /\ drainPc = "hand" /\ drainPc' = "selected" /\ drainJob' = drainJob
         /\ ~MustDrop(drainJob)
      \/ drainPc \in {"finishing", "registering"} /\ drainPc' = "sweep" /\ drainJob' = NoJob
         /\ (drainPc = "registering" => reg[drainJob] = "published")
         /\ (drainPc = "finishing" => fin[drainJob] = "done")
  BY DEF DrainWake, DrainStop, DrainSweepEnds, DrainSelect, DrainDropped,
         DrainRegistered, DrainStep, Registered
<1>2. QueueOK' /\ Queued' = Queued
  BY <1>0, QueueUntouched
<1>3. TypeOK'
  <2>1. drainPc' \in DrainPcs /\ drainJob' \in Jobs \cup {NoJob}
    BY <1>1 DEF TypeOK, DrainPcs
  <2> QED
    BY <1>0, <2>1 DEF TypeOK, queueVars, gateVars, mapVars, jobVars, cancelVars,
                      agingVars, ownerVars
<1>4. ThreadInv'
  <2>1. (drainJob = NoJob <=> drainPc \in {"wait", "sweep", "stopped"})'
    BY <1>1 DEF ThreadInv
  <2>2. (MaxRetries > 0 /\ drainPc = "selected" => holdRetries[drainJob] < MaxRetries)'
    <3>1. SUFFICES ASSUME MaxRetries > 0, drainPc' = "selected"
                   PROVE  holdRetries[drainJob] < MaxRetries
      BY <1>0, <1>1 DEF jobVars
    <3>2. PICK k \in Jobs : k = drainJob
      BY <1>1, <3>1 DEF ThreadInv, TypeOK
    <3>3. ~MustDrop(k) /\ holdRetries[k] \in Nat
      BY <1>1, <3>1, <3>2, BalancerAssumption DEF TypeOK
    <3> QED
      BY <3>1, <3>2, <3>3, BalancerAssumption DEF MustDrop
  <2> QED
    BY <1>0, <2>1, <2>2 DEF ThreadInv, cancelVars
<1>5. DtorInv' /\ SwitchInv'
  BY <1>0, <1>1 DEF DtorInv, SwitchInv, PastGate, InFlight, gateVars, jobVars,
                    agingVars, ownerVars
<1>6. NoJob \notin Jobs
  BY BalancerAssumption
<1>7. JobInv'
  BY <1>0, <1>1, <1>2, <1>6 DEF TypeOK, ThreadInv, JobInv, WaitInv, RegisterInv, EndInv,
              ResidueInv, Held, InHand, Removed, mapVars, jobVars, cancelVars, agingVars
<1>8. CountInv'
  BY <1>0, CountSame DEF InFlight, gateVars, jobVars
<1>9. SlotInv'
  BY <1>0, <1>1, <1>2, <1>6, SlotSame DEF ThreadInv, HasSlot, jobVars, cancelVars
<1> QED
  BY <1>2, <1>3, <1>4, <1>5, <1>7, <1>8, <1>9

LEMMA DrainDequeueKeeps ==
    ASSUME IInv, DrainDequeue
    PROVE  IInv'
<1> USE DEF IInv
<1>0. /\ TryDequeue
      /\ drainPc = "sweep" /\ drainPc' = "hand" /\ drainJob' = NextEntry
      /\ UNCHANGED <<mHoldingQueueDepth, gateVars, late, mapVars, jobVars,
                     cancelVars, agingVars, ownerVars>>
  BY DEF DrainDequeue, DrainStep, jobVars
<1>1. NextEntry \in Queued /\ QueueOK' /\ Queued' = Queued \ {NextEntry}
  BY <1>0, TryDequeueTakes, BalancerAssumption
<1>2. PICK k \in Jobs : k = NextEntry
  BY <1>1, QueuedJobs, BalancerAssumption
<1>3. TypeOK'
  BY <1>0, <1>1, <1>2 DEF TypeOK, QueueOK, DrainPcs, gateVars, mapVars, jobVars,
                    cancelVars, agingVars, ownerVars
<1>4. k \in Queued /\ Queued' = Queued \ {k} /\ drainJob' = k /\ drainJob = NoJob /\ k # NoJob
  BY <1>0, <1>1, <1>2, BalancerAssumption DEF ThreadInv
<1>5. ThreadInv'
  BY <1>0, <1>4 DEF ThreadInv, TypeOK, cancelVars, jobVars
<1>6. DtorInv' /\ SwitchInv'
  BY <1>0 DEF DtorInv, SwitchInv, PastGate, InFlight, gateVars, jobVars,
                    agingVars, ownerVars
<1>7. JobInv'
  BY <1>0, <1>4 DEF TypeOK, ThreadInv, JobInv, WaitInv, RegisterInv, EndInv,
              ResidueInv, Held, InHand, Removed, mapVars, jobVars, cancelVars, agingVars
<1>8. CountInv'
  BY <1>0, CountSame DEF InFlight, gateVars, jobVars
<1>9. SlotInv'
  BY <1>0, <1>4, SlotSame DEF ThreadInv, HasSlot, jobVars, cancelVars
<1> QED
  BY <1>1, <1>3, <1>5, <1>6, <1>7, <1>8, <1>9

LEMMA DrainDropKeeps ==
    ASSUME IInv, DrainDrop
    PROVE  IInv'
<1> USE DEF IInv
<1>0. /\ drainPc = "hand" /\ drainPc' = "finishing" /\ drainJob' = drainJob
      /\ ReleaseSlot
      /\ fin' = [fin EXCEPT ![drainJob] = "begun"]
      /\ finalized' = [finalized EXCEPT ![drainJob] = @ + 1]
      /\ UNCHANGED <<queueVars, gateVars, late, mapVars, sub, task, reg, early,
                     holdRetries, cancelVars, agingVars, ownerVars>>
  BY DEF DrainDrop, DrainStep, BeginFinalize
<1>1. PICK k \in Jobs : k = drainJob
  BY <1>0 DEF TypeOK, ThreadInv
<1>2. Held(k) /\ task[k] = "none" /\ fin[k] = "none" /\ ~Removed(k) /\ k \notin Queued
  BY <1>0, <1>1 DEF JobInv, WaitInv, InHand
<1>3. QueueOK' /\ Queued' = Queued
  BY <1>0, QueueUntouched
<1>4. HasSlot(k) /\ \A j \in Jobs : HasSlot(j)' <=> (HasSlot(j) /\ j # k)
  BY <1>0, <1>1, <1>2, <1>3 DEF HasSlot, Held, Removed, TypeOK, cancelVars
<1>5. SlotInv' /\ mHoldingQueueDepth' \in 0 .. Capacity
  BY <1>0, <1>4, SlotDown DEF TypeOK
<1>6. TypeOK'
  BY <1>0, <1>1, <1>5 DEF TypeOK, DrainPcs, queueVars, gateVars, mapVars, cancelVars,
                    agingVars, ownerVars
<1>7. \A j \in Jobs : InFlight(j)' <=> InFlight(j)
  BY <1>0, <1>1, <1>2 DEF InFlight, TypeOK
<1>8. ThreadInv'
  BY <1>0, <1>1 DEF ThreadInv, TypeOK, cancelVars
<1>9. DtorInv' /\ SwitchInv'
  BY <1>0, <1>7 DEF DtorInv, SwitchInv, PastGate, gateVars, agingVars, ownerVars
<1>10. JobInv'
  BY <1>0, <1>1, <1>2, <1>3 DEF TypeOK, JobInv, WaitInv, RegisterInv, EndInv,
              ResidueInv, Held, InHand, Removed, mapVars, cancelVars, agingVars
<1>11. CountInv'
  BY <1>0, <1>7, CountSame DEF gateVars
<1> QED
  BY <1>3, <1>5, <1>6, <1>8, <1>9, <1>10, <1>11

(* The entry goes back: the cluster is saturated, no node is selected, or  *)
(* the node refuses.                                                       *)
LEMMA DrainRequeueKeeps ==
    ASSUME IInv, DrainSaturated \/ DrainSelectFails \/ DrainNodeRefuses
    PROVE  IInv'
<1> USE DEF IInv
<1>0. /\ drainPc \in {"hand", "selected"} /\ drainPc' = "wait" /\ drainJob' = NoJob
      /\ Requeue(drainJob)
      /\ UNCHANGED <<mHoldingQueueDepth, gateVars, late, mapVars, sub, task, reg, early,
                     fin, finalized, cancelVars, agingVars, ownerVars>>
  BY DEF DrainSaturated, DrainSelectFails, DrainNodeRefuses, DrainStep
<1>1. PICK k \in Jobs : k = drainJob
  BY <1>0 DEF TypeOK, ThreadInv
<1>2. /\ Held(k) /\ task[k] = "none" /\ fin[k] = "none" /\ ~Removed(k) /\ k \notin Queued
      /\ HasSlot(k)
  BY <1>0, <1>1 DEF JobInv, WaitInv, InHand, HasSlot
<1>3. PushBack(k)
  BY <1>0, <1>1, <1>2, RoomToRequeue DEF Requeue, TypeOK
<1>4. QueueOK' /\ Queued' = Queued \cup {k}
  BY <1>2, <1>3, PushBackAdds, BalancerAssumption
<1>5. holdRetries' \in [Jobs -> 0 .. MaxRetries]
  <2>1. CASE DrainSaturated
    BY <2>1 DEF DrainSaturated, TypeOK
  <2>2. CASE DrainSelectFails \/ DrainNodeRefuses
    <3>1. MaxRetries > 0 => holdRetries[k] < MaxRetries
      BY <1>1, <2>2, BalancerAssumption DEF DrainSelectFails, DrainNodeRefuses, DrainStep,
                        MustDrop, ThreadInv, TypeOK
    <3>2. holdRetries' = [holdRetries EXCEPT ![k] = IF MaxRetries = 0 THEN 0 ELSE @ + 1]
      BY <1>1, <2>2 DEF DrainSelectFails, DrainNodeRefuses, CountRetry
    <3> QED
      BY <3>1, <3>2, BalancerAssumption DEF TypeOK
  <2> QED
    BY <2>1, <2>2
<1>6. TypeOK'
  <2>1. drainPc' \in DrainPcs /\ drainJob' \in Jobs \cup {NoJob}
    BY <1>0 DEF DrainPcs
  <2>2. mCritical' \in Seq(Jobs) /\ mHigh' \in Seq(Jobs)
    BY <1>4 DEF QueueOK
  <2>3. /\ UNCHANGED <<mHoldingQueueDepth, mSubmittedCount, mDraining, mPolicy,
                       mHandleToJobInfo, mTracked, mAgingEnabled, late>>
        /\ UNCHANGED <<sub, task, reg, early, fin, finalized, canPc, canJob, agingPc,
                       expired, switchPc, dtorPc>>
    BY <1>0 DEF gateVars, mapVars, cancelVars, agingVars, ownerVars
  <2> QED
    BY <1>5, <2>1, <2>2, <2>3 DEF TypeOK
<1>7. ThreadInv'
  BY <1>0 DEF ThreadInv, cancelVars
<1>8. DtorInv' /\ SwitchInv'
  BY <1>0 DEF DtorInv, SwitchInv, PastGate, InFlight, gateVars, agingVars, ownerVars
<1>9. NoJob \notin Jobs
  BY BalancerAssumption
<1>10. JobInv'
  BY <1>0, <1>1, <1>2, <1>4, <1>9 DEF TypeOK, JobInv, WaitInv, RegisterInv, EndInv,
              ResidueInv, Held, InHand, Removed, mapVars, cancelVars, agingVars
<1>11. CountInv'
  BY <1>0, CountSame DEF InFlight, gateVars
<1>12. SlotInv'
  BY <1>0, <1>1, <1>4, <1>9, SlotSame DEF HasSlot, cancelVars
<1> QED
  BY <1>4, <1>6, <1>7, <1>8, <1>10, <1>11, <1>12

LEMMA DrainDispatchKeeps ==
    ASSUME IInv, DrainDispatch
    PROVE  IInv'
<1> USE DEF IInv
<1>0. /\ drainPc = "selected" /\ drainPc' = "release" /\ drainJob' = drainJob
      /\ task' = [task EXCEPT ![drainJob] = "queued"]
      /\ UNCHANGED <<queueVars, mHoldingQueueDepth, gateVars, late, mapVars, sub, reg,
                     early, fin, finalized, holdRetries, cancelVars, agingVars, ownerVars>>
  BY DEF DrainDispatch, DrainStep
<1>1. PICK k \in Jobs : k = drainJob
  BY <1>0 DEF TypeOK, ThreadInv
<1>2. /\ Held(k) /\ task[k] = "none" /\ fin[k] = "none" /\ reg[k] = "none" /\ ~early[k]
      /\ ~Removed(k) /\ k \notin Queued
  BY <1>0, <1>1 DEF JobInv, WaitInv, RegisterInv, InHand
<1>3. QueueOK' /\ Queued' = Queued
  BY <1>0, QueueUntouched
<1>4. TypeOK'
  BY <1>0, <1>1 DEF TypeOK, DrainPcs, queueVars, gateVars, mapVars, cancelVars,
                    agingVars, ownerVars
<1>5. ThreadInv'
  BY <1>0, <1>1 DEF ThreadInv, TypeOK, cancelVars
<1>6. DtorInv' /\ SwitchInv'
  BY <1>0 DEF DtorInv, SwitchInv, PastGate, InFlight, gateVars, agingVars, ownerVars
<1>7. JobInv'
  BY <1>0, <1>1, <1>2, <1>3 DEF TypeOK, JobInv, WaitInv, RegisterInv, EndInv,
              ResidueInv, Held, InHand, Removed, mapVars, cancelVars, agingVars
<1>8. CountInv'
  BY <1>0, CountSame DEF InFlight, gateVars
<1>9. SlotInv'
  BY <1>0, <1>3, SlotSame DEF HasSlot, cancelVars
<1> QED
  BY <1>3, <1>4, <1>5, <1>6, <1>7, <1>8, <1>9

LEMMA DrainReleaseKeeps ==
    ASSUME IInv, DrainRelease
    PROVE  IInv'
<1> USE DEF IInv
<1>0. /\ drainPc = "release" /\ drainPc' = "registering" /\ drainJob' = drainJob
      /\ ReleaseSlot
      /\ reg' = [reg EXCEPT ![drainJob] = "started"]
      /\ UNCHANGED <<queueVars, gateVars, late, mapVars, sub, task, early, fin, finalized,
                     holdRetries, cancelVars, agingVars, ownerVars>>
  BY DEF DrainRelease, DrainStep
<1>1. PICK k \in Jobs : k = drainJob
  BY <1>0 DEF TypeOK, ThreadInv
<1>2. Held(k) /\ task[k] # "none" /\ reg[k] = "none" /\ k \notin Queued /\ ~Removed(k)
  BY <1>0, <1>1 DEF JobInv, WaitInv, RegisterInv
<1>3. fin[k] = "none"
  BY <1>2 DEF JobInv, EndInv, TypeOK
<1>4. QueueOK' /\ Queued' = Queued
  BY <1>0, QueueUntouched
<1>5. HasSlot(k) /\ \A j \in Jobs : HasSlot(j)' <=> (HasSlot(j) /\ j # k)
  BY <1>0, <1>1, <1>2, <1>4 DEF HasSlot, Held, Removed, TypeOK, cancelVars
<1>6. SlotInv' /\ mHoldingQueueDepth' \in 0 .. Capacity
  BY <1>0, <1>5, SlotDown DEF TypeOK
<1>7. TypeOK'
  BY <1>0, <1>1, <1>6 DEF TypeOK, DrainPcs, queueVars, gateVars, mapVars, cancelVars,
                    agingVars, ownerVars
<1>8. ThreadInv'
  BY <1>0, <1>1 DEF ThreadInv, TypeOK, cancelVars
<1>9. DtorInv' /\ SwitchInv'
  BY <1>0 DEF DtorInv, SwitchInv, PastGate, InFlight, gateVars, agingVars, ownerVars
<1>10. JobInv'
  BY <1>0, <1>1, <1>2, <1>3, <1>4 DEF TypeOK, JobInv, WaitInv, RegisterInv, EndInv,
              ResidueInv, Held, InHand, Removed, mapVars, cancelVars, agingVars
<1>11. CountInv'
  BY <1>0, CountSame DEF InFlight, gateVars
<1> QED
  BY <1>4, <1>6, <1>7, <1>8, <1>9, <1>10, <1>11

----------------------------------------------------------------------------
(* cancel().                                                               *)

LEMMA CancelHeldKeeps ==
    ASSUME IInv, NEW k \in Jobs, CancelHeld(k)
    PROVE  IInv'
<1> USE DEF IInv
<1>0. /\ RemoveHeld(k)
      /\ canPc["user"] = "idle"
      /\ canPc' = [canPc EXCEPT !["user"] = "removed"]
      /\ canJob' = [canJob EXCEPT !["user"] = k]
      /\ UNCHANGED <<mHoldingQueueDepth, gateVars, late, mapVars, jobVars, drainVars,
                     agingVars, ownerVars>>
  BY DEF CancelHeld, CancelStep, jobVars, agingVars
<1>1. k \in Queued /\ QueueOK' /\ Queued' = Queued \ {k}
  BY <1>0, RemoveHeldRemoves, BalancerAssumption
<1>2. NoJob \notin Jobs
  BY BalancerAssumption
<1>3. canJob["user"] = NoJob
  BY <1>0 DEF ThreadInv, Cancellers
<1>4. TypeOK'
  <2>1. /\ canPc' \in [Cancellers ->
                         {"idle", "removed", "notFound", "looked", "finishing"}]
        /\ canJob' \in [Cancellers -> Jobs \cup {NoJob}]
    BY <1>0 DEF TypeOK
  <2>2. mCritical' \in Seq(Jobs) /\ mHigh' \in Seq(Jobs)
    BY <1>1 DEF QueueOK
  <2>3. /\ UNCHANGED <<mHoldingQueueDepth, mSubmittedCount, mDraining, mPolicy,
                       mHandleToJobInfo, mTracked, mAgingEnabled, late>>
        /\ UNCHANGED <<sub, task, reg, early, fin, finalized, holdRetries, drainPc,
                       drainJob, agingPc, expired, switchPc, dtorPc>>
    BY <1>0 DEF gateVars, mapVars, jobVars, drainVars, agingVars, ownerVars
  <2> QED
    BY <2>1, <2>2, <2>3 DEF TypeOK
<1>5. ThreadInv'
  BY <1>0, <1>2 DEF ThreadInv, TypeOK, Cancellers, jobVars, drainVars
<1>6. DtorInv' /\ SwitchInv'
  BY <1>0 DEF DtorInv, SwitchInv, PastGate, InFlight, gateVars, jobVars, drainVars,
              agingVars, ownerVars
<1>7. JobInv'
  BY <1>0, <1>1, <1>2, <1>3 DEF TypeOK, JobInv, WaitInv, RegisterInv, EndInv, ResidueInv,
              Held, InHand, Removed, Cancellers, Undelivered, mapVars, jobVars, drainVars,
              agingVars
<1>8. CountInv'
  BY <1>0, CountSame DEF InFlight, gateVars, jobVars
<1>9. SlotInv'
  BY <1>0, <1>1, <1>2, <1>3, SlotSame DEF HasSlot, TypeOK, Cancellers, jobVars, drainVars
<1> QED
  BY <1>1, <1>4, <1>5, <1>6, <1>7, <1>8, <1>9

(* The steps of cancel() that only move the thread on.                     *)
LEMMA CancelMovesKeeps ==
    ASSUME IInv, NEW c \in Cancellers, NEW to \in {"idle", "notFound", "looked"},
           NEW k \in Jobs \cup {NoJob},
           canPc' = [canPc EXCEPT ![c] = to], canJob' = [canJob EXCEPT ![c] = k],
           canPc[c] # "removed",
           k = NoJob <=> to = "idle",
           to = "looked" => reg[k] \in {"tracked", "published"},
           c = "aging" => to # "notFound",
           expired' \subseteq expired,
           UNCHANGED <<queueVars, mHoldingQueueDepth, gateVars, late, mapVars, jobVars,
                       drainVars, mAgingEnabled, agingPc, ownerVars>>
    PROVE  IInv'
<1> USE DEF IInv
<1>1. QueueOK' /\ Queued' = Queued
  BY QueueUntouched
<1>2. NoJob \notin Jobs
  BY BalancerAssumption
<1>3. TypeOK'
  BY DEF TypeOK, queueVars, gateVars, mapVars, jobVars, drainVars, ownerVars
<1>4. ThreadInv'
  BY DEF ThreadInv, TypeOK, Cancellers, jobVars, drainVars
<1>5. DtorInv' /\ SwitchInv'
  BY DEF DtorInv, SwitchInv, PastGate, InFlight, gateVars, jobVars, drainVars, ownerVars
<1>6. \A j \in Jobs : Removed(j)' <=> Removed(j)
  BY DEF Removed, TypeOK, Cancellers
<1>7. JobInv'
  <2>1. \A j \in Jobs : WaitInv(j)' /\ RegisterInv(j)' /\ ResidueInv(j)'
    BY <1>1, <1>6 DEF JobInv, WaitInv, RegisterInv, ResidueInv, Held, InHand, mapVars,
                      jobVars, drainVars
  <2>2. \A j \in Jobs : EndInv(j)'
    BY <1>2 DEF JobInv, EndInv, TypeOK, jobVars
  <2> QED
    BY <2>1, <2>2 DEF JobInv
<1>8. CountInv'
  BY CountSame DEF InFlight, gateVars, jobVars
<1>9. SlotInv'
  BY <1>1, <1>6, SlotSame DEF HasSlot, Removed, jobVars, drainVars
<1> QED
  BY <1>1, <1>3, <1>4, <1>5, <1>7, <1>8, <1>9

LEMMA CancelHeldNotFoundKeeps ==
    ASSUME IInv, NEW k \in Jobs, CancelHeldNotFound(k)
    PROVE  IInv'
<1>1. /\ canPc["user"] = "idle" /\ k # NoJob
      /\ canPc' = [canPc EXCEPT !["user"] = "notFound"]
      /\ canJob' = [canJob EXCEPT !["user"] = k]
      /\ UNCHANGED <<queueVars, mHoldingQueueDepth, gateVars, late, mapVars, jobVars,
                     drainVars, agingVars, ownerVars>>
  BY BalancerAssumption DEF CancelHeldNotFound, CancelStep, jobVars, agingVars
<1> QED
  BY <1>1, CancelMovesKeeps DEF Cancellers, agingVars

LEMMA CancelReturnsNotFoundKeeps ==
    ASSUME IInv, CancelReturnsNotFound
    PROVE  IInv'
<1>1. /\ canPc["user"] = "notFound"
      /\ canPc' = [canPc EXCEPT !["user"] = "idle"]
      /\ canJob' = [canJob EXCEPT !["user"] = NoJob]
      /\ UNCHANGED <<queueVars, mHoldingQueueDepth, gateVars, late, mapVars, jobVars,
                     drainVars, agingVars, ownerVars>>
  BY DEF CancelReturnsNotFound, CancelStep, jobVars, agingVars
<1> QED
  BY <1>1, CancelMovesKeeps DEF Cancellers, agingVars

LEMMA CancelLookupKeeps ==
    ASSUME IInv, NEW k \in Jobs, CancelLookup(k)
    PROVE  IInv'
<1>1. /\ canPc["user"] = "idle" /\ k # NoJob
      /\ canPc' = [canPc EXCEPT !["user"] = "looked"]
      /\ canJob' = [canJob EXCEPT !["user"] = k]
      /\ UNCHANGED <<queueVars, mHoldingQueueDepth, gateVars, late, mapVars, jobVars,
                     drainVars, agingVars, ownerVars>>
  BY BalancerAssumption DEF CancelLookup, CancelStep, jobVars, agingVars
<1>2. reg[k] = "published"
  BY DEF CancelLookup, CancelStep, IInv, JobInv, RegisterInv
<1> QED
  BY <1>1, <1>2, CancelMovesKeeps DEF Cancellers, agingVars

LEMMA CancelFinishedKeeps ==
    ASSUME IInv, NEW c \in Cancellers, CancelFinished(c)
    PROVE  IInv'
<1>1. /\ canPc[c] = "finishing"
      /\ canPc' = [canPc EXCEPT ![c] = "idle"]
      /\ canJob' = [canJob EXCEPT ![c] = NoJob]
      /\ UNCHANGED <<queueVars, mHoldingQueueDepth, gateVars, late, mapVars, jobVars,
                     drainVars, agingVars, ownerVars>>
  BY DEF CancelFinished, CancelStep, jobVars, agingVars
<1> QED
  BY <1>1, CancelMovesKeeps DEF agingVars

LEMMA CancelReleaseKeeps ==
    ASSUME IInv, CancelRelease
    PROVE  IInv'
<1> USE DEF IInv
<1>0. /\ canPc["user"] = "removed"
      /\ canPc' = [canPc EXCEPT !["user"] = "finishing"]
      /\ canJob' = [canJob EXCEPT !["user"] = canJob["user"]]
      /\ ReleaseSlot
      /\ BeginFinalize(canJob["user"])
      /\ UNCHANGED <<queueVars, gateVars, late, mapVars, sub, task, reg, early,
                     holdRetries, drainVars, agingVars, ownerVars>>
  BY DEF CancelRelease, CancelStep, agingVars
<1>1. PICK k \in Jobs : k = canJob["user"]
  BY <1>0 DEF TypeOK, ThreadInv, Cancellers
<1>2. /\ fin' = [fin EXCEPT ![k] = "begun"]
      /\ finalized' = [finalized EXCEPT ![k] = @ + 1]
      /\ UNCHANGED canJob
  BY <1>0, <1>1 DEF BeginFinalize, TypeOK
<1>3. Removed(k) /\ Held(k) /\ task[k] = "none" /\ fin[k] = "none" /\ k \notin Queued
      /\ ~InHand(k) /\ reg[k] = "none" /\ ~early[k]
  BY <1>0, <1>1 DEF Removed, JobInv, WaitInv, RegisterInv
<1>4. drainJob = k => drainPc \notin {"hand", "selected", "release"}
  BY <1>3 DEF InHand, JobInv, RegisterInv
<1>5. QueueOK' /\ Queued' = Queued
  BY <1>0, QueueUntouched
<1>6. HasSlot(k) /\ \A j \in Jobs : HasSlot(j)' <=> (HasSlot(j) /\ j # k)
  BY <1>0, <1>1, <1>2, <1>3, <1>4, <1>5 DEF HasSlot, Held, Removed, TypeOK, Cancellers,
              drainVars
<1>7. SlotInv' /\ mHoldingQueueDepth' \in 0 .. Capacity
  BY <1>0, <1>6, SlotDown DEF TypeOK
<1>8. TypeOK'
  <2>1. /\ fin' \in [Jobs -> {"none", "begun", "untracked", "erased", "done"}]
        /\ finalized' \in [Jobs -> Nat]
    BY <1>0, <1>1, BeginFinalizeTypes DEF TypeOK
  <2>2. /\ canPc' \in [Cancellers ->
                         {"idle", "removed", "notFound", "looked", "finishing"}]
        /\ canJob' \in [Cancellers -> Jobs \cup {NoJob}]
    BY <1>0, <1>2 DEF TypeOK
  <2>3. /\ UNCHANGED <<mCritical, mHigh, mSubmittedCount, mDraining, mPolicy,
                       mHandleToJobInfo, mTracked, mAgingEnabled, late>>
        /\ UNCHANGED <<sub, task, reg, early, holdRetries, drainPc, drainJob,
                       agingPc, expired, switchPc, dtorPc>>
    BY <1>0 DEF queueVars, gateVars, mapVars, drainVars, agingVars, ownerVars
  <2> QED
    BY <1>7, <2>1, <2>2, <2>3 DEF TypeOK
<1>9. \A j \in Jobs : InFlight(j)' <=> InFlight(j)
  BY <1>0, <1>2, <1>3 DEF InFlight, TypeOK
<1>10. ThreadInv'
  BY <1>0, <1>2 DEF ThreadInv, TypeOK, Cancellers, drainVars
<1>11. DtorInv' /\ SwitchInv'
  BY <1>0, <1>9 DEF DtorInv, SwitchInv, PastGate, gateVars, drainVars, agingVars, ownerVars
<1>12. JobInv'
  <2>1. \A j \in Jobs : Removed(j)' <=> (Removed(j) /\ j # k)
    BY <1>0, <1>1, <1>2 DEF Removed, TypeOK, Cancellers
  <2>2. \A j \in Jobs : WaitInv(j)' /\ RegisterInv(j)' /\ ResidueInv(j)'
    BY <1>0, <1>2, <1>3, <1>5, <2>1 DEF TypeOK, JobInv, WaitInv, RegisterInv, ResidueInv,
              Held, InHand, Undelivered, mapVars, drainVars, agingVars
  <2>3. \A j \in Jobs : EndInv(j)'
    BY <1>0, <1>1, <1>2, <1>3 DEF TypeOK, JobInv, EndInv, Cancellers
  <2> QED
    BY <2>2, <2>3 DEF JobInv
<1>13. CountInv'
  BY <1>0, <1>9, CountSame DEF gateVars
<1> QED
  BY <1>5, <1>7, <1>8, <1>10, <1>11, <1>12, <1>13

LEMMA CancelAtNodeKeeps ==
    ASSUME IInv, NEW c \in Cancellers, CancelAtNode(c)
    PROVE  IInv'
<1>1. PICK k \in Jobs : k = canJob[c]
  BY DEF CancelAtNode, IInv, TypeOK, ThreadInv
<1>2. canPc[c] = "looked"
  BY DEF CancelAtNode
<1>3. CASE task[k] # "queued"
  <2>1. /\ canPc' = [canPc EXCEPT ![c] = "idle"]
        /\ canJob' = [canJob EXCEPT ![c] = NoJob]
        /\ UNCHANGED <<queueVars, mHoldingQueueDepth, gateVars, late, mapVars, jobVars,
                       drainVars, agingVars, ownerVars>>
    BY <1>1, <1>3 DEF CancelAtNode, CancelStep, jobVars, agingVars
  <2> QED
    BY <1>2, <2>1, CancelMovesKeeps DEF agingVars
<1>4. CASE task[k] = "queued"
  <2> USE DEF IInv
  <2>0. /\ canPc' = [canPc EXCEPT ![c] = "finishing"]
        /\ canJob' = [canJob EXCEPT ![c] = canJob[c]]
        /\ task' = [task EXCEPT ![k] = "cancelled"]
        /\ BeginFinalize(k)
        /\ UNCHANGED <<queueVars, mHoldingQueueDepth, gateVars, late, mapVars, sub, reg,
                       early, holdRetries, drainVars, agingVars, ownerVars>>
    BY <1>1, <1>4 DEF CancelAtNode, CancelStep, agingVars
  <2>1. /\ fin' = [fin EXCEPT ![k] = "begun"]
        /\ finalized' = [finalized EXCEPT ![k] = @ + 1]
        /\ UNCHANGED canJob
    BY <2>0 DEF BeginFinalize, TypeOK
  <2>2. fin[k] = "none" /\ ~early[k] /\ reg[k] \in {"tracked", "published"}
    BY <1>1, <1>2, <1>4 DEF JobInv, EndInv
  <2>3. QueueOK' /\ Queued' = Queued
    BY <2>0, QueueUntouched
  <2>4. TypeOK'
    <3>1. /\ fin' \in [Jobs -> {"none", "begun", "untracked", "erased", "done"}]
          /\ finalized' \in [Jobs -> Nat]
      BY <2>0, BeginFinalizeTypes DEF TypeOK
    <3> QED
      BY <2>0, <2>1, <3>1 DEF TypeOK, queueVars, gateVars, mapVars, drainVars,
                      agingVars, ownerVars
  <2>5. \A j \in Jobs : InFlight(j)' <=> InFlight(j)
    BY <2>0, <2>1, <2>2 DEF InFlight, TypeOK
  <2>6. ThreadInv'
    BY <1>1, <1>2, <2>0, <2>1 DEF ThreadInv, TypeOK, Cancellers, drainVars
  <2>7. DtorInv' /\ SwitchInv'
    BY <2>0, <2>5 DEF DtorInv, SwitchInv, PastGate, gateVars, drainVars, agingVars, ownerVars
  <2>8. \A j \in Jobs : Removed(j)' <=> Removed(j)
    BY <1>2, <2>0, <2>1 DEF Removed, TypeOK, Cancellers
  <2>9. JobInv'
    <3>1. \A j \in Jobs : WaitInv(j)' /\ RegisterInv(j)' /\ ResidueInv(j)'
      BY <1>4, <2>0, <2>1, <2>2, <2>3, <2>8 DEF TypeOK, JobInv, WaitInv, RegisterInv,
                ResidueInv, Held, InHand, Undelivered, mapVars, drainVars, agingVars
    <3>2. \A j \in Jobs : EndInv(j)'
      BY <1>1, <1>2, <1>4, <2>0, <2>1, <2>2 DEF TypeOK, JobInv, EndInv
    <3> QED
      BY <3>1, <3>2 DEF JobInv
  <2>10. CountInv'
    BY <2>0, <2>5, CountSame DEF gateVars
  <2>11. SlotInv'
    BY <2>0, <2>3, <2>8, SlotSame DEF HasSlot, Removed, drainVars
  <2> QED
    BY <2>3, <2>4, <2>6, <2>7, <2>9, <2>10, <2>11
<1> QED
  BY <1>3, <1>4

----------------------------------------------------------------------------
(* The aging thread.                                                       *)

LEMMA AgingMovesKeeps ==
    ASSUME IInv, AgingEnable \/ AgingDisable \/ AgingStops \/ AgingTick \/ AgingDelivered
    PROVE  IInv'
<1> USE DEF IInv
<1>0. UNCHANGED <<queueVars, mHoldingQueueDepth, gateVars, mHandleToJobInfo, late, jobVars,
                  drainVars, cancelVars, ownerVars>>
  BY DEF AgingEnable, AgingDisable, AgingStops, AgingTick, AgingDelivered, AgingStep
<1>1. /\ mTracked' \subseteq mTracked
      /\ expired' \subseteq mTracked \cup expired
      /\ agingPc' \in {"off", "sleep", "deliver"}
      /\ mAgingEnabled' \in BOOLEAN
  BY DEF AgingEnable, AgingDisable, AgingStops, AgingTick, AgingDelivered, AgingStep, TypeOK
<1>2. dtorPc # "alive" => mAgingEnabled' = mAgingEnabled /\ (agingPc' = agingPc \/ agingPc' = "off"
                             \/ agingPc # "off")
  BY DEF AgingEnable, AgingDisable, AgingStops, AgingTick, AgingDelivered, AgingStep, Alive
<1>3. QueueOK' /\ Queued' = Queued
  BY <1>0, QueueUntouched
<1>4. TypeOK'
  BY <1>0, <1>1 DEF TypeOK, queueVars, gateVars, jobVars, drainVars, cancelVars, ownerVars
<1>5. ThreadInv' /\ SwitchInv'
  BY <1>0 DEF ThreadInv, SwitchInv, PastGate, InFlight, gateVars, jobVars, drainVars,
              cancelVars, ownerVars
<1>6. DtorInv'
  BY <1>0, <1>2 DEF DtorInv, InFlight, TypeOK, gateVars, jobVars, drainVars, ownerVars
<1>7. JobInv'
  BY <1>0, <1>1, <1>3 DEF JobInv, WaitInv, RegisterInv, EndInv, ResidueInv, Held, InHand,
              Removed, jobVars, drainVars, cancelVars
<1>8. CountInv'
  BY <1>0, CountSame DEF InFlight, gateVars, jobVars
<1>9. SlotInv'
  BY <1>0, <1>3, SlotSame DEF HasSlot, jobVars, drainVars, cancelVars
<1> QED
  BY <1>3, <1>4, <1>5, <1>6, <1>7, <1>8, <1>9

LEMMA AgingExpireKeeps ==
    ASSUME IInv, NEW k \in Jobs, AgingExpire(k)
    PROVE  IInv'
<1>1. /\ canPc["aging"] = "idle" /\ k # NoJob
      /\ expired' \subseteq expired
      /\ UNCHANGED <<queueVars, mHoldingQueueDepth, gateVars, late, mapVars, jobVars,
                     drainVars, mAgingEnabled, agingPc, ownerVars>>
  BY BalancerAssumption DEF AgingExpire, CancelStep, jobVars
<1>2. reg[k] \in {"tracked", "published"}
  BY DEF AgingExpire, IInv, JobInv, ResidueInv
<1>3. CASE k \in mHandleToJobInfo
  <2>1. /\ canPc' = [canPc EXCEPT !["aging"] = "looked"]
        /\ canJob' = [canJob EXCEPT !["aging"] = k]
    BY <1>3 DEF AgingExpire, CancelStep
  <2> QED
    BY <1>1, <1>2, <2>1, CancelMovesKeeps DEF Cancellers
<1>4. CASE k \notin mHandleToJobInfo
  <2>1. /\ canPc' = [canPc EXCEPT !["aging"] = "idle"]
        /\ canJob' = [canJob EXCEPT !["aging"] = NoJob]
    BY <1>4 DEF AgingExpire, CancelStep
  <2> QED
    BY <1>1, <2>1, CancelMovesKeeps DEF Cancellers
<1> QED
  BY <1>3, <1>4

----------------------------------------------------------------------------
(* switchPolicy() and the destructor.                                      *)

(* A zero count is proof that nothing is in flight.                        *)
LEMMA ZeroMeansNone ==
    ASSUME CountInv, mSubmittedCount = 0
    PROVE  \A j \in Jobs : ~InFlight(j)
<1>1. FlightJobs = {}
  BY CountsFinite, FS_EmptySet DEF CountInv
<1> QED
  BY <1>1 DEF FlightJobs

LEMMA SwitchKeeps ==
    ASSUME IInv, SwitchCall \/ SwitchSeesZero \/ SwitchSwap \/ SwitchResume
    PROVE  IInv'
<1> USE DEF IInv
<1>0. UNCHANGED <<queueVars, mHoldingQueueDepth, mSubmittedCount, mapVars, late, jobVars,
                  drainVars, cancelVars, agingVars, dtorPc>>
  BY DEF SwitchCall, SwitchSeesZero, SwitchSwap, SwitchResume, SwitchStep
<1>1. /\ mDraining' \in BOOLEAN /\ mPolicy' \in {0, 1}
      /\ switchPc' \in {"idle", "waiting", "clear", "swapped"}
  <2>1. CASE SwitchCall
    BY <2>1 DEF SwitchCall, SwitchStep, TypeOK
  <2>2. CASE SwitchSeesZero
    BY <2>2 DEF SwitchSeesZero, SwitchStep, TypeOK
  <2>3. CASE SwitchSwap
    BY <2>3 DEF SwitchSwap, SwitchStep, TypeOK
  <2>4. CASE SwitchResume
    BY <2>4 DEF SwitchResume, SwitchStep, TypeOK
  <2> QED
    BY <2>1, <2>2, <2>3, <2>4
<1>2. QueueOK' /\ Queued' = Queued
  BY <1>0, QueueUntouched
<1>3. TypeOK'
  BY <1>0, <1>1 DEF TypeOK, queueVars, mapVars, jobVars, drainVars, cancelVars, agingVars
<1>4. ThreadInv'
  BY <1>0 DEF ThreadInv, jobVars, drainVars, cancelVars
<1>5. \A j \in Jobs : (InFlight(j)' <=> InFlight(j)) /\ (PastGate(j)' <=> PastGate(j))
  BY <1>0 DEF InFlight, PastGate, jobVars
<1>6. SwitchInv'
  <2>1. (switchPc # "idle" => mDraining)'
    BY DEF SwitchInv, SwitchCall, SwitchSeesZero, SwitchSwap, SwitchResume, SwitchStep
  <2>2. switchPc' \in {"clear", "swapped"} => \A j \in Jobs : ~PastGate(j)
    <3>1. CASE SwitchSeesZero
      BY <3>1, ZeroMeansNone DEF SwitchSeesZero, PastGate
    <3>2. CASE ~SwitchSeesZero
      BY <3>2 DEF SwitchInv, SwitchCall, SwitchSwap, SwitchResume, SwitchStep
    <3> QED
      BY <3>1, <3>2
  <2> QED
    BY <1>5, <2>1, <2>2 DEF SwitchInv
<1>7. DtorInv'
  <2>1. dtorPc = "alive"
    BY DEF SwitchCall, SwitchSeesZero, SwitchSwap, SwitchResume, SwitchStep, DtorInv, Alive
  <2> QED
    BY <1>0, <2>1 DEF DtorInv
<1>8. JobInv'
  BY <1>0, <1>2 DEF JobInv, WaitInv, RegisterInv, EndInv, ResidueInv, Held, InHand,
              Removed, mapVars, jobVars, drainVars, cancelVars, agingVars
<1>9. CountInv'
  BY <1>0, <1>5, CountSame
<1>10. SlotInv'
  BY <1>0, <1>2, SlotSame DEF HasSlot, jobVars, drainVars, cancelVars
<1> QED
  BY <1>2, <1>3, <1>4, <1>6, <1>7, <1>8, <1>9, <1>10

LEMMA DtorKeeps ==
    ASSUME IInv, DtorCall \/ DtorSeesZero \/ DtorJoinsAging \/ DtorJoinsDrain
    PROVE  IInv'
<1> USE DEF IInv
<1>0. UNCHANGED <<queueVars, mHoldingQueueDepth, mSubmittedCount, mPolicy, mapVars, late,
                  jobVars, drainVars, cancelVars, agingPc, expired, switchPc>>
  BY DEF DtorCall, DtorSeesZero, DtorJoinsAging, DtorJoinsDrain, DtorStep
<1>1. /\ mDraining' \in BOOLEAN /\ mAgingEnabled' \in BOOLEAN
      /\ dtorPc' \in {"alive", "waiting", "stopAging", "stopDrain", "destroyed"}
  BY DEF DtorCall, DtorSeesZero, DtorJoinsAging, DtorJoinsDrain, DtorStep, TypeOK
<1>2. QueueOK' /\ Queued' = Queued
  BY <1>0, QueueUntouched
<1>3. TypeOK'
  BY <1>0, <1>1 DEF TypeOK, queueVars, mapVars, jobVars, drainVars, cancelVars
<1>4. ThreadInv'
  BY <1>0 DEF ThreadInv, jobVars, drainVars, cancelVars
<1>5. \A j \in Jobs : InFlight(j)' <=> InFlight(j)
  BY <1>0 DEF InFlight, jobVars
<1>6. mDraining => mDraining'
  BY DEF DtorCall, DtorSeesZero, DtorJoinsAging, DtorJoinsDrain, DtorStep
<1>7. SwitchInv'
  BY <1>0, <1>5, <1>6 DEF SwitchInv, PastGate, jobVars
<1>8. DtorInv'
  <2>1. CASE DtorCall
    BY <1>0, <2>1 DEF DtorInv, DtorCall, DtorStep, jobVars
  <2>2. CASE DtorSeesZero
    BY <1>0, <1>5, <2>2, ZeroMeansNone DEF DtorInv, DtorSeesZero, DtorStep, jobVars
  <2>3. CASE DtorJoinsAging
    BY <1>0, <1>5, <2>3 DEF DtorInv, DtorJoinsAging, DtorStep, jobVars
  <2>4. CASE DtorJoinsDrain
    BY <1>0, <1>5, <2>4 DEF DtorInv, DtorJoinsDrain, DtorStep, jobVars, drainVars
  <2> QED
    BY <2>1, <2>2, <2>3, <2>4
<1>9. JobInv'
  BY <1>0, <1>2 DEF JobInv, WaitInv, RegisterInv, EndInv, ResidueInv, Held, InHand,
              Removed, mapVars, jobVars, drainVars, cancelVars
<1>10. CountInv'
  BY <1>0, <1>5, CountSame
<1>11. SlotInv'
  BY <1>0, <1>2, SlotSame DEF HasSlot, jobVars, drainVars, cancelVars
<1> QED
  BY <1>2, <1>3, <1>4, <1>7, <1>8, <1>9, <1>10, <1>11

----------------------------------------------------------------------------
(* The invariant.                                                          *)

LEMMA InitIInv == Init => IInv
<1> SUFFICES ASSUME Init PROVE IInv
  OBVIOUS
<1> USE DEF Init
<1>1. QueueOK /\ Queued = {}
  BY InitQueueOK, BalancerAssumption DEF QueueInit, Queued
<1>2. TypeOK
  <2>1. /\ mHandleToJobInfo \subseteq Jobs /\ mTracked \subseteq Jobs
        /\ late \subseteq HasDeadline /\ expired \subseteq Jobs
    OBVIOUS
  <2>2. mHoldingQueueDepth \in 0 .. Capacity /\ holdRetries \in [Jobs -> 0 .. MaxRetries]
    BY CapacityAssumption, BalancerAssumption DEF SlotsInit
  <2>3. /\ sub \in [Jobs -> SubPcs] /\ drainPc \in DrainPcs
        /\ task \in [Jobs -> {"none", "queued", "running", "called", "cancelled"}]
        /\ reg \in [Jobs -> {"none", "started", "routed", "tracked", "published"}]
        /\ fin \in [Jobs -> {"none", "begun", "untracked", "erased", "done"}]
        /\ finalized \in [Jobs -> Nat]
    BY DEF SubPcs, DrainPcs
  <2>4. early \in [Jobs -> BOOLEAN]
    OBVIOUS
  <2>5. /\ canPc \in [Cancellers -> {"idle", "removed", "notFound", "looked", "finishing"}]
        /\ canJob \in [Cancellers -> Jobs \cup {NoJob}]
    OBVIOUS
  <2> QED
    BY <1>1, <2>1, <2>2, <2>3, <2>4, <2>5 DEF TypeOK, QueueOK
<1>3. ThreadInv /\ SwitchInv /\ DtorInv
  BY DEF ThreadInv, SwitchInv, DtorInv, Cancellers
<1>4. NoJob \notin Jobs
  BY BalancerAssumption
<1>5. JobInv
  <2>1. \A j \in Jobs : WaitInv(j)
    BY <1>1, <1>4 DEF WaitInv, Held, InHand, Removed, Cancellers
  <2>2. \A j \in Jobs : RegisterInv(j)
    BY <1>4 DEF RegisterInv, Held
  <2>3. \A j \in Jobs : EndInv(j)
    BY <1>4 DEF EndInv, Cancellers
  <2>4. \A j \in Jobs : ResidueInv(j)
    BY DEF ResidueInv
  <2> QED
    BY <2>1, <2>2, <2>3, <2>4 DEF JobInv
<1>6. CountInv
  <2>1. FlightJobs = {}
    BY DEF FlightJobs, InFlight
  <2> QED
    BY <2>1, FS_EmptySet DEF CountInv
<1>7. SlotInv
  <2>1. SlotJobs = {}
    BY <1>1, <1>4 DEF SlotJobs, HasSlot, Cancellers
  <2> QED
    BY <2>1, FS_EmptySet DEF SlotInv, SlotsInit
<1> QED
  BY <1>1, <1>2, <1>3, <1>5, <1>6, <1>7 DEF IInv

LEMMA StutterKeeps ==
    ASSUME IInv, UNCHANGED vars
    PROVE  IInv'
<1> USE DEF IInv
<1>0. UNCHANGED <<queueVars, mHoldingQueueDepth, gateVars, mapVars, late, jobVars,
                  drainVars, cancelVars, agingVars, ownerVars>>
  BY DEF vars, queueVars
<1>1. QueueOK' /\ Queued' = Queued
  BY <1>0, QueueUntouched
<1>2. TypeOK'
  BY <1>0 DEF TypeOK, queueVars, gateVars, mapVars, jobVars, drainVars, cancelVars,
              agingVars, ownerVars
<1>3. ThreadInv' /\ DtorInv' /\ SwitchInv'
  BY <1>0 DEF ThreadInv, DtorInv, SwitchInv, PastGate, InFlight, gateVars, jobVars,
              drainVars, cancelVars, agingVars, ownerVars
<1>4. JobInv'
  BY <1>0, <1>1 DEF JobInv, WaitInv, RegisterInv, EndInv, ResidueInv, Held, InHand,
              Removed, mapVars, jobVars, drainVars, cancelVars, agingVars
<1>5. CountInv'
  BY <1>0, CountSame DEF InFlight, gateVars, jobVars
<1>6. SlotInv'
  BY <1>0, <1>1, SlotSame DEF HasSlot, jobVars, drainVars, cancelVars
<1> QED
  BY <1>1, <1>2, <1>3, <1>4, <1>5, <1>6

LEMMA NextKeeps == IInv /\ [Next]_vars => IInv'
<1> SUFFICES ASSUME IInv, [Next]_vars PROVE IInv'
  OBVIOUS
<1>1. CASE \E j \in Jobs : DeadlinePasses(j)
  BY <1>1, DeadlinePassesKeeps
<1>2. CASE UserCalls
  BY <1>2, SubmitCallKeeps, CancelHeldKeeps, CancelHeldNotFoundKeeps, CancelLookupKeeps,
     AgingMovesKeeps, SwitchKeeps, DtorKeeps DEF UserCalls
<1>3. CASE JobSteps
  <2>1. PICK j \in Jobs : SubmitCode(j) \/ Register(j) \/ Node(j) \/ Finalize(j)
    BY <1>3 DEF JobSteps
  <2>2. CASE SubmitCode(j)
    BY <2>2, SubmitMovesKeeps, SubmitReserveKeeps, SubmitHoldKeeps, SubmitDispatchKeeps,
       SubmitRefusedKeeps DEF SubmitCode
  <2>3. CASE Register(j)
    BY <2>3, RegisterRouteKeeps, RegisterTrackKeeps, RegisterPublishKeeps DEF Register
  <2>4. CASE Node(j)
    BY <2>4, NodeStartKeeps, NodeCompleteKeeps DEF Node
  <2>5. CASE Finalize(j)
    BY <2>5, FinalizeUntrackKeeps, FinalizeEraseKeeps, FinalizeDecrementKeeps DEF Finalize
  <2> QED
    BY <2>1, <2>2, <2>3, <2>4, <2>5
<1>4. CASE Drain
  BY <1>4, DrainMovesKeeps, DrainDequeueKeeps, DrainDropKeeps, DrainRequeueKeeps,
     DrainDispatchKeeps, DrainReleaseKeeps DEF Drain
<1>5. CASE CancelSteps
  BY <1>5, CancelAtNodeKeeps, CancelFinishedKeeps, CancelReleaseKeeps,
     CancelReturnsNotFoundKeeps DEF CancelSteps, CancelCode
<1>6. CASE AgingSteps
  BY <1>6, AgingMovesKeeps, AgingExpireKeeps DEF AgingSteps
<1>7. CASE SwitchSteps
  BY <1>7, SwitchKeeps DEF SwitchSteps
<1>8. CASE DtorSteps
  BY <1>8, DtorKeeps DEF DtorSteps
<1>9. CASE UNCHANGED vars
  BY <1>9, StutterKeeps
<1> QED
  BY <1>1, <1>2, <1>3, <1>4, <1>5, <1>6, <1>7, <1>8, <1>9 DEF Next, Gone

(* IInv holds in every state of every execution.                           *)
THEOREM InvariantHolds == Spec => []IInv
<1>1. Init => IInv
  BY InitIInv
<1>2. IInv /\ [Next]_vars => IInv'
  BY NextKeeps
<1> QED
  BY <1>1, <1>2, PTL DEF Spec

----------------------------------------------------------------------------
(* What the invariant says.                                                *)

(* Every variable keeps its type: no counter of the balancer goes below    *)
(* zero (its fetch_sub never wraps), the holding slots never pass their    *)
(* capacity, no entry is retried more often than maxRetries allows.        *)
THEOREM TypeCorrect == Spec => []TypeOK
<1>1. IInv => TypeOK
  BY DEF IInv
<1> QED
  BY <1>1, InvariantHolds, PTL

(* mSubmittedCount is the number of jobs in flight, whatever early return, *)
(* drop, cancel or completion each of them took.                           *)
THEOREM CountIsExact == Spec => []CountExact
<1>1. IInv => CountExact
  BY DEF IInv, CountInv, FlightJobs, CountExact
<1> QED
  BY <1>1, InvariantHolds, PTL

(* AdmissionControl's slot counter is the number of jobs that own a slot,  *)
(* and no smaller than the holding queue: HoldingQueue.h:115-119.          *)
THEOREM SlotsAreExact == Spec => []SlotsExact
<1>1. IInv => SlotsExact
  <2> SUFFICES ASSUME IInv PROVE SlotsExact
    OBVIOUS
  <2>1. mHoldingQueueDepth = Cardinality(SlotJobs)
    BY DEF IInv, SlotInv
  <2>2. Queued \in SUBSET SlotJobs /\ QueueSize = Cardinality(Queued)
    BY QueuedJobs, BalancerAssumption DEF IInv, QueueOK, SlotJobs, HasSlot
  <2>3. Cardinality(Queued) <= Cardinality(SlotJobs)
    BY <2>2, CountsFinite, FS_Subset
  <2> QED
    BY <2>1, <2>2, <2>3 DEF SlotsExact, SlotJobs
<1> QED
  BY <1>1, InvariantHolds, PTL

(* Who holds job j, one line per candidate.                                *)
LEMMA WhoHolds ==
    ASSUME NEW j, NEW h
    PROVE  h \in Holders(j) <=>
             \/ h = "submit" /\ sub[j] \in {"counted", "gatePassed", "reserved",
                                            "admitted", "selected", "refused"}
             \/ h = "queue" /\ j \in Queued
             \/ h = "drain" /\ InHand(j)
             \/ h = "cancel" /\ Removed(j)
             \/ h = "node" /\ task[j] \in {"queued", "running"}
             \/ h = "record" /\ early[j] /\ reg[j] # "published"
             \/ h = "finalize" /\ fin[j] \in {"begun", "untracked", "erased"}
BY DEF Holders, InHand, Removed

LEMMA HeldByOne ==
    ASSUME IInv, NEW j \in Jobs
    PROVE  IF InFlight(j) THEN \E h : Holders(j) = {h} ELSE Holders(j) = {}
<1> DEFINE Submitting == {"counted", "gatePassed", "reserved", "admitted", "selected",
                          "refused"}
<1> USE DEF IInv
<1>0. sub[j] \in SubPcs /\ task[j] \in {"none", "queued", "running", "called", "cancelled"}
      /\ fin[j] \in {"none", "begun", "untracked", "erased", "done"}
  BY DEF TypeOK
<1>1. CASE ~InFlight(j)
  <2>1. task[j] \notin {"queued", "running"} /\ j \notin Queued /\ ~InHand(j) /\ ~Removed(j)
        /\ fin[j] \in {"none", "done"} /\ sub[j] \notin Submitting
        /\ ~(early[j] /\ reg[j] # "published")
    BY <1>0, <1>1 DEF JobInv, WaitInv, RegisterInv, EndInv, InFlight, InHand, Undelivered
  <2> QED
    BY <1>1, <2>1, WhoHolds
<1>2. CASE InFlight(j)
  <2> SUFFICES \E h : Holders(j) = {h}
    BY <1>2
  <2>1. CASE sub[j] \in Submitting
    <3>1. task[j] = "none" /\ j \notin Queued /\ ~InHand(j) /\ ~Removed(j) /\ fin[j] = "none"
          /\ ~early[j]
      BY <2>1 DEF JobInv, WaitInv, RegisterInv, InHand, Undelivered
    <3>2. Holders(j) = {"submit"}
      BY <2>1, <3>1, WhoHolds
    <3> QED
      BY <3>2
  <2>2. CASE sub[j] \notin Submitting /\ task[j] = "none" /\ fin[j] = "none"
    <3>1. Held(j) /\ ~early[j] /\ (j \in Queued \/ InHand(j) \/ Removed(j))
      BY <1>0, <1>2, <2>2 DEF JobInv, WaitInv, RegisterInv, Held, InFlight, SubPcs
    <3>2. CASE j \in Queued
      <4>1. ~InHand(j) /\ ~Removed(j)
        BY <3>2 DEF JobInv, WaitInv, InHand
      <4>2. Holders(j) = {"queue"}
        BY <2>2, <3>1, <3>2, <4>1, WhoHolds
      <4> QED
        BY <4>2
    <3>3. CASE InHand(j)
      <4>1. j \notin Queued /\ ~Removed(j)
        BY <3>3 DEF JobInv, WaitInv, InHand
      <4>2. Holders(j) = {"drain"}
        BY <2>2, <3>1, <3>3, <4>1, WhoHolds
      <4> QED
        BY <4>2
    <3>4. CASE Removed(j)
      <4>1. j \notin Queued /\ ~InHand(j)
        BY <3>4 DEF JobInv, WaitInv
      <4>2. Holders(j) = {"cancel"}
        BY <2>2, <3>1, <3>4, <4>1, WhoHolds
      <4> QED
        BY <4>2
    <3> QED
      BY <3>1, <3>2, <3>3, <3>4
  <2>3. CASE sub[j] \notin Submitting /\ ~(task[j] = "none" /\ fin[j] = "none")
    <3>1. j \notin Queued /\ ~InHand(j) /\ ~Removed(j)
      BY <2>3 DEF JobInv, WaitInv
    <3>2. CASE fin[j] # "none"
      <4>1. /\ task[j] \notin {"queued", "running"}
            /\ ~(early[j] /\ reg[j] # "published")
            /\ fin[j] \in {"begun", "untracked", "erased"}
        BY <1>0, <1>2, <2>3, <3>2 DEF JobInv, EndInv, RegisterInv, InFlight, SubPcs
      <4>2. Holders(j) = {"finalize"}
        BY <2>3, <3>1, <4>1, WhoHolds
      <4> QED
        BY <4>2
    <3>3. CASE fin[j] = "none" /\ task[j] \in {"queued", "running"}
      <4>1. ~early[j]
        BY <3>3 DEF JobInv, EndInv
      <4>2. Holders(j) = {"node"}
        BY <2>3, <3>1, <3>3, <4>1, WhoHolds
      <4> QED
        BY <4>2
    <3>4. CASE fin[j] = "none" /\ task[j] \in {"called", "cancelled"}
      <4>1. early[j] /\ reg[j] # "published"
        BY <3>4 DEF JobInv, EndInv
      <4>2. Holders(j) = {"record"}
        BY <2>3, <3>1, <3>4, <4>1, WhoHolds
      <4> QED
        BY <4>2
    <3> QED
      BY <1>0, <2>3, <3>2, <3>3, <3>4
  <2> QED
    BY <2>1, <2>2, <2>3
<1> QED
  BY <1>1, <1>2

(* A job in flight is held by exactly one of the submitting call, the      *)
(* queue, the drain thread, a canceller, a node, the record of an early    *)
(* completion or a finalisation; a job that is not in flight by none.      *)
THEOREM EachJobHasOneHolder == Spec => []OneHolder
<1>1. IInv => OneHolder
  <2> SUFFICES ASSUME IInv PROVE OneHolder
    OBVIOUS
  <2>1. \A j \in Jobs : Cardinality(Holders(j)) = IF InFlight(j) THEN 1 ELSE 0
    BY HeldByOne, FS_EmptySet, FS_Singleton
  <2>2. QueueSize = Cardinality(Queued)
    BY DEF IInv, QueueOK
  <2> QED
    BY <2>1, <2>2 DEF OneHolder
<1> QED
  BY <1>1, InvariantHolds, PTL

(* No job is finalised twice, and no refused submission is finalised.      *)
THEOREM JobsFinalizedOnce == Spec => []FinalizedOnce
<1>1. IInv => FinalizedOnce
  BY DEF IInv, JobInv, WaitInv, EndInv, Undelivered, FinalizedOnce
<1> QED
  BY <1>1, InvariantHolds, PTL

(* A job that has ended is neither tracked nor routed.                     *)
THEOREM NothingLeftBehind == Spec => []NoResidue
<1>1. IInv => NoResidue
  BY DEF IInv, JobInv, ResidueInv, NoResidue
<1> QED
  BY <1>1, InvariantHolds, PTL

(* The policy is exchanged only while no job is between the gate and its   *)
(* end.                                                                    *)
THEOREM SwapIsQuiescent == Spec => []QuiescentSwap
<1>1. IInv => QuiescentSwap
  BY DEF IInv, SwitchInv, QuiescentSwap
<1> QED
  BY <1>1, InvariantHolds, PTL

(* Nothing that the destructor destroys is still used by a node, by the    *)
(* drain thread or by the aging thread.                                    *)
THEOREM DestructionIsSafe == Spec => []SafeDestruction
<1>1. IInv => SafeDestruction
  <2> SUFFICES ASSUME IInv PROVE SafeDestruction
    OBVIOUS
  <2> USE DEF IInv
  <2>1. ASSUME \A j \in Jobs : ~InFlight(j)
        PROVE  /\ \A j \in Jobs : /\ fin[j] \in {"none", "done"}
                                  /\ task[j] \notin {"queued", "running"}
               /\ QueueSize = 0
    <3>1. \A j \in Jobs : fin[j] \in {"none", "done"} /\ task[j] \notin {"queued", "running"}
      BY <2>1 DEF InFlight, JobInv, WaitInv, EndInv, Undelivered
    <3>2. \A j \in Jobs : j \notin Queued
      BY <2>1 DEF InFlight, JobInv, WaitInv, Held
    <3>3. Queued = {} /\ QueueSize = Cardinality(Queued)
      BY <3>2, QueuedJobs, BalancerAssumption DEF QueueOK
    <3> QED
      BY <3>1, <3>3, FS_EmptySet
  <2> QED
    BY <2>1 DEF DtorInv, SafeDestruction
<1> QED
  BY <1>1, InvariantHolds, PTL

-----------------------------------------------------------------------------
(* Balancer implements JobLifecycle, and uses its nodes as NodeContract    *)
(* allows: every step of Balancer is a step of the abstract specification, *)
(* or changes nothing there.                                               *)


(* A step that ends no job and moves no submit() call stutters.            *)
LEMMA Stutters ==
    ASSUME sub' = sub, mPolicy' = mPolicy,
           \A j \in Jobs : fin'[j] = "done" <=> fin[j] = "done"
    PROVE  UNCHANGED Lifecycle!lifecycleVars
<1>1. \A j \in Jobs : Phase(j)' = Phase(j)
  BY DEF Phase
<1>2. [j \in Jobs |-> Phase(j)]' = [j \in Jobs |-> Phase(j)]
  BY <1>1
<1> QED
  BY <1>2 DEF Lifecycle!lifecycleVars

(* A step that concerns job k only moves the phase of k only.              *)
LEMMA PhaseMoves ==
    ASSUME NEW k \in Jobs, NEW to, Phase(k)' = to,
           \A j \in Jobs \ {k} : sub'[j] = sub[j] /\ fin'[j] = fin[j]
    PROVE  [j \in Jobs |-> Phase(j)]' = [[j \in Jobs |-> Phase(j)] EXCEPT ![k] = to]
<1>1. \A j \in Jobs \ {k} : Phase(j)' = Phase(j)
  BY DEF Phase
<1> QED
  BY <1>1

(* The phases of a job, in the terms of the invariant.                     *)
LEMMA PhaseValues ==
    ASSUME IInv, NEW k \in Jobs
    PROVE  /\ Phase(k) = "new" <=> sub[k] \in {"idle", "counted"}
           /\ Phase(k) = "rejected" <=> sub[k] \in {"refused", "rejected"}
           /\ Phase(k) = "routing" <=>
                sub[k] \in {"gatePassed", "reserved", "admitted", "selected"}
           /\ Phase(k) = "accepted" <=>
                sub[k] \in {"enqueued", "held", "registering", "dispatched"} /\ fin[k] # "done"
<1>1. sub[k] \in SubPcs
  BY DEF IInv, TypeOK
<1> QED
  BY <1>1 DEF Phase, SubPcs

(* A step of submit() routes, accepts or rejects its job, or stutters.     *)
LEMMA SubmitImplements ==
    ASSUME IInv, NEW k \in Jobs, SubmitCode(k)
    PROVE  [Lifecycle!Next]_Lifecycle!lifecycleVars
<1>0. sub \in [Jobs -> SubPcs]
  BY DEF IInv, TypeOK
<1>1. mPolicy' = mPolicy /\ fin' = fin
  BY DEF SubmitCode, SubmitGate, SubmitReject, SubmitReserve, SubmitHold, SubmitHoldReturn,
         SubmitAdmit, SubmitSelect, SubmitDispatch, SubmitNodeRefuses, SubmitReturn,
         SubmitRefused, SubmitStep, gateVars
<1>2. PICK from \in SubPcs, to \in SubPcs :
         /\ sub[k] = from /\ sub' = [sub EXCEPT ![k] = to]
         /\ \/ from = "counted" /\ to \in {"gatePassed", "refused"}
            \/ from = "gatePassed" /\ to \in {"refused", "reserved", "admitted"}
            \/ from = "reserved" /\ to \in {"refused", "enqueued"}
            \/ from = "enqueued" /\ to = "held"
            \/ from = "admitted" /\ to \in {"selected", "refused"}
            \/ from = "selected" /\ to \in {"registering", "refused"}
            \/ from = "registering" /\ to = "dispatched"
            \/ from = "refused" /\ to = "rejected"
  BY DEF SubmitCode, SubmitGate, SubmitReject, SubmitReserve, SubmitHold, SubmitHoldReturn,
         SubmitAdmit, SubmitSelect, SubmitDispatch, SubmitNodeRefuses, SubmitReturn,
         SubmitRefused, SubmitStep, SubPcs
<1>3. sub'[k] = to /\ \A j \in Jobs \ {k} : sub'[j] = sub[j] /\ fin'[j] = fin[j]
  BY <1>0, <1>1, <1>2
<1>4. from \in Undelivered => fin[k] = "none"
  BY <1>2 DEF IInv, JobInv, WaitInv
<1>5. CASE Phase(k)' = Phase(k)
  <2>1. [j \in Jobs |-> Phase(j)]' = [j \in Jobs |-> Phase(j)]
    BY <1>3, <1>5 DEF Phase
  <2> QED
    BY <1>1, <2>1 DEF Lifecycle!lifecycleVars
<1>6. CASE Phase(k) = "new" /\ Phase(k)' = "routing"
  BY <1>1, <1>3, <1>6, PhaseMoves
     DEF Lifecycle!Next, Lifecycle!Route, Lifecycle!Becomes
<1>7. CASE Phase(k) \in {"new", "routing"} /\ Phase(k)' = "rejected"
  BY <1>1, <1>3, <1>7, PhaseMoves
     DEF Lifecycle!Next, Lifecycle!Reject, Lifecycle!Becomes
<1>8. CASE Phase(k) = "routing" /\ Phase(k)' = "accepted"
  BY <1>1, <1>3, <1>8, PhaseMoves
     DEF Lifecycle!Next, Lifecycle!Accept, Lifecycle!Becomes
<1> QED
  BY <1>1, <1>2, <1>3, <1>4, <1>5, <1>6, <1>7, <1>8 DEF Phase, Undelivered

(* Only the decrement that ends a finalisation ends a job.                 *)
LEMMA FinalizeImplements ==
    ASSUME IInv, NEW k \in Jobs, Finalize(k)
    PROVE  [Lifecycle!Next]_Lifecycle!lifecycleVars
<1>1. sub' = sub /\ mPolicy' = mPolicy
  BY DEF Finalize, FinalizeUntrack, FinalizeErase, FinalizeDecrement, gateVars
<1>2. fin \in [Jobs -> {"none", "begun", "untracked", "erased", "done"}]
  BY DEF IInv, TypeOK
<1>3. CASE FinalizeUntrack(k) \/ FinalizeErase(k)
  <2>1. \A j \in Jobs : fin'[j] = "done" <=> fin[j] = "done"
    BY <1>2, <1>3 DEF FinalizeUntrack, FinalizeErase
  <2> QED
    BY <1>1, <2>1, Stutters
<1>4. CASE FinalizeDecrement(k)
  <2>1. fin[k] = "erased" /\ fin' = [fin EXCEPT ![k] = "done"]
    BY <1>4 DEF FinalizeDecrement
  <2>2. sub[k] \notin Undelivered /\ sub[k] \in SubPcs
    BY <2>1 DEF IInv, TypeOK, JobInv, WaitInv
  <2>3. Phase(k) = "accepted" /\ Phase(k)' = "finished"
    BY <1>1, <1>2, <2>1, <2>2 DEF Phase, SubPcs, Undelivered
  <2>4. \A j \in Jobs \ {k} : sub'[j] = sub[j] /\ fin'[j] = fin[j]
    BY <1>1, <1>2, <2>1
  <2> QED
    BY <1>1, <2>3, <2>4, PhaseMoves DEF Lifecycle!Next, Lifecycle!Finish, Lifecycle!Becomes
<1> QED
  BY <1>3, <1>4 DEF Finalize

(* Beginning a finalisation does not end a job.                            *)
LEMMA BeginsOnly ==
    ASSUME IInv, NEW k \in Jobs, fin[k] = "none", BeginFinalize(k)
    PROVE  \A j \in Jobs : fin'[j] = "done" <=> fin[j] = "done"
BY DEF IInv, TypeOK, BeginFinalize

(* Registration and the node only begin finalisations.                     *)
LEMMA RegisterNodeImplement ==
    ASSUME IInv, NEW k \in Jobs, Register(k) \/ Node(k)
    PROVE  UNCHANGED Lifecycle!lifecycleVars
<1>1. sub' = sub /\ mPolicy' = mPolicy
  BY DEF Register, RegisterRoute, RegisterTrack, RegisterPublish, RegisterStep, Node,
         NodeStart, NodeComplete, NodeStep, gateVars
<1>2. fin' = fin \/ BeginFinalize(k)
  BY DEF Register, RegisterRoute, RegisterTrack, RegisterPublish, Node, NodeStart,
         NodeComplete
<1>3. CASE fin' = fin
  BY <1>1, <1>3, Stutters
<1>4. CASE BeginFinalize(k) /\ fin' # fin
  <2>1. CASE RegisterPublish(k)
    <3>1. early[k] /\ reg[k] = "tracked"
      BY <1>4, <2>1 DEF RegisterPublish, RegisterStep
    <3>2. task[k] \in {"none", "queued", "running", "called", "cancelled"}
      BY DEF IInv, TypeOK
    <3>3. fin[k] = "none"
      BY <3>1, <3>2 DEF IInv, JobInv, RegisterInv, EndInv
    <3> QED
      BY <1>1, <1>4, <3>3, BeginsOnly, Stutters
  <2>2. CASE NodeComplete(k)
    <3>1. fin[k] = "none"
      BY <2>2 DEF NodeComplete, NodeStep, IInv, JobInv, EndInv
    <3> QED
      BY <1>1, <1>4, <3>1, BeginsOnly, Stutters
  <2> QED
    BY <1>4, <2>1, <2>2 DEF Register, RegisterRoute, RegisterTrack, Node, NodeStart
<1> QED
  BY <1>2, <1>3, <1>4

(* The drain thread ends no job itself: a drop only begins a finalisation. *)
LEMMA DrainImplements ==
    ASSUME IInv, Drain
    PROVE  UNCHANGED Lifecycle!lifecycleVars
<1>1. sub' = sub /\ mPolicy' = mPolicy
  BY DEF Drain, DrainWake, DrainStop, DrainSweepEnds, DrainDequeue, DrainDrop, DrainDropped,
         DrainSaturated, DrainSelect, DrainSelectFails, DrainNodeRefuses, DrainDispatch,
         DrainRelease, DrainRegistered, DrainStep, gateVars
<1>2. CASE DrainDrop
  <2>1. PICK k \in Jobs : k = drainJob
    BY <1>2 DEF DrainDrop, DrainStep, IInv, TypeOK, ThreadInv
  <2>2. fin[k] = "none" /\ BeginFinalize(k)
    BY <1>2, <2>1 DEF DrainDrop, DrainStep, IInv, JobInv, WaitInv, InHand
  <2> QED
    BY <1>1, <2>2, BeginsOnly, Stutters
<1>3. CASE ~DrainDrop
  <2>1. fin' = fin
    BY <1>3 DEF Drain, DrainWake, DrainStop, DrainSweepEnds, DrainDequeue, DrainDropped,
         DrainSaturated, DrainSelect, DrainSelectFails, DrainNodeRefuses, DrainDispatch,
         DrainRelease, DrainRegistered
  <2> QED
    BY <1>1, <2>1, Stutters
<1> QED
  BY <1>2, <1>3

(* Nor does a cancel, by the user or by the aging thread.                  *)
LEMMA CancelImplements ==
    ASSUME IInv, CancelSteps
    PROVE  UNCHANGED Lifecycle!lifecycleVars
<1>1. sub' = sub /\ mPolicy' = mPolicy
  BY DEF CancelSteps, CancelCode, CancelAtNode, CancelFinished, CancelRelease,
         CancelReturnsNotFound, CancelStep, gateVars
<1>2. CASE CancelRelease
  <2>1. PICK k \in Jobs : k = canJob["user"]
    BY <1>2 DEF CancelRelease, CancelStep, IInv, TypeOK, ThreadInv, Cancellers
  <2>2. fin[k] = "none" /\ BeginFinalize(k)
    BY <1>2, <2>1 DEF CancelRelease, CancelStep, IInv, JobInv, WaitInv, Removed
  <2> QED
    BY <1>1, <2>2, BeginsOnly, Stutters
<1>3. ASSUME NEW c \in Cancellers, CancelAtNode(c)
      PROVE  UNCHANGED Lifecycle!lifecycleVars
  <2>1. PICK k \in Jobs : k = canJob[c]
    BY <1>3 DEF CancelAtNode, IInv, TypeOK, ThreadInv
  <2>2. CASE task[k] # "queued"
    <3>1. fin' = fin
      BY <1>3, <2>1, <2>2 DEF CancelAtNode
    <3> QED
      BY <1>1, <3>1, Stutters
  <2>3. CASE task[k] = "queued"
    <3>1. fin[k] = "none"
      BY <2>3 DEF IInv, JobInv, EndInv
    <3>2. BeginFinalize(k)
      BY <1>3, <2>1, <2>3 DEF CancelAtNode
    <3> QED
      BY <1>1, <3>1, <3>2, BeginsOnly, Stutters
  <2> QED
    BY <2>2, <2>3
<1>4. ASSUME CancelReturnsNotFound \/ \E c \in Cancellers : CancelFinished(c)
      PROVE  UNCHANGED Lifecycle!lifecycleVars
  <2>1. fin' = fin
    BY <1>4 DEF CancelReturnsNotFound, CancelFinished
  <2> QED
    BY <1>1, <2>1, Stutters
<1> QED
  BY <1>2, <1>3, <1>4 DEF CancelSteps, CancelCode

(* A swap meets no job between the gate and its end: SwitchInv.            *)
LEMMA SwapImplements ==
    ASSUME IInv, SwitchSwap
    PROVE  Lifecycle!Next
<1>1. \A j \in Jobs : Phase(j) \notin {"routing", "accepted"}
  <2> SUFFICES ASSUME NEW j \in Jobs PROVE Phase(j) \notin {"routing", "accepted"}
    OBVIOUS
  <2>1. ~PastGate(j)
    BY DEF SwitchSwap, SwitchStep, IInv, SwitchInv
  <2>2. sub[j] \in SubPcs /\ (sub[j] \in Undelivered => fin[j] = "none")
    BY DEF IInv, TypeOK, JobInv, WaitInv
  <2> QED
    BY <2>1, <2>2, PhaseValues DEF PastGate, InFlight, SubPcs, Undelivered
<1>2. sub' = sub /\ fin' = fin /\ mPolicy' = 1 - mPolicy
  BY DEF SwitchSwap, SwitchStep, jobVars
<1>3. [j \in Jobs |-> Phase(j)]' = [j \in Jobs |-> Phase(j)]
  BY <1>2 DEF Phase
<1> QED
  BY <1>1, <1>2, <1>3 DEF Lifecycle!Next, Lifecycle!Swap

(* Every step of Balancer, from the lemmas above.                          *)
LEMMA StepImplements ==
    IInv /\ [Next]_vars => [Lifecycle!Next]_Lifecycle!lifecycleVars
<1> SUFFICES ASSUME IInv, [Next]_vars PROVE [Lifecycle!Next]_Lifecycle!lifecycleVars
  OBVIOUS
<1>1. CASE JobSteps
  BY <1>1, SubmitImplements, FinalizeImplements, RegisterNodeImplement DEF JobSteps
<1>2. CASE Drain
  BY <1>2, DrainImplements
<1>3. CASE CancelSteps
  BY <1>3, CancelImplements
<1>4. CASE SwitchSwap
  BY <1>4, SwapImplements
<1>5. ASSUME NEW k \in Jobs, SubmitCall(k)
      PROVE  UNCHANGED Lifecycle!lifecycleVars
  <2>1. /\ sub[k] = "idle" /\ sub' = [sub EXCEPT ![k] = "counted"]
        /\ fin' = fin /\ mPolicy' = mPolicy /\ sub \in [Jobs -> SubPcs]
    BY <1>5 DEF SubmitCall, SubmitStep, IInv, TypeOK
  <2>2. \A j \in Jobs : Phase(j)' = Phase(j)
    BY <2>1 DEF Phase
  <2>3. [j \in Jobs |-> Phase(j)]' = [j \in Jobs |-> Phase(j)]
    BY <2>2
  <2> QED
    BY <2>1, <2>3 DEF Lifecycle!lifecycleVars
<1>6. ASSUME sub' = sub, fin' = fin, mPolicy' = mPolicy
      PROVE  UNCHANGED Lifecycle!lifecycleVars
  BY <1>6, Stutters
<1>7. CASE \E j \in Jobs : DeadlinePasses(j)
  BY <1>6, <1>7 DEF DeadlinePasses, gateVars, jobVars
<1>8. CASE UserCalls
  <2>1. CASE \E j \in Jobs : CancelHeld(j) \/ CancelHeldNotFound(j) \/ CancelLookup(j)
    BY <1>6, <2>1 DEF CancelHeld, CancelHeldNotFound, CancelLookup, CancelStep, gateVars
  <2>2. CASE AgingEnable \/ AgingDisable \/ SwitchCall \/ DtorCall
    BY <1>6, <2>2 DEF AgingEnable, AgingDisable, AgingStep, SwitchCall, SwitchStep,
                      DtorCall, DtorStep, gateVars, jobVars
  <2> QED
    BY <1>5, <1>8, <2>1, <2>2 DEF UserCalls
<1>9. CASE AgingSteps
  <2>1. CASE \E j \in Jobs : AgingExpire(j)
    BY <1>6, <2>1 DEF AgingExpire, CancelStep, gateVars
  <2>2. CASE AgingTick \/ AgingDelivered \/ AgingStops
    BY <1>6, <2>2 DEF AgingTick, AgingDelivered, AgingStops, AgingStep, gateVars, jobVars
  <2> QED
    BY <1>9, <2>1, <2>2 DEF AgingSteps
<1>10. CASE SwitchSeesZero \/ SwitchResume \/ DtorSteps \/ UNCHANGED vars
  BY <1>6, <1>10 DEF SwitchSeesZero, SwitchResume, SwitchStep, DtorSteps, DtorSeesZero,
         DtorJoinsAging, DtorJoinsDrain, DtorStep, vars, gateVars, jobVars
<1> QED
  BY <1>1, <1>2, <1>3, <1>4, <1>7, <1>8, <1>9, <1>10 DEF Next, SwitchSteps, Gone

(* Whatever its threads do, the balancer keeps the promise of JobLifecycle *)
(* to every job: rejected or accepted once, finished once, and never met   *)
(* by a change of policy between the gate and its end.                     *)
THEOREM BalancerImplementsLifecycle == Spec => ImplementsLifecycle
<1>1. Init => Lifecycle!Init
  BY DEF Init, Lifecycle!Init, Phase
<1>2. IInv /\ [Next]_vars => [Lifecycle!Next]_Lifecycle!lifecycleVars
  BY StepImplements
<1> QED
  BY <1>1, <1>2, InvariantHolds, PTL DEF Spec, ImplementsLifecycle, Lifecycle!Spec

(* The life cycle has a gate in it: the jobs behind it are those that are  *)
(* routed or accepted.                                                     *)
LEMMA LifecycleKeepsGate ==
    ASSUME [Lifecycle!Next]_Lifecycle!lifecycleVars
    PROVE  [Gate!Next]_Gate!gateVars
<1> DEFINE phase == [j \in Jobs |-> Phase(j)]
           Behind == {j \in Jobs : Phase(j) \in {"routing", "accepted"}}
<1>1. Behind = {j \in Jobs : phase[j] \in {"routing", "accepted"}}
  OBVIOUS
<1>2. Behind' = {j \in Jobs : phase'[j] \in {"routing", "accepted"}}
  OBVIOUS
<1>3. DOMAIN phase = Jobs
  OBVIOUS
<1>4. CASE UNCHANGED Lifecycle!lifecycleVars
  <2>1. phase' = phase /\ mPolicy' = mPolicy
    BY <1>4 DEF Lifecycle!lifecycleVars
  <2> HIDE DEF phase
  <2>2. Behind' = Behind
    BY <1>1, <1>2, <2>1, Zenon
  <2> QED
    BY <2>1, <2>2 DEF Gate!gateVars
<1>5. ASSUME NEW j \in Jobs, NEW to, Lifecycle!Becomes(j, to)
      PROVE  [Gate!Next]_Gate!gateVars
  <2>1. phase' = [phase EXCEPT ![j] = to] /\ mPolicy' = mPolicy
    BY <1>5 DEF Lifecycle!Becomes
  <2> HIDE DEF phase, Behind
  <2>2. CASE to \in {"routing", "accepted"}
    <3>1. Behind' = Behind \cup {j}
      BY <1>1, <1>2, <1>3, <2>1, <2>2
    <3> QED
      BY <2>1, <3>1 DEF Gate!Next, Gate!Enter, Behind
  <2>3. CASE to \notin {"routing", "accepted"}
    <3>1. Behind' = Behind \ {j}
      BY <1>1, <1>2, <1>3, <2>1, <2>3
    <3> QED
      BY <2>1, <3>1 DEF Gate!Next, Gate!Leave, Behind
  <2> QED
    BY <2>2, <2>3
<1>6. CASE Lifecycle!Swap
  <2>1. phase' = phase /\ \A j \in Jobs : phase[j] \notin {"routing", "accepted"}
    BY <1>6 DEF Lifecycle!Swap
  <2> HIDE DEF phase, Behind
  <2>2. Behind = {} /\ Behind' = {}
    BY <1>1, <1>2, <2>1
  <2> QED
    BY <2>2 DEF Gate!Next, Gate!Exchange, Behind
<1>7. CASE \E j \in Jobs : \/ Lifecycle!Route(j) \/ Lifecycle!Reject(j)
                          \/ Lifecycle!Accept(j) \/ Lifecycle!Finish(j)
  BY <1>5, <1>7
     DEF Lifecycle!Route, Lifecycle!Reject, Lifecycle!Accept, Lifecycle!Finish
<1> QED
  BY <1>4, <1>6, <1>7 DEF Lifecycle!Next

(* The balancer is a drain gate for its jobs, as PolicySwitch is one for   *)
(* the threads of submit().                                                *)
THEOREM BalancerIsGate == Spec => ImplementsGate
<1>1. Init => Gate!Init
  BY DEF Init, Gate!Init, Phase
<1>2. IInv /\ [Next]_vars => [Gate!Next]_Gate!gateVars
  BY StepImplements, LifecycleKeepsGate
<1> QED
  BY <1>1, <1>2, InvariantHolds, PTL DEF Spec, ImplementsGate, Gate!Spec

-----------------------------------------------------------------------------
(* The use of the nodes.                                                   *)

(* A job that is about to be sent to a node has never been sent to one.   *)
LEMMA DispatchIsFirst ==
    ASSUME IInv
    PROVE  /\ \A j \in Jobs : sub[j] = "selected" => task[j] = "none"
           /\ drainPc = "selected" => drainJob \in Jobs /\ task[drainJob] = "none"
<1>1. \A j \in Jobs : sub[j] = "selected" => task[j] = "none"
  BY DEF IInv, JobInv, WaitInv, Undelivered
<1>2. ASSUME drainPc = "selected"
      PROVE  drainJob \in Jobs /\ task[drainJob] = "none"
  <2>1. PICK k \in Jobs : k = drainJob
    BY <1>2 DEF IInv, TypeOK, ThreadInv
  <2>2. InHand(k)
    BY <1>2, <2>1 DEF InHand
  <2> QED
    BY <2>1, <2>2 DEF IInv, JobInv, WaitInv
<1> QED
  BY <1>1, <1>2

(* Every step of Balancer, as a step of the contract.                      *)
LEMMA UseSteps ==
    IInv /\ [Next]_vars => [NodeUse!Next]_task
<1> SUFFICES ASSUME IInv, [Next]_vars PROVE [NodeUse!Next]_task
  OBVIOUS
<1>1. ASSUME NEW k \in Jobs, SubmitCode(k) \/ SubmitCall(k)
      PROVE  [NodeUse!Next]_task
  <2>1. CASE SubmitDispatch(k)
    BY <2>1, DispatchIsFirst
       DEF SubmitDispatch, SubmitStep, NodeUse!Next, NodeUse!Accept, NodeUse!Becomes
  <2>2. CASE ~SubmitDispatch(k)
    BY <1>1, <2>2 DEF SubmitCode, SubmitCall, SubmitGate, SubmitReject, SubmitReserve,
         SubmitHold, SubmitHoldReturn, SubmitAdmit, SubmitSelect, SubmitNodeRefuses,
         SubmitReturn, SubmitRefused, SubmitStep
  <2> QED
    BY <2>1, <2>2
<1>2. ASSUME NEW k \in Jobs, Register(k) \/ Finalize(k)
      PROVE  UNCHANGED task
  BY <1>2 DEF Register, RegisterRoute, RegisterTrack, RegisterPublish, RegisterStep,
         Finalize, FinalizeUntrack, FinalizeErase, FinalizeDecrement
<1>3. ASSUME NEW k \in Jobs, Node(k)
      PROVE  [NodeUse!Next]_task
  BY <1>3 DEF Node, NodeStart, NodeComplete, NodeStep, NodeUse!Next, NodeUse!Start,
         NodeUse!Callback, NodeUse!Becomes
<1>4. CASE Drain
  <2>1. CASE DrainDispatch
    BY <2>1, DispatchIsFirst
       DEF DrainDispatch, DrainStep, NodeUse!Next, NodeUse!Accept, NodeUse!Becomes
  <2>2. CASE ~DrainDispatch
    BY <1>4, <2>2 DEF Drain, DrainWake, DrainStop, DrainSweepEnds, DrainDequeue, DrainDrop,
         DrainDropped, DrainSaturated, DrainSelect, DrainSelectFails, DrainNodeRefuses,
         DrainRelease, DrainRegistered
  <2> QED
    BY <2>1, <2>2
<1>5. CASE CancelSteps
  <2>1. ASSUME NEW c \in Cancellers, CancelAtNode(c)
        PROVE  [NodeUse!Next]_task
    <3>1. PICK k \in Jobs : k = canJob[c]
      BY <2>1 DEF CancelAtNode, IInv, TypeOK, ThreadInv
    <3>2. CASE task[k] = "queued"
      BY <2>1, <3>1, <3>2
         DEF CancelAtNode, NodeUse!Next, NodeUse!Cancel, NodeUse!Becomes
    <3>3. CASE task[k] # "queued"
      BY <2>1, <3>1, <3>3 DEF CancelAtNode
    <3> QED
      BY <3>2, <3>3
  <2>2. CASE CancelRelease \/ CancelReturnsNotFound
             \/ \E c \in Cancellers : CancelFinished(c)
    BY <2>2 DEF CancelRelease, CancelReturnsNotFound, CancelFinished
  <2> QED
    BY <1>5, <2>1, <2>2 DEF CancelSteps, CancelCode
<1>6. CASE UserCalls \/ AgingSteps
  <2>1. CASE \E k \in Jobs : SubmitCall(k)
    BY <1>1, <2>1
  <2>2. CASE ~(\E k \in Jobs : SubmitCall(k))
    BY <1>6, <2>2 DEF UserCalls, AgingSteps, CancelHeld, CancelHeldNotFound, CancelLookup,
         AgingEnable, AgingDisable, AgingStep, AgingExpire, AgingTick, AgingDelivered,
         AgingStops, SwitchCall, SwitchStep, DtorCall, DtorStep, jobVars
  <2> QED
    BY <2>1, <2>2
<1>7. CASE SwitchSteps \/ DtorSteps \/ Gone \/ UNCHANGED vars
           \/ \E j \in Jobs : DeadlinePasses(j)
  BY <1>7 DEF SwitchSteps, SwitchSeesZero, SwitchSwap, SwitchResume, SwitchStep, DtorSteps,
         DtorSeesZero, DtorJoinsAging, DtorJoinsDrain, DtorStep, Gone, DeadlinePasses,
         vars, jobVars
<1> QED
  BY <1>1, <1>2, <1>3, <1>4, <1>5, <1>6, <1>7 DEF Next, JobSteps

(* No job is given to two nodes, or to one node twice, and a job is        *)
(* cancelled at a node only before it starts.                              *)
THEOREM BalancerUsesNodesByContract == Spec => UsesNodesByContract
<1>1. Init => NodeUse!Init
  BY DEF Init, NodeUse!Init
<1> QED
  BY <1>1, UseSteps, InvariantHolds, PTL DEF Spec, UsesNodesByContract, NodeUse!Spec
=============================================================================
