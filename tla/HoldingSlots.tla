---------------------------- MODULE HoldingSlots ----------------------------
(***************************************************************************)
(* The holding-slot counter of AdmissionControl, as its callers see it: an *)
(* atomic bounded counter.  AdmissionControl.evaluate reserves a slot for  *)
(* a Critical or High job when the cluster is saturated; Balancer gives it *)
(* back when the job leaves the holding area for good.                     *)
(*                                                                         *)
(* The reservation is a compare-and-exchange loop in the code.  Here it is *)
(* one step, which AdmissionControl.tla shows the loop to implement.       *)
(***************************************************************************)
EXTENDS Integers

CONSTANT Capacity   \* AdmissionConfig::holdingQueueCapacity

ASSUME CapacityAssumption == Capacity \in Nat

VARIABLE mHoldingQueueDepth

(* A bug the tests would hardly reach: the bound is compared with <=.      *)
SlotFreeOffByOne == mHoldingQueueDepth <= Capacity

SlotFree == mHoldingQueueDepth < Capacity

SlotsInit == mHoldingQueueDepth = 0

(* tryReserveHoldingSlot, the successful exchange.                         *)
ReserveSlot ==
    /\ SlotFree
    /\ mHoldingQueueDepth' = mHoldingQueueDepth + 1

(* releaseFromHoldingQueue: an unguarded fetch_sub.  An integer is used so *)
(* that a release without a reservation shows as a negative depth, where   *)
(* the program's uint32_t would wrap.                                      *)
ReleaseSlot == mHoldingQueueDepth' = mHoldingQueueDepth - 1

(* Callers release only what they have reserved.                           *)
SlotsNext == ReserveSlot \/ (mHoldingQueueDepth > 0 /\ ReleaseSlot)

SlotsSpec == SlotsInit /\ [][SlotsNext]_mHoldingQueueDepth
=============================================================================
