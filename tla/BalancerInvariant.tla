------------------------- MODULE BalancerInvariant --------------------------
(***************************************************************************)
(* The inductive invariant of Balancer: what each job, each thread and     *)
(* each counter is like in every reachable state, in enough detail to      *)
(* follow from itself over one step.                                       *)
(***************************************************************************)
EXTENDS Balancer, HoldingQueueProofs

(* submit() has not handed the job to the queue or to a node.              *)
Undelivered == {"idle", "counted", "gatePassed", "reserved", "admitted",
                "selected", "refused", "rejected"}

Held(j) == sub[j] \in {"enqueued", "held"}

InHand(j) == drainJob = j /\ drainPc \in {"hand", "selected"}

Removed(j) == canJob["user"] = j /\ canPc["user"] = "removed"

(* A thread has a job exactly when its place in the code says so.          *)
ThreadInv ==
    /\ drainJob = NoJob <=> drainPc \in {"wait", "sweep", "stopped"}
    /\ \A c \in Cancellers : canJob[c] = NoJob <=> canPc[c] = "idle"
    /\ canPc["aging"] \in {"idle", "looked", "finishing"}
    /\ MaxRetries > 0 /\ drainPc = "selected" => holdRetries[drainJob] < MaxRetries

(* A job that waits is held, in one place, and has not been sent or ended. *)
WaitInv(j) ==
    /\ sub[j] \in Undelivered => /\ task[j] = "none" /\ fin[j] = "none"
                                 /\ j \notin Queued /\ drainJob # j /\ ~Removed(j)
    /\ j \in Queued => /\ Held(j) /\ task[j] = "none" /\ fin[j] = "none"
                       /\ drainJob # j /\ ~Removed(j)
    /\ InHand(j) => Held(j) /\ task[j] = "none" /\ fin[j] = "none" /\ ~Removed(j)
    /\ Removed(j) => Held(j) /\ task[j] = "none" /\ fin[j] = "none"
    /\ Held(j) /\ task[j] = "none" /\ fin[j] = "none"
           => j \in Queued \/ InHand(j) \/ Removed(j)
    /\ drainJob = j /\ drainPc = "finishing"
           => Held(j) /\ task[j] = "none" /\ fin[j] # "none"

(* Registration follows acceptance by a node, and whoever owes it is busy  *)
(* with it.                                                                *)
RegisterInv(j) ==
    /\ task[j] = "none" => /\ reg[j] = "none" /\ ~early[j]
                           /\ sub[j] \notin {"registering", "dispatched"}
    /\ drainJob = j /\ drainPc = "release"
           => Held(j) /\ task[j] # "none" /\ reg[j] = "none"
    /\ Held(j) /\ task[j] # "none" /\ reg[j] = "none"
           => drainJob = j /\ drainPc = "release"
    /\ drainJob = j /\ drainPc = "registering" => Held(j) /\ reg[j] # "none"
    /\ sub[j] = "registering" => reg[j] # "none"
    /\ sub[j] = "dispatched" => reg[j] = "published"

(* A job sent to a node is finalised by its callback, by the publication   *)
(* that finds the callback recorded, or by the canceller that took it back.*)
EndInv(j) ==
    /\ task[j] \in {"queued", "running"} => fin[j] = "none" /\ ~early[j]
    /\ task[j] = "called" =>
          \/ ~early[j] /\ reg[j] = "published" /\ fin[j] # "none"
          \/ early[j] /\ (fin[j] = "none" <=> reg[j] # "published")
    /\ task[j] = "cancelled" => /\ ~early[j] /\ fin[j] # "none"
                                /\ reg[j] \in {"tracked", "published"}
    /\ reg[j] \in {"started", "routed"} => fin[j] = "none"
    /\ finalized[j] = IF fin[j] = "none" THEN 0 ELSE 1
    /\ \A c \in Cancellers : canJob[c] = j =>
          /\ canPc[c] = "looked" => reg[j] \in {"tracked", "published"}
          /\ canPc[c] = "finishing" => fin[j] # "none"

(* What is routed, tracked or reported as expired was registered, and the  *)
(* finalisation takes it out in that order.                                *)
ResidueInv(j) ==
    /\ j \in mHandleToJobInfo => /\ reg[j] \in {"routed", "tracked", "published"}
                                 /\ fin[j] \in {"none", "begun", "untracked"}
    /\ j \in mTracked => /\ reg[j] \in {"tracked", "published"}
                         /\ fin[j] \in {"none", "begun"}
    /\ j \in expired => reg[j] \in {"tracked", "published"}

(* The counters.                                                           *)
FlightJobs == {j \in Jobs : InFlight(j)}
SlotJobs == {j \in Jobs : HasSlot(j)}

CountInv == mSubmittedCount = Cardinality(FlightJobs)
SlotInv == mHoldingQueueDepth = Cardinality(SlotJobs)

(* The gate is closed from the first to the last step of a switch, and for *)
(* good once the destructor has begun.                                     *)
SwitchInv ==
    /\ switchPc # "idle" => mDraining
    /\ switchPc \in {"clear", "swapped"} => \A j \in Jobs : ~PastGate(j)

DtorInv ==
    /\ dtorPc # "alive" =>
         /\ mDraining
         /\ switchPc = "idle"
         /\ \A j \in Jobs : sub[j] \in {"idle", "held", "dispatched", "rejected"}
    /\ dtorPc \in {"stopAging", "stopDrain", "destroyed"} =>
         /\ ~mAgingEnabled
         /\ \A j \in Jobs : ~InFlight(j)
    /\ dtorPc \in {"stopDrain", "destroyed"} => agingPc = "off"
    /\ dtorPc = "destroyed" => drainPc = "stopped"

JobInv ==
    \A j \in Jobs : WaitInv(j) /\ RegisterInv(j) /\ EndInv(j) /\ ResidueInv(j)

IInv ==
    /\ TypeOK /\ QueueOK /\ ThreadInv /\ JobInv
    /\ CountInv /\ SlotInv /\ SwitchInv /\ DtorInv
=============================================================================
