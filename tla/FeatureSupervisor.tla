------------------------- MODULE FeatureSupervisor --------------------------
(***************************************************************************)
(* FeatureSupervisor over a FeatureManager and a Balancer: applyChanges(), *)
(* setFeatureEnabled(), updateAffinityWarm() and the observer that turns   *)
(* feature changes into calls of the Balancer.                             *)
(*                                                                         *)
(* A call is not atomic.  It reads mActiveAlert, which no lock protects;   *)
(* has the manager commit, under the manager's lock; runs the observer,    *)
(* outside of it, which takes the changes one by one and may wait in       *)
(* switchPolicy(); and stores mActiveAlert.  Other threads come between.   *)
(***************************************************************************)
EXTENDS FeatureGraph, PolicyFactory

CONSTANTS
    Callers,            \* the threads that call the supervisor
    CompositeChain,     \* BalancerConfig::composite
    MaxInFlight         \* bound: submissions and jobs counted at a time

ASSUME SupervisorAssumption ==
    /\ IsFiniteSet(Callers)
    /\ CompositeChain \in Seq(STRING)
    /\ MaxInFlight \in Nat \ {0}

VARIABLES
    enabled,        \* mManager: the enabled features
    mActiveAlert,   \* "" in the idle state
    call,           \* call[c]: where caller c is in its call
    mode,           \* the Balancer's policy and runtime toggles
    manual,         \* the policy is one that a user has switched to (ghost)
    curveSet,       \* a change of the degradation curve has been observed (ghost)
    inFlight,       \* the Balancer's mSubmittedCount
    atGate          \* of these, the submissions that have yet to read the gate

supervisorVars ==
    <<enabled, mActiveAlert, call, mode, manual, curveSet, inFlight, atGate>>

Idle == [step |-> "idle"]

Target(alert) == IF alert = "" THEN "alert.none" ELSE alert

Shown(alert) == IF alert = "alert.none" THEN "" ELSE alert

(* The Balancer is constructed with LeastLoaded; the supervisor's          *)
(* constructor enables alert.none, and its observer switches the policy.   *)
(* The toggles are off, but for the CostModel's degradation.               *)
SupervisorInit ==
    /\ enabled = Closure("alert.none")
    /\ mActiveAlert = ""
    /\ call = [c \in Callers |-> Idle]
    /\ mode = [policy |-> MakePolicy("policy.round_robin", TRUE, CompositeChain),
               aging |-> FALSE, degradation |-> TRUE,
               shed |-> FALSE, strict |-> FALSE]
    /\ manual = FALSE
    /\ curveSet = FALSE
    /\ inFlight = 0 /\ atGate = 0

Goes(c, to) == call' = [call EXCEPT ![c] = to]

----------------------------------------------------------------------------
(* applyChanges(alert), called by c; "" and alert.none are the same.       *)

(* The idle state's empty name is handed to the manager as it is.          *)
ApplyToEmptyName(c, alert) ==
    /\ Goes(c, IF Target(mActiveAlert) = Target(alert)
               THEN Idle
               ELSE [step |-> "replace", from |-> mActiveAlert,
                     to |-> Target(alert)])
    /\ UNCHANGED <<enabled, mActiveAlert, mode, manual, curveSet, inFlight, atGate>>

(* Returns at once when the alert is active already.                       *)
ApplyChanges(c, alert) ==
    /\ Goes(c, IF Target(mActiveAlert) = Target(alert)
               THEN Idle
               ELSE [step |-> "replace", from |-> Target(mActiveAlert),
                     to |-> Target(alert)])
    /\ UNCHANGED <<enabled, mActiveAlert, mode, manual, curveSet, inFlight, atGate>>

(* The manager commits S; then the observer runs, then the call stores     *)
(* mActiveAlert (an alert) or returns.                                     *)
Commit(c, S, alert) ==
    /\ enabled' = S
    /\ Goes(c, [step |-> "notify", changes |-> Changes(enabled, S),
                to |-> alert])
    /\ UNCHANGED <<mActiveAlert, mode, manual, curveSet, inFlight, atGate>>

Replace(c) ==
    /\ call[c].step = "replace"
    /\ CanReplace(enabled, call[c].from, call[c].to)
    /\ Commit(c, Replaced(enabled, call[c].from, call[c].to), call[c].to)

(* The manager refuses: the call returns the error.                        *)
ReplaceRefused(c) ==
    /\ call[c].step = "replace"
    /\ ~CanReplace(enabled, call[c].from, call[c].to)
    /\ Goes(c, Idle)
    /\ UNCHANGED <<enabled, mActiveAlert, mode, manual, curveSet, inFlight, atGate>>

StoreActiveAlert(c) ==
    /\ call[c].step = "notify"
    /\ call[c].changes = {}
    /\ mActiveAlert' =
           IF call[c].to \in Alerts THEN Shown(call[c].to) ELSE mActiveAlert
    /\ Goes(c, Idle)
    /\ UNCHANGED <<enabled, mode, manual, curveSet, inFlight, atGate>>

----------------------------------------------------------------------------
(* setFeatureEnabled() of a behavioural feature that no alert entails, the *)
(* use that it is meant for.                                               *)
NoAlert == "no alert"

SetFeatureEnabled(c, f, on) ==
    /\ f \in Behaviours \cup Admissions
    /\ Commit(c, IF on THEN enabled \cup Closure(f) ELSE Without(enabled, f),
              NoAlert)

(* updateAffinityWarm() asks the matrix, which learns at its own pace, and *)
(* reads the flag, before it sets it.                                      *)
Warm == "feature.affinity_matrix_warm"

UpdateAffinityWarm(c, isWarm) ==
    /\ Goes(c, IF isWarm = (Warm \in enabled)
               THEN Idle
               ELSE [step |-> "warm", on |-> isWarm])
    /\ UNCHANGED <<enabled, mActiveAlert, mode, manual, curveSet, inFlight, atGate>>

SetAffinityWarm(c) ==
    /\ call[c].step = "warm"
    /\ SetFeatureEnabled(c, Warm, call[c].on)

----------------------------------------------------------------------------
(* The observer of registerObserver(), in the calling thread.              *)

(* The Balancer's toggles, by the feature that each of them follows.       *)
Toggles == [aging       |-> "feature.aging",
            degradation |-> "feature.degradation_curve",
            shed        |-> "admission.bulk_shed",
            strict      |-> "admission.strict"]

(* A policy that is disabled is ignored, and so is Composite.              *)
Switches(change) ==
    /\ change[1] \in Policies \ {"policy.composite"}
    /\ change[2]

(* An observer that reacts to a feature that is enabled only.              *)
TurnedOn(k, change) ==
    mode[k] \/ (Toggles[k] = change[1] /\ change[2])

(* The toggle k after the change.                                          *)
Toggled(k, change) ==
    IF Toggles[k] = change[1] THEN change[2] ELSE mode[k]

(* The order of the changes in the list is the manager's.                  *)
ObserveChange(c) ==
    /\ call[c].step = "notify"
    /\ \E change \in call[c].changes :
          /\ ~Switches(change)
          /\ Goes(c, [call[c] EXCEPT !.changes = @ \ {change}])
          /\ mode' = [k \in DOMAIN mode |->
                         IF k = "policy" THEN mode[k] ELSE Toggled(k, change)]
          /\ curveSet' = (curveSet \/ change[1] = Toggles["degradation"])
    /\ UNCHANGED <<enabled, mActiveAlert, manual, inFlight, atGate>>

(* Balancer::switchPolicy(), one caller at a time (mSwitchMutex): the gate *)
(* is closed, and stays so until the jobs in flight have ended.            *)
Draining == \E c \in Callers : call[c].step = "switch"

BeginSwitch(c, policy, byUser, next) ==
    /\ ~Draining
    /\ Goes(c, [step |-> "switch", policy |-> policy, byUser |-> byUser,
                next |-> next])
    /\ UNCHANGED <<enabled, mActiveAlert, mode, manual, curveSet, inFlight, atGate>>

ObservePolicy(c) ==
    /\ call[c].step = "notify"
    /\ \E change \in call[c].changes :
          /\ Switches(change)
          /\ BeginSwitch(c, MakePolicy(change[1], TRUE, CompositeChain), FALSE,
                         [call[c] EXCEPT !.changes = @ \ {change}])

(* BalancerDemo::switchPolicy(): past the supervisor.                      *)
SwitchManually(c, name) ==
    BeginSwitch(c, MakePolicy(name, TRUE, CompositeChain), TRUE, Idle)

CompleteSwitch(c) ==
    /\ call[c].step = "switch"
    /\ inFlight = 0
    /\ mode' = [mode EXCEPT !.policy = call[c].policy]
    /\ manual' = call[c].byUser
    /\ Goes(c, call[c].next)
    /\ UNCHANGED <<enabled, mActiveAlert, curveSet, inFlight, atGate>>

----------------------------------------------------------------------------
(* The Balancer's jobs, as far as switchPolicy() waits for them: submit()  *)
(* counts itself, reads the gate, and gives the count back when it finds   *)
(* it closed.                                                              *)
SubmitJob ==
    /\ inFlight < MaxInFlight
    /\ inFlight' = inFlight + 1
    /\ atGate' = atGate + 1
    /\ UNCHANGED <<enabled, mActiveAlert, call, mode, manual, curveSet>>

(* A gate that does not stop submissions during a switch.                  *)
PassUnasked ==
    /\ atGate > 0
    /\ atGate' = atGate - 1
    /\ UNCHANGED <<enabled, mActiveAlert, call, mode, manual, curveSet, inFlight>>

PassGate ==
    /\ atGate > 0
    /\ ~Draining
    /\ atGate' = atGate - 1
    /\ UNCHANGED <<enabled, mActiveAlert, call, mode, manual, curveSet, inFlight>>

RefusedAtGate ==
    /\ atGate > 0
    /\ Draining
    /\ atGate' = atGate - 1
    /\ inFlight' = inFlight - 1
    /\ UNCHANGED <<enabled, mActiveAlert, call, mode, manual, curveSet>>

JobEnds ==
    /\ inFlight > atGate
    /\ inFlight' = inFlight - 1
    /\ UNCHANGED <<enabled, mActiveAlert, call, mode, manual, curveSet, atGate>>

(* What a call does once it is under way.                                  *)
Continue(c) ==
    \/ Replace(c) \/ ReplaceRefused(c) \/ StoreActiveAlert(c)
    \/ SetAffinityWarm(c)
    \/ ObserveChange(c) \/ ObservePolicy(c) \/ CompleteSwitch(c)
=============================================================================
