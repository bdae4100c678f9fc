----------------------------- MODULE Supervision ----------------------------
(***************************************************************************)
(* A supervised cluster: nodes whose states and latencies change, the      *)
(* advisors and the user that call the FeatureSupervisor, and the Balancer *)
(* it governs.                                                             *)
(*                                                                         *)
(* A tick (SimulatedCluster::tick, BalancerDemo::tick) reads the metrics   *)
(* of one node after the other, while the nodes go on; then it determines  *)
(* the alert and applies it, when the cluster may be in another state.     *)
(***************************************************************************)
EXTENDS FeatureSupervisor, ClusterTelemetry

CONSTANTS
    NodeCount,
    Latencies,          \* the p50 latencies a node can show
    States,             \* the states the nodes go through
    Calls,              \* the calls that are made
    Pushed,             \* the alerts that pushNNAlert() is called with
    Wanted,             \* the policies that users switch to
    MaxChanges,         \* bound: changes of a node
    MaxUserCalls        \* bound: calls other than the ticks

CallKinds == {"tick", "nn", "push", "feature", "warm", "switch"}

Unreadable == "unreadable"      \* no file, no JSON object, no such field
Unknown == "alert.unknown"      \* a name that is no feature

AlertNames == Alerts \cup {"", Unknown}

ASSUME SupervisionAssumption ==
    /\ NodeCount \in Nat
    /\ Latencies \subseteq Nat
    /\ States \subseteq NodeStates
    /\ Calls \subseteq CallKinds
    /\ Pushed \subseteq AlertNames
    /\ Wanted \subseteq Policies
    /\ MaxChanges \in Nat
    /\ MaxUserCalls \in Nat

VARIABLES
    nodes,          \* nodes[n]: what n's metrics() would answer
    inference,      \* the inference file that NNAdvisor reads
    changes,        \* changes of nodes so far
    userCalls       \* calls other than ticks so far

environment == <<nodes, inference, changes, userCalls>>

vars == <<supervisorVars, environment>>

Init ==
    /\ SupervisorInit
    /\ nodes = [n \in 1..NodeCount |-> [state |-> "Idle", p50 |-> 0]]
    /\ inference = Unreadable
    /\ changes = 0
    /\ userCalls = 0

----------------------------------------------------------------------------
(* The nodes: faults, load, and jobs that complete.                        *)

NodeChanges(n, reading) ==
    /\ changes < MaxChanges
    /\ changes' = changes + 1
    /\ nodes' = [nodes EXCEPT ![n] = reading]
    /\ UNCHANGED <<supervisorVars, inference, userCalls>>

NodeState(n, s) ==
    /\ nodes[n].state # s
    /\ NodeChanges(n, [nodes[n] EXCEPT !.state = s])

NodeCompletes(n, p50) ==
    /\ nodes[n].p50 # p50
    /\ NodeChanges(n, [nodes[n] EXCEPT !.p50 = p50])

----------------------------------------------------------------------------
(* TelemetryAdvisor.                                                       *)

Tick(c) ==
    /\ "tick" \in Calls
    /\ call[c] = Idle
    /\ Goes(c, [step |-> "sample", sample |-> <<>>])
    /\ UNCHANGED <<enabled, mActiveAlert, mode, manual, curveSet, inFlight, atGate,
                   environment>>

(* snapshotMetrics(): the next node.                                       *)
SampleNode(c) ==
    /\ call[c].step = "sample"
    /\ Len(call[c].sample) < NodeCount
    /\ Goes(c, [call[c] EXCEPT !.sample = Append(@, nodes[Len(@) + 1])])
    /\ UNCHANGED <<enabled, mActiveAlert, mode, manual, curveSet, inFlight, atGate,
                   environment>>

Evaluate(c) ==
    /\ call[c].step = "sample"
    /\ Len(call[c].sample) = NodeCount
    /\ ApplyChanges(c, DetermineAlert(BuildClusterMetrics(call[c].sample)))
    /\ UNCHANGED environment

----------------------------------------------------------------------------
(* The other calls.                                                        *)

UserCall(c, kind) ==
    /\ kind \in Calls
    /\ call[c] = Idle
    /\ userCalls < MaxUserCalls
    /\ userCalls' = userCalls + 1

(* The network's process reads a snapshot, at its own pace, and writes     *)
(* what it infers; SimulatedCluster renames a finished file over the old   *)
(* snapshot, so that it reads a whole one.                                 *)
Infer(alert) ==
    /\ "nn" \in Calls
    /\ userCalls < MaxUserCalls
    /\ userCalls' = userCalls + 1
    /\ inference' = alert
    /\ UNCHANGED <<supervisorVars, nodes, changes>>

InferFromSnapshot ==
    Infer(DetermineAlert(ToClusterMetrics(CaptureSnapshot(nodes))))

(* The process may also leave what NNAdvisor rejects.                      *)
InferBadly == \E content \in {Unreadable, Unknown} : Infer(content)

(* NNAdvisor::evaluate().  On a file that it cannot use it returns an      *)
(* error and changes nothing, which is a stuttering step here.             *)
EvaluateInference(c) ==
    /\ UserCall(c, "nn")
    /\ inference \in AlertNames \ {Unknown}
    /\ ApplyChanges(c, inference)
    /\ UNCHANGED <<nodes, inference, changes>>

(* BalancerDemo::pushNNAlert(): the name is not checked.                   *)
PushAlert(c, alert) ==
    /\ UserCall(c, "push")
    /\ ApplyChanges(c, alert)
    /\ UNCHANGED <<nodes, inference, changes>>

SetCurve(c, on) ==
    /\ UserCall(c, "feature")
    /\ SetFeatureEnabled(c, Toggles["degradation"], on)
    /\ UNCHANGED <<nodes, inference, changes>>

CheckWarm(c, isWarm) ==
    /\ UserCall(c, "warm")
    /\ UpdateAffinityWarm(c, isWarm)
    /\ UNCHANGED <<nodes, inference, changes>>

UserSwitch(c, name) ==
    /\ UserCall(c, "switch")
    /\ SwitchManually(c, name)
    /\ UNCHANGED <<nodes, inference, changes>>

----------------------------------------------------------------------------
TickStep(c) == Tick(c) \/ SampleNode(c) \/ Evaluate(c)

CallStep(c) == Continue(c) /\ UNCHANGED environment

ReadGate == (PassGate \/ RefusedAtGate) /\ UNCHANGED environment

EndJob == JobEnds /\ UNCHANGED environment

Next ==
    \/ \E n \in 1..NodeCount, s \in States : NodeState(n, s)
    \/ \E n \in 1..NodeCount, p \in Latencies : NodeCompletes(n, p)
    \/ \E c \in Callers :
          \/ TickStep(c)
          \/ CallStep(c)
          \/ EvaluateInference(c)
          \/ \E a \in Pushed : PushAlert(c, a)
          \/ \E on \in BOOLEAN : SetCurve(c, on) \/ CheckWarm(c, on)
          \/ \E p \in Wanted : UserSwitch(c, p)
    \/ InferFromSnapshot \/ InferBadly
    \/ SubmitJob /\ UNCHANGED environment
    \/ ReadGate
    \/ EndJob

Spec == Init /\ [][Next]_vars

(* The demo's frame loop ticks for ever, a call goes on once it has begun, *)
(* a submission reads the gate, and the nodes end the jobs they have       *)
(* taken.  Nobody owes a change of a node, a call of the user, a new file  *)
(* or a submission.  And nobody knocks at a closed gate for ever: a stream *)
(* of submissions that count themselves and are refused could keep         *)
(* switchPolicy() from ever reading a zero.                                *)
Fairness ==
    /\ \A c \in Callers : WF_vars(TickStep(c)) /\ WF_vars(CallStep(c))
    /\ WF_vars(ReadGate)
    /\ WF_vars(EndJob)
    /\ <>[][~RefusedAtGate]_vars

FairSpec == Spec /\ Fairness

----------------------------------------------------------------------------
(* Properties.                                                             *)

InCall(c) == call[c].step \notin {"idle", "sample"}

(* Every variable has its type, and the features respect the graph: one    *)
(* policy and one alert, and with a feature all that it entails.           *)
TypeOK ==
    /\ enabled \subseteq Features
    /\ \A g \in Groups : Cardinality(enabled \cap g) = 1
    /\ Entailed(enabled) \subseteq enabled
    /\ mActiveAlert \in Alerts \cup {""}
    /\ \A c \in Callers :
          call[c].step \in {"idle", "sample", "replace", "notify", "switch", "warm"}
    /\ mode.policy.kind \in Policies
    /\ \A k \in DOMAIN Toggles : mode[k] \in BOOLEAN
    /\ manual \in BOOLEAN /\ curveSet \in BOOLEAN
    /\ inFlight \in 0..MaxInFlight /\ atGate \in 0..inFlight
    /\ nodes \in [1..NodeCount -> [state : NodeStates, p50 : Nat]]
    /\ inference \in AlertNames \cup {Unreadable}
    /\ changes \in 0..MaxChanges /\ userCalls \in 0..MaxUserCalls

(* Between the calls of the supervisor, the alert it shows, the features   *)
(* of its manager and the Balancer's policy and toggles say the same: no   *)
(* transition leaves a mode of the last alert on, or one of the new alert  *)
(* off (FeatureSupervisor::applyChanges, registerObserver).  A policy that *)
(* a user has switched to stays until an alert brings another one, and the *)
(* degradation curve, on by default, is not followed until it is set.      *)
SupervisorAgrees ==
    (\A c \in Callers : ~InCall(c)) =>
        /\ Target(mActiveAlert) \in enabled
        /\ \A k \in DOMAIN Toggles :
              \/ mode[k] = (Toggles[k] \in enabled)
              \/ k = "degradation" /\ ~curveSet
        /\ manual \/ mode.policy.kind \in enabled

(* What is left of the Balancer here still keeps the policy from being     *)
(* exchanged while anything that has passed the gate has not ended         *)
(* (Balancer::submit, switchPolicy).                                       *)
Gate == INSTANCE DrainGate
            WITH Entrants <- 1..MaxInFlight,
                 behind <- 1..(inFlight - atGate),
                 policy <- mode.policy

ImplementsGate == Gate!Spec

(* The alert that an external process would choose from a snapshot, by the *)
(* thresholds of TelemetryAdvisor, is the one that a tick at that moment   *)
(* would choose, although the snapshot keeps a rounded fraction instead of *)
(* the number of overloaded nodes.  Only whether latency is high may be    *)
(* judged differently, and only when a node that is not active counts.     *)
SnapshotAgrees ==
    LET live == DetermineAlert(BuildClusterMetrics(nodes))
        seen == DetermineAlert(ToClusterMetrics(CaptureSnapshot(nodes)))
    IN  \/ seen = live
        \/ /\ {seen, live} = {"", "alert.latency"}
           /\ \E n \in 1..NodeCount :
                 ~IsActive(nodes[n]) /\ HasCompleted(nodes[n])

(* Whatever the alerts, pushes and switches were before, once the cluster  *)
(* stays as it is the ticks bring the alert that its metrics call for, and *)
(* keep it (TelemetryAdvisor::evaluate).                                   *)
AlertSettles ==
    <>[](mActiveAlert = DetermineAlert(BuildClusterMetrics(nodes)))

(* Every call of the supervisor returns: a switch that its observer began  *)
(* finds the jobs in flight ended, because nothing passes the gate         *)
(* meanwhile (Balancer::switchPolicy), and those who are refused at the    *)
(* gate give back what they have counted.                                  *)
CallsReturn == \A c \in Callers : InCall(c) ~> ~InCall(c)
=============================================================================
