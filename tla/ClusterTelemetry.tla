-------------------------- MODULE ClusterTelemetry --------------------------
(***************************************************************************)
(* What the advisors make of the nodes' metrics: ClusterMetrics, as        *)
(* Balancer computes them for a tick; the TelemetrySnapshot that           *)
(* SimulatedCluster captures for an external process, and its conversion   *)
(* back; and TelemetryAdvisor's choice of an alert.                        *)
(*                                                                         *)
(* A reading is the part of a node's LoadMetrics that they use: its state  *)
(* and its p50 latency, zero as long as it has completed no job.           *)
(***************************************************************************)
EXTENDS NodeState, Sequences, FiniteSetsExt

CONSTANTS
    UnavailablePercent,     \* TelemetryThresholds::unavailableFraction
    OverloadPercent,        \* TelemetryThresholds::overloadFraction
    LatencyThreshold,       \* TelemetryThresholds::latencyThresholdUs
    FractionUnit            \* precision of overloadedFraction: one part in ...

ASSUME TelemetryAssumption ==
    /\ UnavailablePercent \in 1..100
    /\ OverloadPercent \in 1..100
    /\ LatencyThreshold \in Nat
    /\ FractionUnit \in Nat \ {0}

IsActive(r) == r.state \in {"Idle", "Busy"}
IsUnavailable(r) == r.state \in {"Failed", "Offline"}
IsOverloaded(r) == r.state = "Overloaded"
HasCompleted(r) == r.p50 > 0

(* The nodes, by their place in the cluster.                               *)
Active(readings) == {n \in DOMAIN readings : IsActive(readings[n])}
Unavailable(readings) == {n \in DOMAIN readings : IsUnavailable(readings[n])}
Overloaded(readings) == {n \in DOMAIN readings : IsOverloaded(readings[n])}
Completed(readings) == {n \in DOMAIN readings : HasCompleted(readings[n])}

(* The integer mean of the p50 latencies of the nodes S, 0 of no node.     *)
MeanP50(readings, S) ==
    IF S = {} THEN 0
    ELSE MapThenSumSet(LAMBDA n : readings[n].p50, S) \div Cardinality(S)

(* knownNodes leaves out the nodes in a transient state.                   *)
Metrics(active, unavailable, overloaded, p50) ==
    [activeNodes      |-> active,
     unavailableNodes |-> unavailable,
     overloadedNodes  |-> overloaded,
     knownNodes       |-> active + unavailable + overloaded,
     meanP50LatencyUs |-> p50]

(* Balancer::clusterMetrics(): the mean is over the active nodes.          *)
BuildClusterMetrics(readings) ==
    Metrics(Cardinality(Active(readings)),
            Cardinality(Unavailable(readings)),
            Cardinality(Overloaded(readings)),
            MeanP50(readings, Active(readings) \cap Completed(readings)))

(* SimulatedCluster::captureSnapshot(): the mean is over all nodes, and of *)
(* the overloaded nodes only the fraction is kept, as a float.             *)
CaptureSnapshot(readings) ==
    [nodes               |-> Len(readings),
     activeNodes         |-> Cardinality(Active(readings)),
     unavailableNodes    |-> Cardinality(Unavailable(readings)),
     overloadedFraction  |->
        IF readings = <<>> THEN 0
        ELSE (Cardinality(Overloaded(readings)) * FractionUnit) \div Len(readings),
     clusterP50LatencyUs |-> MeanP50(readings, Completed(readings))]

(* A count that is the fraction's product, truncated.                      *)
OverloadedTruncated(snap) ==
    (snap.overloadedFraction * snap.nodes) \div FractionUnit

(* toClusterMetrics(): the count is the fraction's product, rounded.       *)
OverloadedNodes(snap) ==
    (snap.overloadedFraction * snap.nodes + FractionUnit \div 2)
        \div FractionUnit

ToClusterMetrics(snap) ==
    Metrics(snap.activeNodes,
            snap.unavailableNodes,
            OverloadedNodes(snap),
            snap.clusterP50LatencyUs)

(* TelemetryAdvisor::determineAlert().  The empty name is no alert.        *)
DetermineAlert(m) ==
    LET total == m.knownNodes
    IN  IF total = 0 THEN ""
        ELSE IF 100 * m.unavailableNodes >= UnavailablePercent * total
             THEN "alert.node_fault"
        ELSE IF 100 * m.activeNodes < OverloadPercent * total
             THEN "alert.overload"
        ELSE IF m.meanP50LatencyUs >= LatencyThreshold
             THEN "alert.latency"
        ELSE ""
=============================================================================
