---------------------------- MODULE FeatureGraph ----------------------------
(***************************************************************************)
(* The features of BalancerFeatures.h, the graph that FeatureSupervisor    *)
(* builds of them, and the FeatureManager that keeps the set of enabled    *)
(* features.  The manager is a library outside of the repository: its      *)
(* operations are what FeatureSupervisor.h, the supervisor's tests and     *)
(* test_feature_manager_cascade_probe.cpp rely on.                         *)
(***************************************************************************)
EXTENDS Naturals, FiniteSets

Alerts == {"alert.none", "alert.overload", "alert.latency", "alert.node_fault"}

Policies == {"policy.round_robin", "policy.least_loaded",
             "policy.affinity_routing", "policy.work_stealing",
             "policy.composite"}

Behaviours == {"feature.affinity_matrix", "feature.affinity_matrix_warm",
               "feature.aging", "feature.degradation_curve"}

Admissions == {"admission.bulk_shed", "admission.strict"}

Features == Alerts \cup Policies \cup Behaviours \cup Admissions

(* buildGraph(): the mutually exclusive groups and the Entails edges.      *)
Groups == {Alerts, Policies}

(* A graph in which alert.node_fault brings no policy of its own.          *)
EntailsNoFaultPolicy(f) ==
    CASE f = "alert.none"       -> {"policy.round_robin"}
      [] f = "alert.overload"   -> {"policy.work_stealing", "admission.bulk_shed"}
      [] f = "alert.latency"    -> {"policy.round_robin", "admission.bulk_shed",
                                    "feature.aging"}
      [] f = "alert.node_fault" -> {"admission.strict"}
      [] OTHER                  -> {}

Entails(f) ==
    CASE f = "alert.none"       -> {"policy.round_robin"}
      [] f = "alert.overload"   -> {"policy.work_stealing", "admission.bulk_shed"}
      [] f = "alert.latency"    -> {"policy.round_robin", "admission.bulk_shed",
                                    "feature.aging"}
      [] f = "alert.node_fault" -> {"policy.round_robin", "admission.strict"}
      [] OTHER                  -> {}

Closure(f) == {f} \cup Entails(f)

----------------------------------------------------------------------------
(* FeatureManager, on the set S of enabled features.                       *)

Entailed(S) == UNION {Entails(f) : f \in S}

(* Disabling f takes with it what f alone entails (reference counts).      *)
Without(S, f) ==
    IF f \in S THEN S \ ({f} \cup (Entails(f) \ Entailed(S \ {f}))) ELSE S

(* A member of a group is refused while another member is enabled.         *)
Conflicts(S, f) ==
    \E g \in Groups : Cardinality((S \cup Closure(f)) \cap g) > 1

(* replace(), on the strictest reading: what is not enabled cannot be      *)
(* replaced.                                                               *)
CanReplace(S, from, to) ==
    /\ from \in S
    /\ to \in Features
    /\ ~Conflicts(Without(S, from), to)

Replaced(S, from, to) == Without(S, from) \cup Closure(to)

(* The FeatureChange records that take S to T.                             *)
Changes(S, T) == ((T \ S) \X {TRUE}) \cup ((S \ T) \X {FALSE})
=============================================================================
