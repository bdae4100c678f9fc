---------------------------- MODULE PolicyFactory ---------------------------
(***************************************************************************)
(* makePolicy(): which policy a name stands for.  A policy is a record of  *)
(* its kind and, for Composite, its children in order.                     *)
(***************************************************************************)
EXTENDS Naturals, Sequences

Simple(k) == [kind |-> k, children |-> <<>>]

(* The policies that makePolicy() constructs from their name alone.        *)
Standalone == {"policy.least_loaded", "policy.work_stealing",
               "shortest_job_first", "weighted_capacity",
               "earliest_deadline_first"}

(* A name that is no composite.  Everything unknown is RoundRobin, and so  *)
(* is AffinityRouting without a CostModel.                                 *)
MakeSimple(name, hasCostModel) ==
    IF \/ name \in Standalone
       \/ name = "policy.affinity_routing" /\ hasCostModel
    THEN Simple(name)
    ELSE Simple("policy.round_robin")

(* The default CompositePolicyConfig: the chain of a composite that is     *)
(* itself the child of a composite.                                        *)
DefaultChain == <<"earliest_deadline_first", "least_loaded">>

Chain(names, hasCostModel, Child(_, _)) ==
    IF names = <<>>
    THEN Simple("policy.round_robin")
    ELSE [kind |-> "policy.composite",
          children |-> [i \in 1..Len(names) |-> Child(names[i], hasCostModel)]]

MakeChild(name, hasCostModel) ==
    IF name = "policy.composite"
    THEN Chain(DefaultChain, hasCostModel, MakeSimple)
    ELSE MakeSimple(name, hasCostModel)

MakePolicy(name, hasCostModel, chain) ==
    IF name = "policy.composite"
    THEN Chain(chain, hasCostModel, MakeChild)
    ELSE MakeSimple(name, hasCostModel)
=============================================================================
