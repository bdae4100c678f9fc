-------------------------- MODULE SupervisionProofs --------------------------
(***************************************************************************)
(* Proofs about the supervised cluster, for any number of callers, nodes,  *)
(* latencies and calls: the features that are enabled are those of one     *)
(* alert, and what callers have set besides; the Balancer's policy and     *)
(* toggles follow them as long as no two calls overlap; and the rounding   *)
(* of a snapshot's fraction changes no alert.                              *)
(***************************************************************************)
EXTENDS Supervision, FiniteSetTheorems, SequenceTheorems, TLAPS

-----------------------------------------------------------------------------
(* The feature graph.                                                      *)

(* The features that are set on their own; no alert entails them.          *)
Extra == {"feature.degradation_curve", "feature.affinity_matrix_warm"}

(* The policies that alerts bring.                                         *)
AlertPolicies == {"policy.round_robin", "policy.work_stealing"}

Serves(S, a) == Closure(a) \subseteq S /\ S \subseteq Closure(a) \cup Extra

FollowsAlert(S) == \E a \in Alerts : Serves(S, a)

LEMMA NothingElseEntails == \A f : f \notin Alerts => Entails(f) = {}
BY DEF Alerts, Entails

LEMMA AlertClosure ==
    ASSUME NEW a \in Alerts
    PROVE  /\ Closure(a) \subseteq Features
           /\ Closure(a) \cap Alerts = {a}
           /\ \E p \in AlertPolicies : Closure(a) \cap Policies = {p}
           /\ Closure(a) \cap Extra = {}
           /\ Entails(a) \cap Alerts = {}
<1>1. CASE a = "alert.none"
  BY <1>1 DEF Alerts, Policies, AlertPolicies, Behaviours, Admissions, Features,
              Closure, Entails, Extra
<1>2. CASE a = "alert.overload"
  BY <1>2 DEF Alerts, Policies, AlertPolicies, Behaviours, Admissions, Features,
              Closure, Entails, Extra
<1>3. CASE a = "alert.latency"
  BY <1>3 DEF Alerts, Policies, AlertPolicies, Behaviours, Admissions, Features,
              Closure, Entails, Extra
<1>4. CASE a = "alert.node_fault"
  BY <1>4 DEF Alerts, Policies, AlertPolicies, Behaviours, Admissions, Features,
              Closure, Entails, Extra
<1> QED
  BY <1>1, <1>2, <1>3, <1>4 DEF Alerts

LEMMA ExtraFeatures ==
    /\ Extra \subseteq Features
    /\ Extra \cap (Alerts \cup Policies) = {}
    /\ AlertPolicies \subseteq Policies \ {"policy.composite"}
    /\ Alerts \cap Policies = {}
BY DEF Alerts, Policies, AlertPolicies, Behaviours, Admissions, Features, Extra

(* Features that serve an alert hold it, one policy, and all that they     *)
(* entail.                                                                 *)
LEMMA ServesOne ==
    ASSUME NEW S, NEW a \in Alerts, Serves(S, a)
    PROVE  /\ S \subseteq Features
           /\ S \cap Alerts = {a}
           /\ \E p \in AlertPolicies : S \cap Policies = {p}
           /\ Entailed(S) \subseteq S
<1>1. S \subseteq Features
  BY AlertClosure, ExtraFeatures DEF Serves
<1>2. S \cap Alerts = {a}
  BY AlertClosure, ExtraFeatures DEF Serves
<1>3. \E p \in AlertPolicies : S \cap Policies = {p}
  BY AlertClosure, ExtraFeatures DEF Serves
<1>4. Entailed(S) \subseteq S
  <2> SUFFICES ASSUME NEW f \in S, NEW g \in Entails(f)
               PROVE  g \in S
    BY DEF Entailed
  <2>1. f = a
    BY <1>2, NothingElseEntails
  <2> QED
    BY <2>1 DEF Serves, Closure
<1> QED
  BY <1>1, <1>2, <1>3, <1>4

(* The alert that is enabled is the one that the features serve.           *)
LEMMA ServedAlert ==
    ASSUME NEW S, FollowsAlert(S), NEW a \in Alerts, a \in S
    PROVE  Serves(S, a)
<1>1. PICK b \in Alerts : Serves(S, b)
  BY DEF FollowsAlert
<1>2. S \cap Alerts = {b}
  BY <1>1, ServesOne
<1>3. a = b
  BY <1>2
<1> QED
  BY <1>1, <1>3

(* Without its alert, S is what has been set besides; so every alert can   *)
(* take its place.                                                         *)
LEMMA ReplaceServes ==
    ASSUME NEW S, NEW from \in Alerts, Serves(S, from), NEW to \in Alerts
    PROVE  /\ CanReplace(S, from, to)
           /\ Serves(Replaced(S, from, to), to)
<1>1. from \in S
  BY DEF Serves, Closure
<1>2. Entailed(S \ {from}) = {}
  <2>1. \A f \in S \ {from} : Entails(f) = {}
    BY ServesOne, NothingElseEntails
  <2> QED
    BY <2>1 DEF Entailed
<1>3. Without(S, from) \subseteq Extra
  BY <1>1, <1>2 DEF Without, Serves, Closure
<1>4. Serves(Replaced(S, from, to), to)
  BY <1>3 DEF Serves, Replaced
<1>5. ~Conflicts(Without(S, from), to)
  <2>1. ASSUME NEW g \in Groups
        PROVE  \E x : (Without(S, from) \cup Closure(to)) \cap g = {x}
    BY <1>4, ServesOne DEF Groups, Replaced
  <2>2. ASSUME NEW T, \E x : T = {x}
        PROVE  ~(Cardinality(T) > 1)
    BY <2>2, FS_Singleton
  <2> QED
    BY <2>1, <2>2 DEF Conflicts
<1>6. to \in Features
  BY DEF Features
<1> QED
  BY <1>1, <1>4, <1>5, <1>6 DEF CanReplace

(* A feature that is set on its own leaves the alert's alone.              *)
LEMMA SetServes ==
    ASSUME NEW S, NEW a \in Alerts, Serves(S, a), NEW f \in Extra
    PROVE  /\ Serves(S \cup Closure(f), a)
           /\ Serves(Without(S, f), a)
<1>1. Entails(f) = {}
  BY ExtraFeatures, NothingElseEntails
<1>2. f \notin Closure(a)
  BY AlertClosure
<1>3. Without(S, f) = S \ {f}
  BY <1>1 DEF Without
<1> QED
  BY <1>1, <1>2, <1>3 DEF Serves, Closure

-----------------------------------------------------------------------------
(* What a call can be, step by step.  Only a switch that the observer      *)
(* began has changes left to go back to.                                   *)

Readings == [state : NodeStates, p50 : Nat]

SampleCall(k) ==
    /\ k = [step |-> "sample", sample |-> k.sample]
    /\ k.sample \in Seq(Readings)

ReplaceCall(k) ==
    /\ k = [step |-> "replace", from |-> k.from, to |-> k.to]
    /\ k.from \in Alerts
    /\ k.to \in Alerts \cup {Unknown}

NotifyCall(k) ==
    /\ k = [step |-> "notify", changes |-> k.changes, to |-> k.to]
    /\ k.changes \subseteq Features \X BOOLEAN
    /\ k.to \in Alerts \cup {NoAlert}

SwitchCall(k) ==
    /\ k = [step |-> "switch", policy |-> k.policy, byUser |-> k.byUser,
            next |-> k.next]
    /\ k.policy.kind \in Policies
    /\ \/ k.byUser = TRUE /\ k.next = Idle
       \/ k.byUser = FALSE /\ NotifyCall(k.next)

WarmCall(k) ==
    /\ k = [step |-> "warm", on |-> k.on]
    /\ k.on \in BOOLEAN

CallOK(k) ==
    \/ k = Idle \/ SampleCall(k) \/ ReplaceCall(k)
    \/ NotifyCall(k) \/ SwitchCall(k) \/ WarmCall(k)

CallInv ==
    /\ call = [c \in Callers |-> call[c]]
    /\ \A c \in Callers : CallOK(call[c])

ModeKeys == {"policy", "aging", "degradation", "shed", "strict"}

ModeInv ==
    /\ DOMAIN mode = ModeKeys
    /\ mode.policy.kind \in Policies
    /\ \A k \in DOMAIN Toggles : mode[k] \in BOOLEAN
    /\ manual \in BOOLEAN
    /\ curveSet \in BOOLEAN

FeatureInv ==
    /\ FollowsAlert(enabled)
    /\ mActiveAlert \in Alerts \cup {""}

JobInv == inFlight \in 0..MaxInFlight /\ atGate \in 0..inFlight

EnvironmentInv ==
    /\ nodes \in [1..NodeCount -> Readings]
    /\ inference \in AlertNames \cup {Unreadable}
    /\ changes \in 0..MaxChanges
    /\ userCalls \in 0..MaxUserCalls

SupervisorTyped == FeatureInv /\ CallInv /\ ModeInv /\ JobInv

SupervisionInv == SupervisorTyped /\ EnvironmentInv

-----------------------------------------------------------------------------
(* Small facts about calls, policies and alerts.                           *)

LEMMA CallGoes ==
    ASSUME CallInv, NEW c \in Callers, NEW k, Goes(c, k), CallOK(k)
    PROVE  CallInv'
BY DEF CallInv, Goes

(* The step of a call tells its kind.                                      *)
LEMMA CallKind ==
    ASSUME NEW k, CallOK(k)
    PROVE  /\ k.step = "idle" => k = Idle
           /\ k.step = "sample" => SampleCall(k)
           /\ k.step = "replace" => ReplaceCall(k)
           /\ k.step = "notify" => NotifyCall(k)
           /\ k.step = "switch" => SwitchCall(k)
           /\ k.step = "warm" => WarmCall(k)
           /\ k.step \in {"idle", "sample", "replace", "notify", "switch", "warm"}
<1>1. CASE k = Idle
  BY <1>1 DEF Idle
<1>2. CASE SampleCall(k)
  <2>1. k.step = "sample"
    BY <1>2 DEF SampleCall
  <2> QED
    BY <1>2, <2>1
<1>3. CASE ReplaceCall(k)
  <2>1. k.step = "replace"
    BY <1>3 DEF ReplaceCall
  <2> QED
    BY <1>3, <2>1
<1>4. CASE NotifyCall(k)
  <2>1. k.step = "notify"
    BY <1>4 DEF NotifyCall
  <2> QED
    BY <1>4, <2>1
<1>5. CASE SwitchCall(k)
  <2>1. k.step = "switch"
    BY <1>5 DEF SwitchCall
  <2> QED
    BY <1>5, <2>1
<1>6. CASE WarmCall(k)
  <2>1. k.step = "warm"
    BY <1>6 DEF WarmCall
  <2> QED
    BY <1>6, <2>1
<1> QED
  BY <1>1, <1>2, <1>3, <1>4, <1>5, <1>6 DEF CallOK

(* makePolicy() of a policy's name makes a policy, and of a name that an   *)
(* alert brings, that policy.                                              *)
LEMMA MadePolicy ==
    /\ \A name \in Policies :
          MakePolicy(name, TRUE, CompositeChain).kind \in Policies
    /\ \A name \in AlertPolicies :
          MakePolicy(name, TRUE, CompositeChain).kind = name
<1>1. ASSUME NEW name \in Policies, name # "policy.composite"
      PROVE  MakePolicy(name, TRUE, CompositeChain).kind \in Policies
  BY <1>1 DEF MakePolicy, MakeSimple, Simple, Policies
<1>2. MakePolicy("policy.composite", TRUE, CompositeChain).kind \in Policies
  <2>1. CASE CompositeChain = <<>>
    BY <2>1 DEF MakePolicy, Chain, Simple, Policies
  <2>2. CASE CompositeChain # <<>>
    BY <2>2 DEF MakePolicy, Chain, Policies
  <2> QED
    BY <2>1, <2>2
<1>3. ASSUME NEW name \in AlertPolicies
      PROVE  MakePolicy(name, TRUE, CompositeChain).kind = name
  BY DEF MakePolicy, MakeSimple, Simple, AlertPolicies, Standalone
<1> QED
  BY <1>1, <1>2, <1>3

LEMMA DeterminedAlert == \A m : DetermineAlert(m) \in Alerts \cup {""}
BY DEF DetermineAlert, Alerts

LEMMA ChangesTyped ==
    ASSUME NEW S, NEW T, S \subseteq Features, T \subseteq Features
    PROVE  Changes(S, T) \subseteq Features \X BOOLEAN
BY DEF Changes

-----------------------------------------------------------------------------
(* Every step of a call keeps the types.                                   *)

LEMMA ApplyKeepsTypes ==
    ASSUME SupervisorTyped, NEW c \in Callers,
           NEW alert \in AlertNames, ApplyChanges(c, alert)
    PROVE  SupervisorTyped'
<1>1. Target(mActiveAlert) \in Alerts
  BY DEF SupervisorTyped, FeatureInv, Target, Alerts
<1>2. Target(alert) \in Alerts \cup {Unknown}
  BY DEF AlertNames, Target, Alerts
<1> DEFINE k == [step |-> "replace", from |-> Target(mActiveAlert),
                 to |-> Target(alert)]
<1>3. CallOK(Idle) /\ CallOK(k)
  BY <1>1, <1>2 DEF CallOK, ReplaceCall
<1>4. CallInv'
  <2>1. PICK next \in {Idle, k} : Goes(c, next)
    BY DEF ApplyChanges
  <2> QED
    BY <1>3, <2>1, CallGoes DEF SupervisorTyped
<1> QED
  BY <1>4 DEF ApplyChanges, SupervisorTyped, FeatureInv, ModeInv, JobInv

LEMMA CommitKeepsTypes ==
    ASSUME SupervisorTyped, NEW c \in Callers, NEW S, FollowsAlert(S),
           NEW alert \in Alerts \cup {NoAlert}, Commit(c, S, alert)
    PROVE  SupervisorTyped'
<1>1. enabled \subseteq Features /\ S \subseteq Features
  BY ServesOne DEF SupervisorTyped, FeatureInv, FollowsAlert
<1>2. CallOK([step |-> "notify", changes |-> Changes(enabled, S), to |-> alert])
  BY <1>1, ChangesTyped DEF CallOK, NotifyCall
<1>3. CallInv'
  BY <1>2, CallGoes DEF Commit, SupervisorTyped
<1> QED
  BY <1>3 DEF Commit, SupervisorTyped, FeatureInv, ModeInv, JobInv

LEMMA ReplaceKeepsTypes ==
    ASSUME SupervisorTyped, NEW c \in Callers, Replace(c)
    PROVE  SupervisorTyped'
<1>1. ReplaceCall(call[c])
  BY CallKind DEF Replace, SupervisorTyped, CallInv
<1>2. call[c].from \in enabled /\ call[c].to \in Features
  BY DEF Replace, CanReplace
<1>3. call[c].from \in Alerts /\ call[c].to \in Alerts
  BY <1>1, <1>2 DEF ReplaceCall, Features, Alerts, Policies, Behaviours,
                    Admissions, Unknown
<1>4. Serves(enabled, call[c].from)
  BY <1>2, <1>3, ServedAlert DEF SupervisorTyped, FeatureInv
<1>5. FollowsAlert(Replaced(enabled, call[c].from, call[c].to))
  BY <1>3, <1>4, ReplaceServes DEF FollowsAlert
<1> QED
  BY <1>3, <1>5, CommitKeepsTypes DEF Replace

LEMMA SetKeepsTypes ==
    ASSUME SupervisorTyped, NEW c \in Callers, NEW f \in Extra,
           NEW on \in BOOLEAN, SetFeatureEnabled(c, f, on)
    PROVE  SupervisorTyped'
<1> DEFINE S == IF on THEN enabled \cup Closure(f) ELSE Without(enabled, f)
<1>1. PICK a \in Alerts : Serves(enabled, a)
  BY DEF SupervisorTyped, FeatureInv, FollowsAlert
<1>2. FollowsAlert(S)
  BY <1>1, SetServes DEF FollowsAlert
<1>3. Commit(c, S, NoAlert)
  BY DEF SetFeatureEnabled
<1> QED
  BY <1>2, <1>3, CommitKeepsTypes

LEMMA ReturnKeepsTypes ==
    ASSUME SupervisorTyped, NEW c \in Callers,
           ReplaceRefused(c) \/ StoreActiveAlert(c)
    PROVE  SupervisorTyped'
<1>1. CallInv'
  BY CallGoes DEF ReplaceRefused, StoreActiveAlert, CallOK, SupervisorTyped
<1>2. mActiveAlert' \in Alerts \cup {""}
  BY DEF ReplaceRefused, StoreActiveAlert, Shown, SupervisorTyped, FeatureInv
<1> QED
  BY <1>1, <1>2 DEF ReplaceRefused, StoreActiveAlert, SupervisorTyped, FeatureInv,
                    ModeInv, JobInv

LEMMA WarmKeepsTypes ==
    ASSUME SupervisorTyped, NEW c \in Callers,
           \/ SetAffinityWarm(c)
           \/ \E isWarm \in BOOLEAN : UpdateAffinityWarm(c, isWarm)
    PROVE  SupervisorTyped'
<1>1. CASE SetAffinityWarm(c)
  <2>1. call[c].on \in BOOLEAN
    BY <1>1, CallKind DEF SetAffinityWarm, WarmCall, SupervisorTyped, CallInv
  <2> QED
    BY <1>1, <2>1, SetKeepsTypes DEF SetAffinityWarm, Warm, Extra
<1>2. ASSUME NEW isWarm \in BOOLEAN, UpdateAffinityWarm(c, isWarm)
      PROVE  SupervisorTyped'
  <2> DEFINE k == [step |-> "warm", on |-> isWarm]
  <2>1. CallOK(Idle) /\ CallOK(k)
    BY DEF CallOK, WarmCall
  <2>2. PICK next \in {Idle, k} : Goes(c, next)
    BY <1>2 DEF UpdateAffinityWarm
  <2>3. CallInv'
    BY <2>1, <2>2, CallGoes DEF SupervisorTyped
  <2> QED
    BY <1>2, <2>3 DEF UpdateAffinityWarm, SupervisorTyped, FeatureInv, ModeInv, JobInv
<1> QED
  BY <1>1, <1>2

(* What is left of a list of changes.                                      *)
LEMMA Remaining ==
    ASSUME NEW k, NotifyCall(k), NEW change
    PROVE  NotifyCall([k EXCEPT !.changes = @ \ {change}])
BY DEF NotifyCall

LEMMA ObserveKeepsTypes ==
    ASSUME SupervisorTyped, NEW c \in Callers, ObserveChange(c)
    PROVE  SupervisorTyped'
<1>1. NotifyCall(call[c])
  BY CallKind DEF ObserveChange, SupervisorTyped, CallInv
<1>2. PICK change \in call[c].changes :
         /\ Goes(c, [call[c] EXCEPT !.changes = @ \ {change}])
         /\ mode' = [k \in DOMAIN mode |->
                        IF k = "policy" THEN mode[k] ELSE Toggled(k, change)]
         /\ curveSet' = (curveSet \/ change[1] = Toggles["degradation"])
  BY DEF ObserveChange
<1>3. CallInv'
  BY <1>1, <1>2, CallGoes, Remaining DEF CallOK, SupervisorTyped
<1>4. change[2] \in BOOLEAN
  BY <1>1 DEF NotifyCall
<1>5. DOMAIN mode = ModeKeys
  BY DEF SupervisorTyped, ModeInv
<1>6. DOMAIN mode' = ModeKeys
  BY <1>2, <1>5
<1>7. mode'.policy = mode.policy
  BY <1>2, <1>5 DEF ModeKeys
<1>8. \A k \in DOMAIN Toggles : mode'[k] \in BOOLEAN
  <2> SUFFICES ASSUME NEW k \in DOMAIN Toggles
               PROVE  mode'[k] \in BOOLEAN
    OBVIOUS
  <2>1. k \in ModeKeys /\ k # "policy"
    BY DEF Toggles, ModeKeys
  <2>2. mode'[k] = Toggled(k, change)
    BY <1>2, <1>5, <2>1
  <2>3. mode[k] \in BOOLEAN
    BY DEF SupervisorTyped, ModeInv
  <2> QED
    BY <1>4, <2>2, <2>3 DEF Toggled
<1>9. ModeInv'
  BY <1>2, <1>6, <1>7, <1>8 DEF ObserveChange, SupervisorTyped, ModeInv, Toggles
<1> QED
  BY <1>3, <1>9 DEF ObserveChange, SupervisorTyped, FeatureInv, JobInv

LEMMA BeginKeepsTypes ==
    ASSUME SupervisorTyped, NEW c \in Callers, NEW name \in Policies,
           \/ SwitchManually(c, name)
           \/ ObservePolicy(c)
    PROVE  SupervisorTyped'
<1>1. CallInv'
  <2>1. CASE SwitchManually(c, name)
    BY <2>1, MadePolicy, CallGoes
       DEF SwitchManually, BeginSwitch, CallOK, SwitchCall, SupervisorTyped
  <2>2. CASE ObservePolicy(c)
    <3>1. NotifyCall(call[c])
      BY <2>2, CallKind DEF ObservePolicy, SupervisorTyped, CallInv
    <3>2. PICK change \in call[c].changes :
             /\ Switches(change)
             /\ BeginSwitch(c, MakePolicy(change[1], TRUE, CompositeChain), FALSE,
                            [call[c] EXCEPT !.changes = @ \ {change}])
      BY <2>2 DEF ObservePolicy
    <3>3. MakePolicy(change[1], TRUE, CompositeChain).kind \in Policies
      BY <3>2, MadePolicy DEF Switches
    <3>4. NotifyCall([call[c] EXCEPT !.changes = @ \ {change}])
      BY <3>1, Remaining
    <3> QED
      BY <3>2, <3>3, <3>4, CallGoes DEF BeginSwitch, CallOK, SwitchCall, SupervisorTyped
  <2> QED
    BY <2>1, <2>2
<1>2. UNCHANGED <<enabled, mActiveAlert, mode, manual, curveSet, inFlight, atGate>>
  BY DEF SwitchManually, ObservePolicy, BeginSwitch
<1> QED
  BY <1>1, <1>2 DEF SupervisorTyped, FeatureInv, ModeInv, JobInv

LEMMA CompleteKeepsTypes ==
    ASSUME SupervisorTyped, NEW c \in Callers, CompleteSwitch(c)
    PROVE  SupervisorTyped'
<1>1. SwitchCall(call[c])
  BY CallKind DEF CompleteSwitch, SupervisorTyped, CallInv
<1>2. CallOK(call[c].next) /\ call[c].byUser \in BOOLEAN
  BY <1>1 DEF SwitchCall, CallOK
<1>3. CallInv'
  BY <1>2, CallGoes DEF CompleteSwitch, SupervisorTyped
<1>4. ModeInv'
  <2>1. DOMAIN mode = ModeKeys
    BY DEF SupervisorTyped, ModeInv
  <2>2. mode' = [mode EXCEPT !.policy = call[c].policy]
    BY DEF CompleteSwitch
  <2>3. DOMAIN mode' = ModeKeys
    BY <2>1, <2>2
  <2>4. mode'.policy.kind \in Policies
    BY <1>1, <2>1, <2>2 DEF SwitchCall, ModeKeys
  <2>5. \A k \in DOMAIN Toggles : mode'[k] = mode[k]
    BY <2>1, <2>2 DEF Toggles, ModeKeys
  <2> QED
    BY <1>2, <2>3, <2>4, <2>5 DEF CompleteSwitch, SupervisorTyped, ModeInv, Toggles
<1> QED
  BY <1>3, <1>4 DEF CompleteSwitch, SupervisorTyped, FeatureInv, JobInv

-----------------------------------------------------------------------------
(* The cluster's steps, and the type invariant.                            *)

LEMMA ContinueKeepsTypes ==
    ASSUME SupervisorTyped, NEW c \in Callers, Continue(c)
    PROVE  SupervisorTyped'
<1>1. "policy.round_robin" \in Policies
  BY DEF Policies
<1> QED
  BY <1>1, ReplaceKeepsTypes, ReturnKeepsTypes, WarmKeepsTypes, ObserveKeepsTypes,
     BeginKeepsTypes, CompleteKeepsTypes DEF Continue

LEMMA TickKeepsTypes ==
    ASSUME SupervisorTyped, EnvironmentInv, NEW c \in Callers, TickStep(c)
    PROVE  SupervisorTyped'
<1>1. CASE Tick(c)
  <2>1. CallOK([step |-> "sample", sample |-> <<>>])
    BY DEF CallOK, SampleCall
  <2>2. CallInv'
    BY <1>1, <2>1, CallGoes DEF Tick, SupervisorTyped
  <2> QED
    BY <1>1, <2>2 DEF Tick, SupervisorTyped, FeatureInv, ModeInv, JobInv
<1>2. CASE SampleNode(c)
  <2>1. SampleCall(call[c])
    BY <1>2, CallKind DEF SampleNode, SupervisorTyped, CallInv
  <2> DEFINE s == call[c].sample
             k == [call[c] EXCEPT !.sample = Append(@, nodes[Len(@) + 1])]
  <2>2. s \in Seq(Readings) /\ Len(s) \in Nat /\ Len(s) < NodeCount
    BY <1>2, <2>1 DEF SampleNode, SampleCall
  <2>3. nodes[Len(s) + 1] \in Readings
    BY <2>2, SupervisionAssumption DEF EnvironmentInv
  <2>4. Append(s, nodes[Len(s) + 1]) \in Seq(Readings)
    BY <2>2, <2>3
  <2>5. k = [step |-> "sample", sample |-> Append(s, nodes[Len(s) + 1])]
    <3>1. PICK t : call[c] = [step |-> "sample", sample |-> t]
      BY <2>1, Zenon DEF SampleCall
    <3>2. \A u : [call[c] EXCEPT !.sample = u] = [step |-> "sample", sample |-> u]
      BY <3>1
    <3> QED
      BY <3>2, Zenon
  <2>6. CallOK(k)
    BY <2>4, <2>5 DEF CallOK, SampleCall
  <2>7. CallInv'
    BY <1>2, <2>6, CallGoes DEF SampleNode, SupervisorTyped
  <2> QED
    BY <1>2, <2>7 DEF SampleNode, SupervisorTyped, FeatureInv, ModeInv, JobInv
<1>3. CASE Evaluate(c)
  BY <1>3, ApplyKeepsTypes, DeterminedAlert DEF Evaluate, AlertNames
<1> QED
  BY <1>1, <1>2, <1>3 DEF TickStep

LEMMA CallerKeepsInv ==
    ASSUME SupervisionInv, NEW c \in Callers,
           \/ TickStep(c)
           \/ CallStep(c)
           \/ EvaluateInference(c)
           \/ \E a \in Pushed : PushAlert(c, a)
           \/ \E on \in BOOLEAN : SetCurve(c, on) \/ CheckWarm(c, on)
           \/ \E p \in Wanted : UserSwitch(c, p)
    PROVE  SupervisionInv'
<1> USE DEF SupervisionInv
<1>1. CASE TickStep(c)
  BY <1>1, TickKeepsTypes
     DEF TickStep, Tick, SampleNode, Evaluate, environment, EnvironmentInv
<1>2. CASE CallStep(c)
  BY <1>2, ContinueKeepsTypes DEF CallStep, environment, EnvironmentInv
<1>3. ASSUME NEW kind, UserCall(c, kind), UNCHANGED <<nodes, inference, changes>>
      PROVE  EnvironmentInv'
  BY <1>3, SupervisionAssumption DEF UserCall, EnvironmentInv
<1>4. CASE EvaluateInference(c)
  BY <1>3, <1>4, ApplyKeepsTypes DEF EvaluateInference
<1>5. ASSUME NEW a \in Pushed, PushAlert(c, a)
      PROVE  SupervisionInv'
  BY <1>3, <1>5, ApplyKeepsTypes, SupervisionAssumption DEF PushAlert
<1>6. ASSUME NEW on \in BOOLEAN, SetCurve(c, on)
      PROVE  SupervisionInv'
  BY <1>3, <1>6, SetKeepsTypes DEF SetCurve, Toggles, Extra
<1>7. ASSUME NEW on \in BOOLEAN, CheckWarm(c, on)
      PROVE  SupervisionInv'
  BY <1>3, <1>7, WarmKeepsTypes DEF CheckWarm
<1>8. ASSUME NEW p \in Wanted, UserSwitch(c, p)
      PROVE  SupervisionInv'
  BY <1>3, <1>8, BeginKeepsTypes, SupervisionAssumption DEF UserSwitch
<1> QED
  BY <1>1, <1>2, <1>4, <1>5, <1>6, <1>7, <1>8

LEMMA NodeKeepsInv ==
    ASSUME SupervisionInv, NEW n \in 1..NodeCount,
           NEW reading \in Readings, NodeChanges(n, reading)
    PROVE  SupervisionInv'
<1>1. SupervisorTyped'
  BY DEF NodeChanges, supervisorVars, SupervisionInv, SupervisorTyped, FeatureInv,
         CallInv, ModeInv, JobInv
<1>2. EnvironmentInv'
  BY SupervisionAssumption DEF NodeChanges, SupervisionInv, EnvironmentInv
<1> QED
  BY <1>1, <1>2 DEF SupervisionInv

LEMMA InferKeepsInv ==
    ASSUME SupervisionInv, NEW content \in AlertNames \cup {Unreadable},
           Infer(content)
    PROVE  SupervisionInv'
<1>1. SupervisorTyped'
  BY DEF Infer, supervisorVars, SupervisionInv, SupervisorTyped, FeatureInv,
         CallInv, ModeInv, JobInv
<1>2. EnvironmentInv'
  BY SupervisionAssumption DEF Infer, SupervisionInv, EnvironmentInv
<1> QED
  BY <1>1, <1>2 DEF SupervisionInv

LEMMA JobsKeepInv ==
    ASSUME SupervisionInv, SubmitJob \/ PassGate \/ RefusedAtGate \/ JobEnds,
           UNCHANGED environment
    PROVE  SupervisionInv'
<1>1. JobInv'
  BY SupervisorAssumption DEF SubmitJob, PassGate, RefusedAtGate, JobEnds,
        SupervisionInv, SupervisorTyped, JobInv
<1> QED
  BY <1>1 DEF SubmitJob, PassGate, RefusedAtGate, JobEnds, environment, SupervisionInv, SupervisorTyped,
              FeatureInv, CallInv, ModeInv, EnvironmentInv

LEMMA InitTyped == Init => SupervisionInv
<1> SUFFICES ASSUME Init PROVE SupervisionInv
  OBVIOUS
<1>1. FeatureInv
  BY DEF Init, SupervisorInit, FeatureInv, FollowsAlert, Serves, Alerts
<1>2. CallInv
  BY DEF Init, SupervisorInit, CallInv, CallOK
<1>3. ModeInv
  <2> DEFINE policy == MakePolicy("policy.round_robin", TRUE, CompositeChain)
  <2>1. policy.kind \in Policies
    BY MadePolicy DEF Policies
  <2> HIDE DEF policy
  <2>2. mode = [policy |-> policy, aging |-> FALSE, degradation |-> TRUE,
                shed |-> FALSE, strict |-> FALSE]
    BY DEF Init, SupervisorInit, policy
  <2>3. DOMAIN mode = ModeKeys
    BY <2>2 DEF ModeKeys
  <2>4. \A k \in DOMAIN Toggles : mode[k] \in BOOLEAN
    <3>1. /\ mode["aging"] = FALSE
          /\ mode["degradation"] = TRUE
          /\ mode["shed"] = FALSE
          /\ mode["strict"] = FALSE
      BY <2>2
    <3>2. DOMAIN Toggles = {"aging", "degradation", "shed", "strict"}
      BY DEF Toggles
    <3> QED
      BY <3>1, <3>2, Zenon
  <2>5. mode.policy = policy
    BY <2>2
  <2> QED
    BY <2>1, <2>3, <2>4, <2>5 DEF Init, SupervisorInit, ModeInv
<1>4. JobInv
  <2>1. inFlight = 0 /\ atGate = 0 /\ MaxInFlight \in Nat
    BY SupervisorAssumption DEF Init, SupervisorInit
  <2> QED
    BY <2>1 DEF JobInv
<1>5. EnvironmentInv
  <2>1. nodes = [n \in 1..NodeCount |-> [state |-> "Idle", p50 |-> 0]]
    BY DEF Init
  <2>2. [state |-> "Idle", p50 |-> 0] \in Readings
    BY DEF Readings, NodeStates
  <2>3. nodes \in [1..NodeCount -> Readings]
    BY <2>1, <2>2
  <2>4. 0 \in 0..MaxChanges /\ 0 \in 0..MaxUserCalls
    BY SupervisionAssumption
  <2> QED
    BY <2>3, <2>4 DEF Init, EnvironmentInv
<1> QED
  BY <1>1, <1>2, <1>3, <1>4, <1>5 DEF SupervisionInv, SupervisorTyped

LEMMA StepTyped == SupervisionInv /\ [Next]_vars => SupervisionInv'
<1> SUFFICES ASSUME SupervisionInv, [Next]_vars
             PROVE  SupervisionInv'
  OBVIOUS
<1>1. ASSUME NEW n \in 1..NodeCount, NEW s \in States, NodeState(n, s)
      PROVE  SupervisionInv'
  <2>1. [nodes[n] EXCEPT !.state = s] \in Readings
    BY SupervisionAssumption DEF SupervisionInv, EnvironmentInv, Readings
  <2> QED
    BY <1>1, <2>1, NodeKeepsInv DEF NodeState
<1>2. ASSUME NEW n \in 1..NodeCount, NEW p \in Latencies, NodeCompletes(n, p)
      PROVE  SupervisionInv'
  <2>1. [nodes[n] EXCEPT !.p50 = p] \in Readings
    BY SupervisionAssumption DEF SupervisionInv, EnvironmentInv, Readings
  <2> QED
    BY <1>2, <2>1, NodeKeepsInv DEF NodeCompletes
<1>3. CASE \E c \in Callers :
              \/ TickStep(c)
              \/ CallStep(c)
              \/ EvaluateInference(c)
              \/ \E a \in Pushed : PushAlert(c, a)
              \/ \E on \in BOOLEAN : SetCurve(c, on) \/ CheckWarm(c, on)
              \/ \E p \in Wanted : UserSwitch(c, p)
  BY <1>3, CallerKeepsInv
<1>4. CASE InferFromSnapshot \/ InferBadly
  BY <1>4, InferKeepsInv, DeterminedAlert DEF InferFromSnapshot, InferBadly, AlertNames
<1>5. CASE (SubmitJob /\ UNCHANGED environment) \/ ReadGate \/ EndJob
  BY <1>5, JobsKeepInv DEF ReadGate, EndJob
<1>6. CASE UNCHANGED vars
  BY <1>6 DEF vars, supervisorVars, environment, SupervisionInv, SupervisorTyped,
              FeatureInv, CallInv, ModeInv, JobInv, EnvironmentInv
<1> QED
  BY <1>1, <1>2, <1>3, <1>4, <1>5, <1>6 DEF Next

(* Whoever calls the supervisor, and however the calls overlap, the        *)
(* features that are enabled are those of one alert, with its policy, and  *)
(* the two that are set on their own.                                      *)
THEOREM SupervisionInvariant == Spec => []SupervisionInv
BY InitTyped, StepTyped, PTL DEF Spec

(* Every variable has its type, whatever calls overlap: exactly one policy *)
(* and one alert are enabled (FeatureSupervisor::buildGraph), and with     *)
(* each feature all that it entails.                                       *)
THEOREM SupervisionTypeCorrect == Spec => []TypeOK
<1>1. SupervisionInv => TypeOK
  <2> SUFFICES ASSUME SupervisionInv PROVE TypeOK
    OBVIOUS
  <2>1. PICK a \in Alerts : Serves(enabled, a)
    BY DEF SupervisionInv, SupervisorTyped, FeatureInv, FollowsAlert
  <2>2. enabled \subseteq Features /\ Entailed(enabled) \subseteq enabled
    BY <2>1, ServesOne
  <2>3. \A g \in Groups : Cardinality(enabled \cap g) = 1
    <3>1. ASSUME NEW g \in Groups PROVE \E x : enabled \cap g = {x}
      BY <2>1, ServesOne DEF Groups
    <3> QED
      BY <3>1, FS_Singleton
  <2>4. \A c \in Callers :
           call[c].step \in {"idle", "sample", "replace", "notify", "switch", "warm"}
    BY CallKind DEF SupervisionInv, SupervisorTyped, CallInv
  <2> QED
    BY <2>2, <2>3, <2>4
       DEF TypeOK, SupervisionInv, SupervisorTyped, FeatureInv, ModeInv, JobInv,
           EnvironmentInv, Readings
<1> QED
  BY <1>1, SupervisionInvariant, PTL

-----------------------------------------------------------------------------
(* The supervisor, its manager and the Balancer agree as long as no two    *)
(* calls overlap.  The code takes no lock for the whole of a call; this is *)
(* what its callers owe it, and one thread alone keeps it.  Samples may    *)
(* overlap with anything.                                                  *)

Serialized == \A c, d \in Callers : InCall(c) /\ InCall(d) => c = d

(* What a list of changes still has to bring about.                        *)
Truthful(pending) ==
    \A change \in pending : change[2] = (change[1] \in enabled)

Following(pending) ==
    \A k \in DOMAIN Toggles :
       \/ \E b \in BOOLEAN : <<Toggles[k], b>> \in pending
       \/ mode[k] = (Toggles[k] \in enabled)
       \/ k = "degradation" /\ ~curveSet

AlertKept(to) ==
    IF to = NoAlert THEN Target(mActiveAlert) \in enabled ELSE to \in enabled

Told(pending, to) == Truthful(pending) /\ Following(pending) /\ AlertKept(to)

PolicyFollows == manual \/ mode.policy.kind \in enabled

Settled == AlertKept(NoAlert) /\ Following({})

(* What holds between two calls, and until a call makes its first change.  *)
Between == Settled /\ PolicyFollows

Agreeing(c) ==
    /\ call[c].step \in {"replace", "warm"} => Between
    /\ call[c].step = "replace" => call[c].from = Target(mActiveAlert)
    /\ call[c].step = "notify" =>
          /\ Told(call[c].changes, call[c].to)
          /\ PolicyFollows \/ \E p \in Policies : <<p, TRUE>> \in call[c].changes
    /\ call[c].step = "switch" =>
          IF call[c].byUser THEN Settled
          ELSE /\ Told(call[c].next.changes, call[c].next.to)
               /\ call[c].policy.kind \in enabled

AgreeInv ==
    /\ (\A c \in Callers : ~InCall(c)) => Between
    /\ \A c \in Callers : Agreeing(c)

(* One call at a time: only the caller that moves has to agree.            *)
LEMMA OneCallAgrees ==
    ASSUME CallInv, NEW c \in Callers, NEW k, Goes(c, k),
           Serialized, Serialized',
           InCall(c) \/ InCall(c)',
           InCall(c)' => Agreeing(c)',
           ~InCall(c)' => Between'
    PROVE  AgreeInv'
<1>1. \A d \in Callers \ {c} : call'[d] = call[d]
  BY DEF Goes, CallInv
<1>2. ASSUME NEW d \in Callers \ {c} PROVE ~InCall(d)'
  <2>1. InCall(d)' <=> InCall(d)
    BY <1>1 DEF InCall
  <2> QED
    BY <2>1 DEF Serialized
<1>3. ASSUME NEW d \in Callers, ~InCall(d)' PROVE Agreeing(d)'
  BY <1>3 DEF InCall, Agreeing
<1>4. \A d \in Callers : Agreeing(d)'
  BY <1>2, <1>3
<1> QED
  BY <1>4 DEF AgreeInv

(* A step that nobody in a call takes, and that changes nothing here.      *)
LEMMA OutsideAgrees ==
    ASSUME AgreeInv, UNCHANGED <<enabled, mActiveAlert, mode, manual, curveSet>>,
           \A c \in Callers : call'[c] = call[c] \/ (~InCall(c) /\ ~InCall(c)')
    PROVE  AgreeInv'
<1>1. ASSUME NEW c \in Callers PROVE InCall(c)' <=> InCall(c)
  BY DEF InCall
<1>2. Between' <=> Between
  BY DEF Between, Settled, AlertKept, Following, PolicyFollows
<1>3. ASSUME NEW c \in Callers PROVE Agreeing(c)'
  <2>1. CASE call'[c] = call[c]
    BY <1>2, <2>1
       DEF AgreeInv, Agreeing, Told, Truthful, Following, AlertKept, PolicyFollows, Settled
  <2>2. CASE ~InCall(c)'
    BY <2>2 DEF InCall, Agreeing
  <2> QED
    BY <2>1, <2>2
<1> QED
  BY <1>1, <1>2, <1>3 DEF AgreeInv

(* Whoever begins a call finds nobody in one.                              *)
LEMMA BeginsBetween ==
    ASSUME AgreeInv, CallInv, NEW c \in Callers, NEW k, Goes(c, k),
           Serialized', ~InCall(c), InCall(c)'
    PROVE  Between
<1>1. ASSUME NEW d \in Callers PROVE ~InCall(d)
  <2>1. CASE d # c
    <3>1. call'[d] = call[d]
      BY <2>1 DEF Goes, CallInv
    <3>2. ~InCall(d)'
      BY <2>1 DEF Serialized
    <3> QED
      BY <3>1, <3>2 DEF InCall
  <2> QED
    BY <2>1
<1> QED
  BY <1>1 DEF AgreeInv

(* The step that a call has gone to.                                       *)
LEMMA Gone ==
    ASSUME CallInv, NEW c \in Callers, NEW k, Goes(c, k)
    PROVE  call'[c] = k
BY DEF CallInv, Goes

-----------------------------------------------------------------------------
(* A commit: the changes are those that the Balancer has yet to follow.    *)
LEMMA CommitAgrees ==
    ASSUME SupervisionInv, Between, NEW c \in Callers,
           NEW S, FollowsAlert(S), NEW alert \in Alerts \cup {NoAlert},
           (IF alert = NoAlert THEN Target(mActiveAlert) ELSE alert) \in S,
           Commit(c, S, alert)
    PROVE  Agreeing(c)'
<1> DEFINE pending == Changes(enabled, S)
<1>1. /\ call'[c].step = "notify"
      /\ call'[c].changes = pending
      /\ call'[c].to = alert
  <2>1. call'[c] = [step |-> "notify", changes |-> pending, to |-> alert]
    BY Gone DEF Commit, SupervisionInv, SupervisorTyped
  <2> QED
    BY <2>1
<1>2. enabled' = S /\ UNCHANGED <<mActiveAlert, mode, manual, curveSet>>
  BY DEF Commit
<1>3. \A change \in pending : change[2] = (change[1] \in S)
  <2>1. ASSUME NEW change \in (S \ enabled) \X {TRUE}
        PROVE  change[2] = (change[1] \in S)
    OBVIOUS
  <2>2. ASSUME NEW change \in (enabled \ S) \X {FALSE}
        PROVE  change[2] = (change[1] \in S)
    <3>1. change[2] = FALSE /\ change[1] \notin S
      OBVIOUS
    <3>2. (change[1] \in S) = FALSE
      BY <3>1
    <3> QED
      BY <3>1, <3>2, Zenon
  <2> QED
    BY <2>1, <2>2 DEF Changes
<1>4. \A k \in DOMAIN Toggles :
         \/ \E b \in BOOLEAN : <<Toggles[k], b>> \in pending
         \/ mode[k] = (Toggles[k] \in S)
         \/ k = "degradation" /\ ~curveSet
  <2> SUFFICES ASSUME NEW k \in DOMAIN Toggles,
                      ~ \E b \in BOOLEAN : <<Toggles[k], b>> \in pending
               PROVE  \/ mode[k] = (Toggles[k] \in S)
                      \/ k = "degradation" /\ ~curveSet
    OBVIOUS
  <2>1. Toggles[k] \in S <=> Toggles[k] \in enabled
    BY DEF Changes
  <2>2. \/ mode[k] = (Toggles[k] \in enabled)
        \/ k = "degradation" /\ ~curveSet
    BY DEF Between, Settled, Following
  <2> QED
    BY <2>1, <2>2
<1>5. manual \/ mode.policy.kind \in S \/ \E p \in Policies : <<p, TRUE>> \in pending
  <2>1. \E q : S \cap Policies = {q}
    BY ServesOne DEF FollowsAlert
  <2>2. PICK q : S \cap Policies = {q}
    BY <2>1
  <2>3. CASE q \in enabled
    <3>1. PICK a \in Alerts : Serves(enabled, a)
      BY DEF SupervisionInv, SupervisorTyped, FeatureInv, FollowsAlert
    <3>2. \E p : enabled \cap Policies = {p}
      BY <3>1, ServesOne
    <3>3. mode.policy.kind \in Policies
      BY DEF SupervisionInv, SupervisorTyped, ModeInv
    <3> QED
      BY <2>2, <2>3, <3>2, <3>3 DEF Between, PolicyFollows
  <2>4. CASE q \notin enabled
    BY <2>2, <2>4 DEF Changes
  <2> QED
    BY <2>3, <2>4
<1> HIDE DEF pending
<1>6. Truthful(call[c].changes)'
  BY <1>1, <1>2, <1>3 DEF Truthful
<1>7. Following(call[c].changes)'
  BY <1>1, <1>2, <1>4 DEF Following
<1>8. AlertKept(call[c].to)'
  <2>1. Target(mActiveAlert)' = Target(mActiveAlert)
    BY <1>2 DEF Target
  <2> QED
    BY <1>1, <1>2, <2>1 DEF AlertKept
<1>9. (PolicyFollows \/ \E p \in Policies : <<p, TRUE>> \in call[c].changes)'
  BY <1>1, <1>2, <1>5 DEF PolicyFollows
<1> QED
  BY <1>1, <1>6, <1>7, <1>8, <1>9 DEF Agreeing, Told

(* The steps of a call, one by one.                                        *)

LEMMA ReplaceAgrees ==
    ASSUME SupervisionInv, NEW c \in Callers, Agreeing(c), Replace(c)
    PROVE  Agreeing(c)'
<1>1. ReplaceCall(call[c])
  BY CallKind DEF Replace, SupervisionInv, SupervisorTyped, CallInv
<1>2. call[c].from \in enabled /\ call[c].to \in Features
  BY DEF Replace, CanReplace
<1>3. call[c].from \in Alerts /\ call[c].to \in Alerts
  BY <1>1, <1>2 DEF ReplaceCall, Features, Alerts, Policies, Behaviours,
                    Admissions, Unknown
<1> DEFINE S == Replaced(enabled, call[c].from, call[c].to)
<1>4. Serves(enabled, call[c].from)
  BY <1>2, <1>3, ServedAlert DEF SupervisionInv, SupervisorTyped, FeatureInv
<1>5. FollowsAlert(S) /\ call[c].to \in S
  BY <1>3, <1>4, ReplaceServes DEF FollowsAlert, Serves, Closure
<1>6. Between
  BY DEF Replace, Agreeing
<1>7. call[c].to # NoAlert
  BY <1>3 DEF Alerts, NoAlert
<1> QED
  BY <1>3, <1>5, <1>6, <1>7, CommitAgrees DEF Replace

LEMMA SetAgrees ==
    ASSUME SupervisionInv, Between, NEW c \in Callers, NEW f \in Extra,
           NEW on \in BOOLEAN, SetFeatureEnabled(c, f, on)
    PROVE  Agreeing(c)'
<1> DEFINE S == IF on THEN enabled \cup Closure(f) ELSE Without(enabled, f)
<1>1. Target(mActiveAlert) \in Alerts
  BY DEF SupervisionInv, SupervisorTyped, FeatureInv, Target, Alerts
<1>2. Serves(enabled, Target(mActiveAlert))
  BY <1>1, ServedAlert DEF Between, Settled, AlertKept, SupervisionInv,
                           SupervisorTyped, FeatureInv
<1>3. Serves(S, Target(mActiveAlert))
  BY <1>2, <1>1, SetServes
<1>4. FollowsAlert(S) /\ Target(mActiveAlert) \in S
  BY <1>1, <1>3 DEF FollowsAlert, Serves, Closure
<1>5. Commit(c, S, NoAlert)
  BY DEF SetFeatureEnabled
<1> QED
  BY <1>4, <1>5, CommitAgrees

LEMMA ReturnAgrees ==
    ASSUME SupervisionInv, NEW c \in Callers, Agreeing(c),
           ReplaceRefused(c) \/ StoreActiveAlert(c)
    PROVE  Between'
<1>1. CASE ReplaceRefused(c)
  BY <1>1 DEF ReplaceRefused, Agreeing, Between, Settled, AlertKept, Following,
              PolicyFollows, Target
<1>2. CASE StoreActiveAlert(c)
  <2>1. NotifyCall(call[c])
    BY <1>2, CallKind DEF StoreActiveAlert, SupervisionInv, SupervisorTyped, CallInv
  <2>2. Told({}, call[c].to) /\ PolicyFollows
    BY <1>2 DEF StoreActiveAlert, Agreeing
  <2>3. UNCHANGED <<enabled, mode, manual, curveSet>>
    BY <1>2 DEF StoreActiveAlert
  <2>4. Following({})' /\ PolicyFollows'
    BY <2>2, <2>3 DEF Told, Following, PolicyFollows
  <2>5. Target(mActiveAlert)' \in enabled
    <3>1. CASE call[c].to \in Alerts
      <4>1. Target(mActiveAlert') = call[c].to
        BY <1>2, <3>1 DEF StoreActiveAlert, Target, Shown, Alerts
      <4>2. call[c].to # NoAlert
        BY <3>1 DEF Alerts, NoAlert
      <4> QED
        BY <2>2, <4>1, <4>2 DEF Told, AlertKept, Target
    <3>2. CASE call[c].to = NoAlert
      <4>1. mActiveAlert' = mActiveAlert
        BY <1>2, <3>2 DEF StoreActiveAlert, Alerts, NoAlert
      <4> QED
        BY <2>2, <3>2, <4>1 DEF Told, AlertKept, Target
    <3> QED
      BY <2>1, <3>1, <3>2 DEF NotifyCall
  <2> QED
    BY <2>3, <2>4, <2>5 DEF Between, Settled, AlertKept, NoAlert
<1> QED
  BY <1>1, <1>2

(* A policy that a change enables is one that an alert brings.             *)
LEMMA EnabledPolicy ==
    ASSUME SupervisionInv, NEW p \in Policies, p \in enabled
    PROVE  p \in AlertPolicies
<1>1. PICK a \in Alerts : Serves(enabled, a)
  BY DEF SupervisionInv, SupervisorTyped, FeatureInv, FollowsAlert
<1>2. PICK q \in AlertPolicies : enabled \cap Policies = {q}
  BY <1>1, ServesOne
<1> QED
  BY <1>2

LEMMA ObserveAgrees ==
    ASSUME SupervisionInv, NEW c \in Callers, Agreeing(c), ObserveChange(c)
    PROVE  Agreeing(c)'
<1> DEFINE list == call[c].changes
<1>1. NotifyCall(call[c])
  BY CallKind DEF ObserveChange, SupervisionInv, SupervisorTyped, CallInv
<1>2. PICK change \in list :
         /\ ~Switches(change)
         /\ Goes(c, [call[c] EXCEPT !.changes = @ \ {change}])
         /\ mode' = [k \in DOMAIN mode |->
                        IF k = "policy" THEN mode[k] ELSE Toggled(k, change)]
         /\ curveSet' = (curveSet \/ change[1] = Toggles["degradation"])
  BY DEF ObserveChange
<1>3. /\ call'[c].step = "notify"
      /\ call'[c].changes = list \ {change}
      /\ call'[c].to = call[c].to
  <2>1. call'[c] = [call[c] EXCEPT !.changes = @ \ {change}]
    BY <1>2, Gone DEF SupervisionInv, SupervisorTyped
  <2> QED
    BY <1>1, <2>1 DEF NotifyCall
<1>4. UNCHANGED <<enabled, mActiveAlert, manual>>
  BY DEF ObserveChange
<1>5. /\ Truthful(list)
      /\ Following(list)
      /\ AlertKept(call[c].to)
      /\ PolicyFollows \/ \E p \in Policies : <<p, TRUE>> \in list
  BY DEF ObserveChange, Agreeing, Told
<1>6. DOMAIN mode = ModeKeys
  BY DEF SupervisionInv, SupervisorTyped, ModeInv
<1>7. mode'.policy = mode.policy
  BY <1>2, <1>6 DEF ModeKeys
<1>8. \A k \in DOMAIN Toggles :
         \/ \E b \in BOOLEAN : <<Toggles[k], b>> \in list \ {change}
         \/ mode'[k] = (Toggles[k] \in enabled)
         \/ k = "degradation" /\ ~curveSet'
  <2> SUFFICES ASSUME NEW k \in DOMAIN Toggles
               PROVE  \/ \E b \in BOOLEAN : <<Toggles[k], b>> \in list \ {change}
                      \/ mode'[k] = (Toggles[k] \in enabled)
                      \/ k = "degradation" /\ ~curveSet'
    OBVIOUS
  <2>1. mode'[k] = Toggled(k, change)
    BY <1>2, <1>6 DEF Toggles, ModeKeys
  <2>2. CASE Toggles[k] = change[1]
    <3>1. mode'[k] = change[2]
      BY <2>1, <2>2 DEF Toggled
    <3>2. change[2] = (change[1] \in enabled)
      BY <1>5 DEF Truthful
    <3> QED
      BY <2>2, <3>1, <3>2
  <2>3. CASE Toggles[k] # change[1]
    <3>1. mode'[k] = mode[k]
      BY <2>1, <2>3 DEF Toggled
    <3>2. k = "degradation" => curveSet' = curveSet
      BY <1>2, <2>3 DEF SupervisionInv, SupervisorTyped, ModeInv
    <3>3. ASSUME NEW b \in BOOLEAN, <<Toggles[k], b>> \in list
          PROVE  <<Toggles[k], b>> \in list \ {change}
      BY <2>3, <3>3
    <3>4. \/ \E b \in BOOLEAN : <<Toggles[k], b>> \in list
          \/ mode[k] = (Toggles[k] \in enabled)
          \/ k = "degradation" /\ ~curveSet
      BY <1>5 DEF Following
    <3> QED
      BY <3>1, <3>2, <3>3, <3>4
  <2> QED
    BY <2>2, <2>3
<1>9. PolicyFollows \/ \E p \in Policies : <<p, TRUE>> \in list \ {change}
  <2>1. ASSUME NEW p \in Policies, <<p, TRUE>> \in list
        PROVE  <<p, TRUE>> # change
    <3>1. p \in enabled
      BY <1>5, <2>1 DEF Truthful
    <3>2. p # "policy.composite"
      BY <3>1, EnabledPolicy, ExtraFeatures
    <3>3. Switches(<<p, TRUE>>)
      BY <3>2 DEF Switches
    <3> QED
      BY <1>2, <3>3
  <2> QED
    BY <1>5, <2>1
<1> HIDE DEF list
<1>10. Truthful(call[c].changes)'
  BY <1>3, <1>4, <1>5 DEF Truthful
<1>11. Following(call[c].changes)'
  BY <1>3, <1>4, <1>8 DEF Following
<1>12. AlertKept(call[c].to)'
  <2>1. Target(mActiveAlert)' = Target(mActiveAlert)
    BY <1>4 DEF Target
  <2> QED
    BY <1>3, <1>4, <1>5, <2>1 DEF AlertKept
<1>13. (PolicyFollows \/ \E p \in Policies : <<p, TRUE>> \in call[c].changes)'
  BY <1>3, <1>4, <1>7, <1>9 DEF PolicyFollows
<1> QED
  BY <1>3, <1>10, <1>11, <1>12, <1>13 DEF Agreeing, Told

LEMMA BeginAgrees ==
    ASSUME SupervisionInv, NEW c \in Callers, Agreeing(c), ObservePolicy(c)
    PROVE  Agreeing(c)'
<1> DEFINE list == call[c].changes
           rest(change) == [call[c] EXCEPT !.changes = @ \ {change}]
<1>1. NotifyCall(call[c])
  BY CallKind DEF ObservePolicy, SupervisionInv, SupervisorTyped, CallInv
<1>2. PICK change \in list :
         /\ Switches(change)
         /\ BeginSwitch(c, MakePolicy(change[1], TRUE, CompositeChain), FALSE,
                        rest(change))
  BY DEF ObservePolicy
<1>3. /\ rest(change).changes = list \ {change}
      /\ rest(change).to = call[c].to
  BY <1>1 DEF NotifyCall
<1>4. /\ call'[c].step = "switch"
      /\ call'[c].byUser = FALSE
      /\ call'[c].policy = MakePolicy(change[1], TRUE, CompositeChain)
      /\ call'[c].next.changes = list \ {change}
      /\ call'[c].next.to = call[c].to
  <2> HIDE DEF rest
  <2>1. call'[c] = [step |-> "switch",
                    policy |-> MakePolicy(change[1], TRUE, CompositeChain),
                    byUser |-> FALSE, next |-> rest(change)]
    BY <1>2, Gone DEF BeginSwitch, SupervisionInv, SupervisorTyped
  <2> QED
    BY <1>3, <2>1
<1>5. UNCHANGED <<enabled, mActiveAlert, mode, manual, curveSet>>
  BY <1>2 DEF BeginSwitch
<1>6. Truthful(list) /\ Following(list) /\ AlertKept(call[c].to)
  BY DEF ObservePolicy, Agreeing, Told
<1>7. change[1] \in Policies /\ change[1] \in enabled
  BY <1>2, <1>6 DEF Switches, Truthful
<1>8. call'[c].policy.kind \in enabled'
  BY <1>4, <1>5, <1>7, EnabledPolicy, MadePolicy
<1>9. \A k \in DOMAIN Toggles :
         \/ \E b \in BOOLEAN : <<Toggles[k], b>> \in list \ {change}
         \/ mode[k] = (Toggles[k] \in enabled)
         \/ k = "degradation" /\ ~curveSet
  <2>1. \A k \in DOMAIN Toggles : Toggles[k] # change[1]
    BY <1>7 DEF Toggles, Policies
  <2>2. ASSUME NEW k \in DOMAIN Toggles, NEW b \in BOOLEAN,
               <<Toggles[k], b>> \in list
        PROVE  <<Toggles[k], b>> \in list \ {change}
    BY <2>1, <2>2
  <2> QED
    BY <1>6, <2>2 DEF Following
<1> HIDE DEF list, rest
<1>10. Truthful(call[c].next.changes)'
  BY <1>4, <1>5, <1>6 DEF Truthful
<1>11. Following(call[c].next.changes)'
  BY <1>4, <1>5, <1>9 DEF Following
<1>12. AlertKept(call[c].next.to)'
  <2>1. Target(mActiveAlert)' = Target(mActiveAlert)
    BY <1>5 DEF Target
  <2> QED
    BY <1>4, <1>5, <1>6, <2>1 DEF AlertKept
<1> QED
  BY <1>4, <1>8, <1>10, <1>11, <1>12 DEF Agreeing, Told

LEMMA CompleteAgrees ==
    ASSUME SupervisionInv, NEW c \in Callers, Agreeing(c), CompleteSwitch(c)
    PROVE  /\ InCall(c)' => Agreeing(c)'
           /\ ~InCall(c)' => Between'
<1>1. SwitchCall(call[c])
  BY CallKind DEF CompleteSwitch, SupervisionInv, SupervisorTyped, CallInv
<1>2. call'[c] = call[c].next
  BY Gone DEF CompleteSwitch, SupervisionInv, SupervisorTyped
<1>3. DOMAIN mode = ModeKeys
  BY DEF SupervisionInv, SupervisorTyped, ModeInv
<1>4. /\ UNCHANGED <<enabled, mActiveAlert, curveSet>>
      /\ manual' = call[c].byUser
      /\ mode'.policy = call[c].policy
      /\ \A k \in DOMAIN Toggles : mode'[k] = mode[k]
  <2>1. mode' = [mode EXCEPT !.policy = call[c].policy]
    BY DEF CompleteSwitch
  <2> QED
    BY <1>3, <2>1 DEF CompleteSwitch, Toggles, ModeKeys
<1>5. Target(mActiveAlert)' = Target(mActiveAlert)
  BY <1>4 DEF Target
<1>6. CASE call[c].byUser = TRUE
  <2>1. ~InCall(c)'
    BY <1>1, <1>2, <1>6 DEF SwitchCall, InCall, Idle
  <2>2. Settled
    BY <1>6 DEF CompleteSwitch, Agreeing
  <2>3. Settled'
    BY <1>4, <1>5, <2>2 DEF Settled, AlertKept, Following
  <2> QED
    BY <1>4, <1>6, <2>1, <2>3 DEF Between, PolicyFollows
<1>7. CASE call[c].byUser = FALSE
  <2>1. NotifyCall(call[c].next)
    BY <1>1, <1>7 DEF SwitchCall
  <2>2. call'[c].step = "notify"
    BY <1>2, <2>1 DEF NotifyCall
  <2>3. /\ Told(call[c].next.changes, call[c].next.to)
        /\ call[c].policy.kind \in enabled
    BY <1>7 DEF CompleteSwitch, Agreeing
  <2>4. Truthful(call[c].changes)'
    BY <1>2, <1>4, <2>3 DEF Told, Truthful
  <2>5. Following(call[c].changes)'
    BY <1>2, <1>4, <2>3 DEF Told, Following
  <2>6. AlertKept(call[c].to)'
    BY <1>2, <1>4, <1>5, <2>3 DEF Told, AlertKept
  <2>7. PolicyFollows'
    BY <1>4, <2>3 DEF PolicyFollows
  <2>8. Agreeing(c)'
    BY <2>2, <2>4, <2>5, <2>6, <2>7 DEF Agreeing, Told
  <2>9. InCall(c)'
    BY <2>2 DEF InCall
  <2> QED
    BY <2>8, <2>9
<1> QED
  BY <1>1, <1>6, <1>7 DEF SwitchCall

-----------------------------------------------------------------------------
(* The steps of the callers.                                               *)

(* A call begins, or finds nothing to do.                                  *)
LEMMA ApplyAgrees ==
    ASSUME SupervisionInv, AgreeInv, Serialized, Serialized', NEW c \in Callers,
           ~InCall(c), NEW alert \in AlertNames, ApplyChanges(c, alert)
    PROVE  AgreeInv'
<1> DEFINE k == [step |-> "replace", from |-> Target(mActiveAlert),
                 to |-> Target(alert)]
<1>1. CallInv /\ UNCHANGED <<enabled, mActiveAlert, mode, manual, curveSet>>
  BY DEF ApplyChanges, SupervisionInv, SupervisorTyped
<1>2. \A d \in Callers \ {c} : call'[d] = call[d]
  BY <1>1 DEF ApplyChanges, Goes, CallInv
<1>3. CASE Goes(c, Idle)
  <2>1. ~InCall(c)'
    BY <1>1, <1>3, Gone DEF Idle, InCall
  <2>2. \A d \in Callers : call'[d] = call[d] \/ (~InCall(d) /\ ~InCall(d)')
    BY <1>2, <2>1
  <2> QED
    BY <1>1, <2>2, OutsideAgrees
<1>4. CASE Goes(c, k)
  <2>1. /\ call'[c].step = "replace"
        /\ call'[c].from = Target(mActiveAlert)
    BY <1>1, <1>4, Gone
  <2>2. InCall(c)'
    BY <2>1 DEF InCall
  <2>3. Between
    BY <1>1, <1>4, <2>2, BeginsBetween
  <2>4. Between' /\ Target(mActiveAlert)' = Target(mActiveAlert)
    BY <1>1, <2>3 DEF Between, Settled, AlertKept, Following, PolicyFollows, Target
  <2>5. Agreeing(c)'
    BY <2>1, <2>4 DEF Agreeing
  <2> HIDE DEF k
  <2> QED
    BY <1>1, <1>4, <2>2, <2>5, OneCallAgrees
<1> QED
  BY <1>3, <1>4 DEF ApplyChanges

LEMMA CommitBegins ==
    ASSUME SupervisionInv, AgreeInv, Serialized, Serialized', NEW c \in Callers,
           NEW f \in Extra, NEW on \in BOOLEAN, SetFeatureEnabled(c, f, on),
           InCall(c) => Between
    PROVE  AgreeInv'
<1>1. PICK k : Goes(c, k) /\ k.step = "notify"
  BY DEF SetFeatureEnabled, Commit
<1>2. CallInv
  BY DEF SupervisionInv, SupervisorTyped
<1>3. InCall(c)'
  BY <1>1, <1>2, Gone DEF InCall
<1>4. Between
  BY <1>1, <1>2, <1>3, BeginsBetween
<1>5. Agreeing(c)'
  BY <1>4, SetAgrees
<1> QED
  BY <1>1, <1>2, <1>3, <1>5, OneCallAgrees

LEMMA CheckAgrees ==
    ASSUME SupervisionInv, AgreeInv, Serialized, Serialized', NEW c \in Callers,
           ~InCall(c), NEW isWarm \in BOOLEAN, UpdateAffinityWarm(c, isWarm)
    PROVE  AgreeInv'
<1>1. CallInv /\ UNCHANGED <<enabled, mActiveAlert, mode, manual, curveSet>>
  BY DEF UpdateAffinityWarm, SupervisionInv, SupervisorTyped
<1>2. \A d \in Callers \ {c} : call'[d] = call[d]
  BY <1>1 DEF UpdateAffinityWarm, Goes, CallInv
<1>3. CASE Goes(c, Idle)
  <2>1. ~InCall(c)'
    BY <1>1, <1>3, Gone DEF Idle, InCall
  <2>2. \A d \in Callers : call'[d] = call[d] \/ (~InCall(d) /\ ~InCall(d)')
    BY <1>2, <2>1
  <2> QED
    BY <1>1, <2>2, OutsideAgrees
<1>4. CASE Goes(c, [step |-> "warm", on |-> isWarm])
  <2>1. PICK k : Goes(c, k) /\ k.step = "warm"
    BY <1>4
  <2>2. call'[c].step = "warm"
    BY <1>1, <2>1, Gone
  <2>3. InCall(c)'
    BY <2>2 DEF InCall
  <2>4. Between
    BY <1>1, <2>1, <2>3, BeginsBetween
  <2>5. Between'
    BY <1>1, <2>4 DEF Between, Settled, AlertKept, Following, PolicyFollows, Target
  <2>6. Agreeing(c)'
    BY <2>2, <2>5 DEF Agreeing
  <2> QED
    BY <1>1, <2>1, <2>3, <2>6, OneCallAgrees
<1> QED
  BY <1>3, <1>4 DEF UpdateAffinityWarm

LEMMA ManualAgrees ==
    ASSUME SupervisionInv, AgreeInv, Serialized, Serialized', NEW c \in Callers,
           ~InCall(c), NEW name \in Policies, SwitchManually(c, name)
    PROVE  AgreeInv'
<1>1. CallInv /\ UNCHANGED <<enabled, mActiveAlert, mode, manual, curveSet>>
  BY DEF SwitchManually, BeginSwitch, SupervisionInv, SupervisorTyped
<1>2. PICK k : Goes(c, k) /\ k.step = "switch" /\ k.byUser = TRUE
  BY DEF SwitchManually, BeginSwitch
<1>3. call'[c].step = "switch" /\ call'[c].byUser = TRUE
  BY <1>1, <1>2, Gone
<1>4. InCall(c)'
  BY <1>3 DEF InCall
<1>5. Between
  BY <1>1, <1>2, <1>4, BeginsBetween
<1>6. Settled'
  BY <1>1, <1>5 DEF Between, Settled, AlertKept, Following, Target
<1>7. Agreeing(c)'
  BY <1>3, <1>6 DEF Agreeing
<1> QED
  BY <1>1, <1>2, <1>4, <1>7, OneCallAgrees

(* What a call does once it is under way.                                  *)
LEMMA ContinueAgrees ==
    ASSUME SupervisionInv, AgreeInv, Serialized, Serialized', NEW c \in Callers,
           Continue(c)
    PROVE  AgreeInv'
<1>1. CallInv /\ Agreeing(c)
  BY DEF SupervisionInv, SupervisorTyped, AgreeInv
<1>2. InCall(c)
  BY DEF Continue, Replace, ReplaceRefused, StoreActiveAlert, SetAffinityWarm,
         ObserveChange, ObservePolicy, CompleteSwitch, InCall
<1>3. ASSUME NEW k, Goes(c, k), Agreeing(c)', InCall(c)'
      PROVE  AgreeInv'
  BY <1>1, <1>2, <1>3, OneCallAgrees
<1>4. CASE Replace(c)
  <2>1. PICK k : Goes(c, k) /\ k.step = "notify"
    BY <1>4 DEF Replace, Commit
  <2> QED
    BY <1>1, <1>3, <1>4, <2>1, Gone, ReplaceAgrees DEF InCall
<1>5. CASE ReplaceRefused(c) \/ StoreActiveAlert(c)
  <2>1. Goes(c, Idle)
    BY <1>5 DEF ReplaceRefused, StoreActiveAlert
  <2>2. ~InCall(c)'
    BY <1>1, <2>1, Gone DEF Idle, InCall
  <2>3. Between'
    BY <1>1, <1>5, ReturnAgrees
  <2> QED
    BY <1>1, <1>2, <2>1, <2>2, <2>3, OneCallAgrees
<1>6. CASE SetAffinityWarm(c)
  <2>1. call[c].on \in BOOLEAN
    BY <1>1, <1>6, CallKind DEF SetAffinityWarm, WarmCall, CallInv
  <2>2. Between
    BY <1>1, <1>6 DEF SetAffinityWarm, Agreeing
  <2>3. Warm \in Extra
    BY DEF Warm, Extra
  <2> QED
    BY <1>6, <2>1, <2>2, <2>3, CommitBegins DEF SetAffinityWarm
<1>7. CASE ObserveChange(c)
  <2>1. PICK k : Goes(c, k) /\ k.step = "notify"
    <3>1. NotifyCall(call[c])
      BY <1>1, <1>7, CallKind DEF ObserveChange, CallInv
    <3>2. PICK change \in call[c].changes :
             Goes(c, [call[c] EXCEPT !.changes = @ \ {change}])
      BY <1>7 DEF ObserveChange
    <3>3. NotifyCall([call[c] EXCEPT !.changes = @ \ {change}])
      BY <3>1, Remaining
    <3> QED
      BY <3>2, <3>3 DEF NotifyCall
  <2> QED
    BY <1>1, <1>3, <1>7, <2>1, Gone, ObserveAgrees DEF InCall
<1>8. CASE ObservePolicy(c)
  <2>1. PICK k : Goes(c, k) /\ k.step = "switch"
    BY <1>8 DEF ObservePolicy, BeginSwitch
  <2> QED
    BY <1>1, <1>3, <1>8, <2>1, Gone, BeginAgrees DEF InCall
<1>9. CASE CompleteSwitch(c)
  <2>1. PICK k : Goes(c, k)
    BY <1>9 DEF CompleteSwitch
  <2> QED
    BY <1>1, <1>2, <1>9, <2>1, CompleteAgrees, OneCallAgrees
<1> QED
  BY <1>4, <1>5, <1>6, <1>7, <1>8, <1>9 DEF Continue

LEMMA TickAgrees ==
    ASSUME SupervisionInv, AgreeInv, Serialized, Serialized', NEW c \in Callers,
           TickStep(c)
    PROVE  AgreeInv'
<1>1. CallInv
  BY DEF SupervisionInv, SupervisorTyped
<1>2. CASE Tick(c) \/ SampleNode(c)
  <2>1. PICK k : Goes(c, k) /\ k.step = "sample"
    <3>1. CASE Tick(c)
      BY <3>1 DEF Tick
    <3>2. CASE SampleNode(c)
      <4>1. SampleCall(call[c])
        BY <1>1, <3>2, CallKind DEF SampleNode, CallInv
      <4>2. [call[c] EXCEPT !.sample = Append(@, nodes[Len(@) + 1])].step = "sample"
        BY <4>1 DEF SampleCall
      <4> QED
        BY <3>2, <4>2 DEF SampleNode
    <3> QED
      BY <1>2, <3>1, <3>2
  <2>2. ~InCall(c) /\ ~InCall(c)'
    BY <1>1, <1>2, <2>1, Gone DEF Tick, SampleNode, Idle, InCall
  <2>3. \A d \in Callers \ {c} : call'[d] = call[d]
    BY <1>1, <2>1 DEF Goes, CallInv
  <2>4. \A d \in Callers : call'[d] = call[d] \/ (~InCall(d) /\ ~InCall(d)')
    BY <2>2, <2>3
  <2>5. UNCHANGED <<enabled, mActiveAlert, mode, manual, curveSet>>
    BY <1>2 DEF Tick, SampleNode
  <2> QED
    BY <2>4, <2>5, OutsideAgrees
<1>3. CASE Evaluate(c)
  <2>1. ~InCall(c)
    BY <1>3 DEF Evaluate, InCall
  <2> QED
    BY <1>3, <2>1, ApplyAgrees, DeterminedAlert DEF Evaluate, AlertNames
<1> QED
  BY <1>2, <1>3 DEF TickStep

LEMMA CallerAgrees ==
    ASSUME SupervisionInv, AgreeInv, Serialized, Serialized', NEW c \in Callers,
           \/ TickStep(c)
           \/ CallStep(c)
           \/ EvaluateInference(c)
           \/ \E a \in Pushed : PushAlert(c, a)
           \/ \E on \in BOOLEAN : SetCurve(c, on) \/ CheckWarm(c, on)
           \/ \E p \in Wanted : UserSwitch(c, p)
    PROVE  AgreeInv'
<1>1. ASSUME NEW kind, UserCall(c, kind) PROVE ~InCall(c)
  BY <1>1 DEF UserCall, Idle, InCall
<1>2. CASE TickStep(c)
  BY <1>2, TickAgrees
<1>3. CASE CallStep(c)
  BY <1>3, ContinueAgrees DEF CallStep
<1>4. CASE EvaluateInference(c)
  BY <1>1, <1>4, ApplyAgrees DEF EvaluateInference
<1>5. ASSUME NEW a \in Pushed, PushAlert(c, a)
      PROVE  AgreeInv'
  BY <1>1, <1>5, ApplyAgrees, SupervisionAssumption DEF PushAlert
<1>6. ASSUME NEW on \in BOOLEAN, SetCurve(c, on)
      PROVE  AgreeInv'
  BY <1>1, <1>6, CommitBegins DEF SetCurve, Toggles, Extra
<1>7. ASSUME NEW on \in BOOLEAN, CheckWarm(c, on)
      PROVE  AgreeInv'
  BY <1>1, <1>7, CheckAgrees DEF CheckWarm
<1>8. ASSUME NEW p \in Wanted, UserSwitch(c, p)
      PROVE  AgreeInv'
  BY <1>1, <1>8, ManualAgrees, SupervisionAssumption DEF UserSwitch
<1> QED
  BY <1>2, <1>3, <1>4, <1>5, <1>6, <1>7, <1>8

LEMMA InitAgrees == Init => AgreeInv
<1> SUFFICES ASSUME Init PROVE AgreeInv
  OBVIOUS
<1> DEFINE policy == MakePolicy("policy.round_robin", TRUE, CompositeChain)
<1>1. policy.kind = "policy.round_robin"
  BY MadePolicy DEF AlertPolicies
<1> HIDE DEF policy
<1>2. mode = [policy |-> policy, aging |-> FALSE, degradation |-> TRUE,
              shed |-> FALSE, strict |-> FALSE]
  BY DEF Init, SupervisorInit, policy
<1>3. /\ mode.policy.kind = "policy.round_robin"
      /\ mode["aging"] = FALSE
      /\ mode["shed"] = FALSE
      /\ mode["strict"] = FALSE
  BY <1>1, <1>2
<1>4. enabled = {"alert.none", "policy.round_robin"} /\ mActiveAlert = ""
  BY DEF Init, SupervisorInit, Closure, Entails
<1>5. Following({})
  <2>1. /\ Toggles["aging"] \notin enabled
        /\ Toggles["shed"] \notin enabled
        /\ Toggles["strict"] \notin enabled
    BY <1>4 DEF Toggles
  <2>2. ASSUME NEW k \in {"aging", "shed", "strict"}
        PROVE  mode[k] = (Toggles[k] \in enabled)
    <3>1. mode[k] = FALSE
      BY <1>3, Zenon
    <3>2. Toggles[k] \notin enabled
      BY <2>1, Zenon
    <3>3. (Toggles[k] \in enabled) = FALSE
      BY <3>2
    <3> QED
      BY <3>1, <3>3, Zenon
  <2>3. ~curveSet
    BY DEF Init, SupervisorInit
  <2>4. DOMAIN Toggles = {"aging", "degradation", "shed", "strict"}
    BY DEF Toggles
  <2> QED
    BY <2>2, <2>3, <2>4 DEF Following
<1>6. Between
  BY <1>3, <1>4, <1>5 DEF Between, Settled, AlertKept, PolicyFollows, Target
<1>7. \A c \in Callers : call[c].step = "idle"
  BY DEF Init, SupervisorInit, Idle
<1> QED
  BY <1>6, <1>7 DEF AgreeInv, Agreeing

LEMMA StepAgrees ==
    SupervisionInv /\ AgreeInv /\ Serialized /\ Serialized' /\ [Next]_vars => AgreeInv'
<1> SUFFICES ASSUME SupervisionInv, AgreeInv, Serialized, Serialized', [Next]_vars
             PROVE  AgreeInv'
  OBVIOUS
<1>1. ASSUME UNCHANGED <<enabled, mActiveAlert, call, mode, manual, curveSet>>
      PROVE  AgreeInv'
  BY <1>1, OutsideAgrees
<1>2. CASE \E n \in 1..NodeCount, s \in States : NodeState(n, s)
  BY <1>1, <1>2 DEF NodeState, NodeChanges, supervisorVars
<1>3. CASE \E n \in 1..NodeCount, p \in Latencies : NodeCompletes(n, p)
  BY <1>1, <1>3 DEF NodeCompletes, NodeChanges, supervisorVars
<1>4. CASE \E c \in Callers :
              \/ TickStep(c)
              \/ CallStep(c)
              \/ EvaluateInference(c)
              \/ \E a \in Pushed : PushAlert(c, a)
              \/ \E on \in BOOLEAN : SetCurve(c, on) \/ CheckWarm(c, on)
              \/ \E p \in Wanted : UserSwitch(c, p)
  BY <1>4, CallerAgrees
<1>5. CASE InferFromSnapshot \/ InferBadly
  BY <1>1, <1>5 DEF InferFromSnapshot, InferBadly, Infer, supervisorVars
<1>6. CASE (SubmitJob /\ UNCHANGED environment) \/ ReadGate \/ EndJob
  BY <1>1, <1>6 DEF SubmitJob, ReadGate, PassGate, RefusedAtGate, EndJob, JobEnds
<1>7. CASE UNCHANGED vars
  BY <1>1, <1>7 DEF vars, supervisorVars
<1> QED
  BY <1>2, <1>3, <1>4, <1>5, <1>6, <1>7 DEF Next

LEMMA AgreeImplies == AgreeInv => SupervisorAgrees
<1> SUFFICES ASSUME AgreeInv, \A c \in Callers : ~InCall(c)
             PROVE  /\ Target(mActiveAlert) \in enabled
                    /\ \A k \in DOMAIN Toggles :
                          \/ mode[k] = (Toggles[k] \in enabled)
                          \/ k = "degradation" /\ ~curveSet
                    /\ manual \/ mode.policy.kind \in enabled
  BY DEF SupervisorAgrees
<1>1. Between
  BY DEF AgreeInv
<1> QED
  BY <1>1 DEF Between, Settled, AlertKept, Following, PolicyFollows

(* Any number of threads may call the supervisor: as long as no two of     *)
(* their calls overlap, the alert it shows, the features of its manager    *)
(* and the Balancer's policy and toggles agree after each of them.         *)
THEOREM AgreesWhenSerialized == Spec /\ []Serialized => []SupervisorAgrees
BY SupervisionInvariant, InitAgrees, StepAgrees, AgreeImplies, PTL DEF Spec

(* One thread's calls do not overlap: the demo, which is single-threaded,  *)
(* always finds its supervisor and its Balancer in agreement.              *)
THEOREM OneCallerAgrees ==
    ASSUME NEW main, Callers = {main}
    PROVE  Spec => []SupervisorAgrees
<1>1. Serialized
  BY DEF Serialized
<1> QED
  BY <1>1, AgreesWhenSerialized, PTL

(* The manager refuses no alert that there is: without overlapping calls,  *)
(* evaluate() of an advisor cannot fail but for a name that no feature has *)
(* (pushNNAlert).                                                          *)
RefusesUnknownOnly ==
    \A c \in Callers :
       call[c].step = "replace" /\ call[c].to # Unknown =>
          CanReplace(enabled, call[c].from, call[c].to)

THEOREM KnownAlertsApply == Spec /\ []Serialized => []RefusesUnknownOnly
<1>1. SupervisionInv /\ AgreeInv => RefusesUnknownOnly
  <2> SUFFICES ASSUME SupervisionInv, AgreeInv, NEW c \in Callers,
                      call[c].step = "replace", call[c].to # Unknown
               PROVE  CanReplace(enabled, call[c].from, call[c].to)
    BY DEF RefusesUnknownOnly
  <2>1. ReplaceCall(call[c])
    BY CallKind DEF SupervisionInv, SupervisorTyped, CallInv
  <2>2. call[c].from \in enabled
    BY DEF AgreeInv, Agreeing, Between, Settled, AlertKept
  <2>3. Serves(enabled, call[c].from)
    BY <2>1, <2>2, ServedAlert DEF ReplaceCall, SupervisionInv, SupervisorTyped, FeatureInv
  <2> QED
    BY <2>1, <2>3, ReplaceServes DEF ReplaceCall
<1> QED
  BY <1>1, SupervisionInvariant, InitAgrees, StepAgrees, PTL DEF Spec

-----------------------------------------------------------------------------
(* A snapshot keeps the number of overloaded nodes, as long as a node is   *)
(* at least two parts of the fraction's precision.                         *)

LEMMA Quotient ==
    ASSUME NEW a \in Nat, NEW b \in Nat \ {0}
    PROVE  /\ a \div b \in Nat
           /\ (a \div b) * b <= a
           /\ a < (a \div b) * b + b
<1>1. a = b * (a \div b) + (a % b) /\ a % b \in 0..(b - 1) /\ a \div b \in Nat
  BY SMTT(30)
<1> QED
  BY <1>1, SMTT(30)

LEMMA QuotientIs ==
    ASSUME NEW a \in Nat, NEW b \in Nat \ {0}, NEW k \in Nat,
           k * b <= a, a < k * b + b
    PROVE  a \div b = k
<1> DEFINE m == a \div b
<1>1. m \in Nat /\ m * b <= a /\ a < m * b + b
  BY Quotient
<1> HIDE DEF m
<1>2. ASSUME m < k PROVE FALSE
  <2>1. (m + 1) * b <= k * b
    BY <1>1, <1>2, SMTT(30)
  <2>2. (m + 1) * b = m * b + b
    BY <1>1, SMTT(30)
  <2> QED
    BY <1>1, <2>1, <2>2, SMTT(30)
<1>3. ASSUME k < m PROVE FALSE
  <2>1. (k + 1) * b <= m * b
    BY <1>1, <1>3, SMTT(30)
  <2>2. (k + 1) * b = k * b + b
    BY SMTT(30)
  <2> QED
    BY <1>1, <2>1, <2>2, SMTT(30)
<1>4. m = k
  BY <1>1, <1>2, <1>3
<1> QED
  BY <1>4 DEF m

LEMMA RoundingRestores ==
    ASSUME NEW k \in Nat, NEW n \in Nat \ {0}, NEW unit \in Nat \ {0},
           2 * n <= unit
    PROVE  (((k * unit) \div n) * n + unit \div 2) \div unit = k
<1> DEFINE q == (k * unit) \div n
           h == unit \div 2
<1>1. k * unit \in Nat
  BY SMTT(30)
<1>2. q \in Nat /\ q * n <= k * unit /\ k * unit < q * n + n
  BY <1>1, Quotient
<1>3. h \in Nat /\ n <= h /\ h < unit
  OBVIOUS
<1> HIDE DEF q, h
<1>4. q * n \in Nat
  BY <1>2, SMTT(30)
<1>5. q * n + h \in Nat /\ k * unit <= q * n + h /\ q * n + h < k * unit + unit
  BY <1>1, <1>2, <1>3, <1>4
<1>6. (q * n + h) \div unit = k
  BY <1>5, QuotientIs
<1> QED
  BY <1>6 DEF q, h

LEMMA CountFinite ==
    ASSUME SupervisionInv, NEW S, S \subseteq DOMAIN nodes
    PROVE  Cardinality(S) \in Nat
<1>1. DOMAIN nodes = 1..NodeCount
  BY DEF SupervisionInv, EnvironmentInv
<1>2. IsFiniteSet(1..NodeCount)
  BY SupervisionAssumption, FS_Interval
<1> QED
  BY <1>1, <1>2, FS_Subset, FS_CardinalityType

LEMMA SnapshotKeepsOverloaded ==
    ASSUME SupervisionInv, 2 * NodeCount <= FractionUnit
    PROVE  OverloadedNodes(CaptureSnapshot(nodes)) = Cardinality(Overloaded(nodes))
<1> DEFINE k == Cardinality(Overloaded(nodes))
           snap == CaptureSnapshot(nodes)
<1>1. NodeCount \in Nat /\ FractionUnit \in Nat \ {0}
  BY SupervisionAssumption, TelemetryAssumption
<1>2. nodes \in [1..NodeCount -> Readings] /\ DOMAIN nodes = 1..NodeCount
  BY DEF SupervisionInv, EnvironmentInv
<1>3. nodes \in Seq(Readings) /\ Len(nodes) = NodeCount
  BY <1>1, <1>2
<1>4. k \in Nat
  BY CountFinite DEF Overloaded
<1>5. snap.nodes = NodeCount
  BY <1>3 DEF CaptureSnapshot
<1>6. CASE NodeCount = 0
  <2>1. nodes = <<>>
    BY <1>3, <1>6
  <2>2. snap.overloadedFraction = 0
    BY <2>1 DEF CaptureSnapshot
  <2>3. Overloaded(nodes) = {}
    BY <1>1, <1>2, <1>6 DEF Overloaded
  <2>4. k = 0
    BY <2>3, FS_EmptySet
  <2>5. OverloadedNodes(snap) = (0 * 0 + FractionUnit \div 2) \div FractionUnit
    BY <1>5, <1>6, <2>2 DEF OverloadedNodes
  <2>6. (0 * 0 + FractionUnit \div 2) \div FractionUnit = 0
    BY <1>1
  <2> QED
    BY <2>4, <2>5, <2>6
<1>7. CASE NodeCount # 0
  <2>1. nodes # <<>>
    BY <1>3, <1>7
  <2>2. snap.overloadedFraction = (k * FractionUnit) \div NodeCount
    BY <1>3, <2>1 DEF CaptureSnapshot
  <2> HIDE DEF k, snap
  <2>3. (((k * FractionUnit) \div NodeCount) * NodeCount + FractionUnit \div 2)
           \div FractionUnit = k
    BY <1>1, <1>4, <1>7, RoundingRestores
  <2>4. OverloadedNodes(snap) = k
    BY <1>5, <2>2, <2>3, Zenon DEF OverloadedNodes
  <2> QED
    BY <2>4 DEF k, snap
<1> QED
  BY <1>6, <1>7

(* For any cluster, thresholds and readings: an external process that      *)
(* reads a snapshot finds the alert that a tick would find, except that    *)
(* nodes that are not active can move the mean latency (SimulatedCluster:: *)
(* captureSnapshot, TelemetryAdvisor::toClusterMetrics).  A float's        *)
(* precision satisfies the assumption up to some eight million nodes.      *)
THEOREM SnapshotsAgree ==
    ASSUME 2 * NodeCount <= FractionUnit
    PROVE  Spec => []SnapshotAgrees
<1>1. SupervisionInv => SnapshotAgrees
  <2> SUFFICES ASSUME SupervisionInv PROVE SnapshotAgrees
    OBVIOUS
  <2> DEFINE m == BuildClusterMetrics(nodes)
             s == ToClusterMetrics(CaptureSnapshot(nodes))
             live == DetermineAlert(m)
             seen == DetermineAlert(s)
  <2>1. s = Metrics(Cardinality(Active(nodes)), Cardinality(Unavailable(nodes)),
                    Cardinality(Overloaded(nodes)),
                    MeanP50(nodes, Completed(nodes)))
    BY SnapshotKeepsOverloaded DEF ToClusterMetrics, CaptureSnapshot
  <2>2. /\ m.knownNodes = s.knownNodes
        /\ m.unavailableNodes = s.unavailableNodes
        /\ m.activeNodes = s.activeNodes
        /\ m.meanP50LatencyUs = MeanP50(nodes, Active(nodes) \cap Completed(nodes))
        /\ s.meanP50LatencyUs = MeanP50(nodes, Completed(nodes))
    BY <2>1 DEF BuildClusterMetrics, Metrics
  <2>3. CASE Completed(nodes) \subseteq Active(nodes)
    <3>1. Active(nodes) \cap Completed(nodes) = Completed(nodes)
      BY <2>3
    <3>2. m.meanP50LatencyUs = s.meanP50LatencyUs
      BY <2>2, <3>1
    <3>3. seen = live
      BY <2>2, <3>2 DEF DetermineAlert
    <3> QED
      BY <3>3 DEF SnapshotAgrees
  <2>4. CASE ~(Completed(nodes) \subseteq Active(nodes))
    <3>1. PICK n \in DOMAIN nodes : HasCompleted(nodes[n]) /\ ~IsActive(nodes[n])
      BY <2>4 DEF Completed, Active
    <3>2. n \in 1..NodeCount
      BY DEF SupervisionInv, EnvironmentInv
    <3>3. seen = live \/ {seen, live} = {"", "alert.latency"}
      BY <2>2 DEF DetermineAlert
    <3> QED
      BY <3>1, <3>2, <3>3 DEF SnapshotAgrees
  <2> QED
    BY <2>3, <2>4
<1> QED
  BY <1>1, SupervisionInvariant, PTL

-----------------------------------------------------------------------------
(* A call takes a bounded number of steps, whatever the other callers do.  *)

Most == 2 * Cardinality(Features \X BOOLEAN) + 2

(* The steps that a call may still take; a switch is one.                  *)
StepsLeft(k) ==
    CASE k.step \in {"replace", "warm"} -> Most
      [] k.step = "notify" -> 2 * Cardinality(k.changes) + 1
      [] k.step = "switch" ->
            IF k.byUser THEN 1 ELSE 2 * Cardinality(k.next.changes) + 2
      [] OTHER -> 0

(* Nobody's step moves a call of another, and its own bring it nearer to   *)
(* its end.  So a call can only last by waiting: for another switch, or    *)
(* for the jobs in flight (Balancer::switchPolicy).                        *)
CallsAreShort ==
    [][\A c \in Callers : InCall(c) =>
          \/ call'[c] = call[c]
          \/ StepsLeft(call'[c]) < StepsLeft(call[c])]_vars

LEMMA FeaturesFinite == IsFiniteSet(Features)
<1>1. IsFiniteSet({}) /\ \A S, x : IsFiniteSet(S) => IsFiniteSet(S \cup {x})
  BY FS_EmptySet, FS_AddElement
<1>2. IsFiniteSet(Alerts)
  <2>1. Alerts = ((({} \cup {"alert.none"}) \cup {"alert.overload"})
                     \cup {"alert.latency"}) \cup {"alert.node_fault"}
    BY DEF Alerts
  <2> QED
    BY <1>1, <2>1, Zenon
<1>3. IsFiniteSet(Policies)
  <2>1. Policies = (((({} \cup {"policy.round_robin"}) \cup {"policy.least_loaded"})
                       \cup {"policy.affinity_routing"}) \cup {"policy.work_stealing"})
                       \cup {"policy.composite"}
    BY DEF Policies
  <2> QED
    BY <1>1, <2>1, Zenon
<1>4. IsFiniteSet(Behaviours)
  <2>1. Behaviours = ((({} \cup {"feature.affinity_matrix"})
                         \cup {"feature.affinity_matrix_warm"})
                         \cup {"feature.aging"}) \cup {"feature.degradation_curve"}
    BY DEF Behaviours
  <2> QED
    BY <1>1, <2>1, Zenon
<1>5. IsFiniteSet(Admissions)
  <2>1. Admissions = ({} \cup {"admission.bulk_shed"}) \cup {"admission.strict"}
    BY DEF Admissions
  <2> QED
    BY <1>1, <2>1, Zenon
<1> QED
  BY <1>2, <1>3, <1>4, <1>5, FS_Union DEF Features

LEMMA ListLength ==
    ASSUME NEW S, S \subseteq Features \X BOOLEAN
    PROVE  /\ Cardinality(S) \in Nat
           /\ Most \in Nat /\ 2 * Cardinality(S) + 1 < Most
           /\ \A x \in S : /\ Cardinality(S \ {x}) \in Nat
                           /\ Cardinality(S \ {x}) = Cardinality(S) - 1
<1>1. IsFiniteSet(BOOLEAN)
  <2>1. BOOLEAN = {TRUE} \cup {FALSE}
    OBVIOUS
  <2>2. IsFiniteSet({TRUE})
    BY FS_Singleton
  <2>3. IsFiniteSet({TRUE} \cup {FALSE})
    BY <2>2, FS_AddElement
  <2> QED
    BY <2>1, <2>3
<1>2. IsFiniteSet(Features \X BOOLEAN)
  BY <1>1, FeaturesFinite, FS_Product
<1>3. /\ IsFiniteSet(S) /\ Cardinality(S) \in Nat
      /\ Cardinality(S) <= Cardinality(Features \X BOOLEAN)
      /\ Cardinality(Features \X BOOLEAN) \in Nat
  BY <1>2, FS_Subset, FS_CardinalityType
<1>4. ASSUME NEW x \in S
      PROVE  /\ Cardinality(S \ {x}) \in Nat
             /\ Cardinality(S \ {x}) = Cardinality(S) - 1
  BY <1>3, FS_RemoveElement, FS_CardinalityType
<1> QED
  BY <1>3, <1>4 DEF Most

(* The steps of a call under way, by what it is at.                        *)
LEMMA LeftOf ==
    /\ StepsLeft(Idle) = 0
    /\ \A k : k.step \in {"replace", "warm"} => StepsLeft(k) = Most
    /\ \A k : k.step = "notify" => StepsLeft(k) = 2 * Cardinality(k.changes) + 1
    /\ \A k : k.step = "switch" /\ k.byUser = TRUE => StepsLeft(k) = 1
    /\ \A k : k.step = "switch" /\ k.byUser = FALSE =>
                StepsLeft(k) = 2 * Cardinality(k.next.changes) + 2
BY DEF StepsLeft, Idle

LEMMA ContinueShortens ==
    ASSUME SupervisionInv, NEW c \in Callers, Continue(c)
    PROVE  StepsLeft(call'[c]) < StepsLeft(call[c])
<1>1. CallInv /\ CallOK(call[c])
  BY DEF SupervisionInv, SupervisorTyped, CallInv
<1>2. PICK a \in Alerts : Serves(enabled, a)
  BY DEF SupervisionInv, SupervisorTyped, FeatureInv, FollowsAlert
<1>3. enabled \subseteq Features
  BY <1>2, ServesOne
<1>4. ASSUME NEW S, S \subseteq Features, NEW alert, Commit(c, S, alert),
             call[c].step \in {"replace", "warm"}
      PROVE  StepsLeft(call'[c]) < StepsLeft(call[c])
  <2>1. call'[c] = [step |-> "notify", changes |-> Changes(enabled, S), to |-> alert]
    BY <1>1, <1>4, Gone DEF Commit
  <2>2. call'[c].step = "notify" /\ call'[c].changes = Changes(enabled, S)
    BY <2>1
  <2>3. Changes(enabled, S) \subseteq Features \X BOOLEAN
    BY <1>3, <1>4, ChangesTyped
  <2> QED
    BY <1>4, <2>2, <2>3, LeftOf, ListLength
<1>5. CASE Replace(c)
  <2>1. Replaced(enabled, call[c].from, call[c].to) \subseteq Features
    <3>1. call[c].to \in Features
      BY <1>5 DEF Replace, CanReplace
    <3>2. Closure(call[c].to) \subseteq Features
      BY <3>1, AlertClosure, NothingElseEntails DEF Closure
    <3>3. Without(enabled, call[c].from) \subseteq enabled
      BY DEF Without
    <3> QED
      BY <1>3, <3>2, <3>3 DEF Replaced
  <2> QED
    BY <1>4, <1>5, <2>1 DEF Replace
<1>6. CASE SetAffinityWarm(c)
  <2> DEFINE S == IF call[c].on THEN enabled \cup Closure(Warm) ELSE Without(enabled, Warm)
  <2>1. S \subseteq Features
    <3>1. Warm \in Features /\ Warm \notin Alerts
      BY ExtraFeatures DEF Warm, Extra
    <3>2. Closure(Warm) = {Warm}
      BY <3>1, NothingElseEntails DEF Closure
    <3>3. Without(enabled, Warm) \subseteq enabled
      BY DEF Without
    <3> QED
      BY <1>3, <3>1, <3>2, <3>3
  <2>2. Commit(c, S, NoAlert) /\ call[c].step = "warm"
    BY <1>6 DEF SetAffinityWarm, SetFeatureEnabled
  <2> QED
    BY <1>4, <2>1, <2>2
<1>7. CASE ReplaceRefused(c) \/ StoreActiveAlert(c)
  <2>1. call'[c] = Idle
    BY <1>1, <1>7, Gone DEF ReplaceRefused, StoreActiveAlert
  <2>2. CASE ReplaceRefused(c)
    <3>1. Most \in Nat /\ Most > 0
      BY ListLength, FS_EmptySet
    <3> QED
      BY <2>1, <2>2, <3>1, LeftOf DEF ReplaceRefused
  <2>3. CASE StoreActiveAlert(c)
    BY <2>1, <2>3, LeftOf, FS_EmptySet DEF StoreActiveAlert
  <2> QED
    BY <1>7, <2>2, <2>3
<1>8. CASE ObserveChange(c)
  <2>1. NotifyCall(call[c])
    BY <1>1, <1>8, CallKind DEF ObserveChange
  <2>2. PICK change \in call[c].changes :
           Goes(c, [call[c] EXCEPT !.changes = @ \ {change}])
    BY <1>8 DEF ObserveChange
  <2>3. /\ call'[c].step = "notify"
        /\ call'[c].changes = call[c].changes \ {change}
    <3>1. call'[c] = [call[c] EXCEPT !.changes = @ \ {change}]
      BY <1>1, <2>2, Gone
    <3> QED
      BY <2>1, <3>1 DEF NotifyCall
  <2>4. call[c].changes \subseteq Features \X BOOLEAN /\ call[c].step = "notify"
    BY <2>1 DEF NotifyCall
  <2> QED
    BY <2>3, <2>4, LeftOf, ListLength
<1>9. CASE ObservePolicy(c)
  <2>1. NotifyCall(call[c])
    BY <1>1, <1>9, CallKind DEF ObservePolicy
  <2>2. PICK change \in call[c].changes :
           BeginSwitch(c, MakePolicy(change[1], TRUE, CompositeChain), FALSE,
                       [call[c] EXCEPT !.changes = @ \ {change}])
    BY <1>9 DEF ObservePolicy
  <2> DEFINE rest == [call[c] EXCEPT !.changes = @ \ {change}]
  <2>3. rest.changes = call[c].changes \ {change}
    BY <2>1 DEF NotifyCall
  <2> HIDE DEF rest
  <2>4. call'[c] = [step |-> "switch",
                    policy |-> MakePolicy(change[1], TRUE, CompositeChain),
                    byUser |-> FALSE, next |-> rest]
    BY <1>1, <2>2, Gone DEF BeginSwitch, rest
  <2>5. /\ call'[c].step = "switch" /\ call'[c].byUser = FALSE
        /\ call'[c].next.changes = call[c].changes \ {change}
    BY <2>3, <2>4
  <2>6. call[c].changes \subseteq Features \X BOOLEAN /\ call[c].step = "notify"
    BY <2>1 DEF NotifyCall
  <2> QED
    BY <2>5, <2>6, LeftOf, ListLength
<1>10. CASE CompleteSwitch(c)
  <2>1. SwitchCall(call[c]) /\ call[c].step = "switch"
    BY <1>1, <1>10, CallKind DEF CompleteSwitch
  <2>2. call'[c] = call[c].next
    BY <1>1, <1>10, Gone DEF CompleteSwitch
  <2>3. CASE call[c].byUser = TRUE
    BY <2>1, <2>2, <2>3, LeftOf DEF SwitchCall
  <2>4. CASE call[c].byUser = FALSE
    <3>1. NotifyCall(call[c].next)
      BY <2>1, <2>4 DEF SwitchCall
    <3>2. /\ call[c].next.step = "notify"
          /\ call[c].next.changes \subseteq Features \X BOOLEAN
      BY <3>1 DEF NotifyCall
    <3> QED
      BY <2>1, <2>2, <2>4, <3>2, LeftOf, ListLength
  <2> QED
    BY <2>1, <2>3, <2>4 DEF SwitchCall
<1> QED
  BY <1>5, <1>6, <1>7, <1>8, <1>9, <1>10 DEF Continue

(* However many callers there are, and whatever alerts, toggles and        *)
(* switches they ask for, each call ends within a fixed number of its own  *)
(* steps.                                                                  *)
THEOREM CallsEndInFewSteps == Spec => CallsAreShort
<1>1. ASSUME SupervisionInv, [Next]_vars, NEW c \in Callers, InCall(c)
      PROVE  call'[c] = call[c] \/ StepsLeft(call'[c]) < StepsLeft(call[c])
  <2>1. CallInv
    BY <1>1 DEF SupervisionInv, SupervisorTyped
  <2>2. ASSUME NEW d \in Callers, NEW k, Goes(d, k), d # c
        PROVE  call'[c] = call[c]
    BY <2>1, <2>2 DEF CallInv, Goes
  <2>3. ASSUME NEW d \in Callers, CallStep(d)
        PROVE  call'[c] = call[c] \/ StepsLeft(call'[c]) < StepsLeft(call[c])
    <3>1. PICK k : Goes(d, k)
      BY <2>3 DEF CallStep, Continue, Replace, ReplaceRefused, StoreActiveAlert,
            SetAffinityWarm, SetFeatureEnabled, Commit, ObserveChange, ObservePolicy,
            BeginSwitch, CompleteSwitch
    <3>2. CASE d = c
      BY <1>1, <2>3, <3>2, ContinueShortens DEF CallStep
    <3>3. CASE d # c
      BY <2>2, <3>1, <3>3
    <3> QED
      BY <3>2, <3>3
  <2>4. ASSUME NEW d \in Callers, ~InCall(d), NEW k, Goes(d, k)
        PROVE  call'[c] = call[c]
    <3>1. d # c
      BY <1>1, <2>4
    <3> QED
      BY <2>2, <2>4, <3>1
  <2>5. ASSUME NEW d \in Callers, TickStep(d)
        PROVE  call'[c] = call[c]
    <3>1. ~InCall(d)
      BY <2>5 DEF TickStep, Tick, SampleNode, Evaluate, InCall, Idle
    <3>2. PICK k : Goes(d, k)
      BY <2>5 DEF TickStep, Tick, SampleNode, Evaluate, ApplyChanges
    <3> QED
      BY <2>4, <3>1, <3>2
  <2>6. ASSUME NEW d \in Callers, NEW kind, UserCall(d, kind), NEW k, Goes(d, k)
        PROVE  call'[c] = call[c]
    <3>1. ~InCall(d)
      BY <2>6 DEF UserCall, InCall, Idle
    <3> QED
      BY <2>4, <2>6, <3>1
  <2>7. CASE \E d \in Callers :
                \/ EvaluateInference(d)
                \/ \E a \in Pushed : PushAlert(d, a)
                \/ \E on \in BOOLEAN : SetCurve(d, on) \/ CheckWarm(d, on)
                \/ \E p \in Wanted : UserSwitch(d, p)
    BY <2>6, <2>7 DEF EvaluateInference, PushAlert, SetCurve, CheckWarm, UserSwitch,
          ApplyChanges, SetFeatureEnabled, Commit, UpdateAffinityWarm, SwitchManually,
          BeginSwitch
  <2>8. CASE call' = call
    BY <2>8
  <2>9. CASE \E n \in 1..NodeCount, s \in States : NodeState(n, s)
    BY <2>8, <2>9 DEF NodeState, NodeChanges, supervisorVars
  <2>10. CASE \E n \in 1..NodeCount, p \in Latencies : NodeCompletes(n, p)
    BY <2>8, <2>10 DEF NodeCompletes, NodeChanges, supervisorVars
  <2>11. CASE InferFromSnapshot \/ InferBadly
    BY <2>8, <2>11 DEF InferFromSnapshot, InferBadly, Infer, supervisorVars
  <2>12. CASE SubmitJob \/ ReadGate \/ EndJob
    BY <2>8, <2>12 DEF SubmitJob, ReadGate, PassGate, RefusedAtGate, EndJob, JobEnds
  <2>13. CASE UNCHANGED vars
    BY <2>8, <2>13 DEF vars, supervisorVars
  <2>14. CASE \E d \in Callers :
                 \/ TickStep(d)
                 \/ CallStep(d)
                 \/ EvaluateInference(d)
                 \/ \E a \in Pushed : PushAlert(d, a)
                 \/ \E on \in BOOLEAN : SetCurve(d, on) \/ CheckWarm(d, on)
                 \/ \E p \in Wanted : UserSwitch(d, p)
    BY <2>3, <2>5, <2>7, <2>14
  <2> QED
    BY <1>1, <2>9, <2>10, <2>11, <2>12, <2>13, <2>14 DEF Next
<1>2. SupervisionInv /\ [Next]_vars =>
         [\A c \in Callers : InCall(c) =>
             \/ call'[c] = call[c]
             \/ StepsLeft(call'[c]) < StepsLeft(call[c])]_vars
  BY <1>1
<1> QED
  BY <1>2, SupervisionInvariant, PTL DEF Spec, CallsAreShort

-----------------------------------------------------------------------------
(* Several callers that switch at once still find the gate that Balancer   *)
(* and PolicySwitch are shown to be: no switch completes while a job is in *)
(* flight, and whoever is refused was never behind the gate                *)
(* (FeatureSupervisor::registerObserver, BalancerDemo, Balancer::submit).  *)
THEOREM SupervisionIsGate == Spec => ImplementsGate
<1> DEFINE passed == inFlight - atGate
<1>1. Init => Gate!Init
  <2>1. 1..(0 - 0) = {}
    OBVIOUS
  <2> QED
    BY <2>1 DEF Init, SupervisorInit, Gate!Init
<1>2. ASSUME SupervisionInv, [Next]_vars
      PROVE  [Gate!Next]_Gate!gateVars
  <2>1. /\ inFlight \in 0..MaxInFlight /\ MaxInFlight \in Nat
        /\ atGate \in 0..inFlight
    BY <1>2, SupervisorAssumption DEF SupervisionInv, SupervisorTyped, JobInv
  <2>2. CASE PassGate
    <3>1. /\ 1..passed' = (1..passed) \cup {passed + 1}
          /\ passed + 1 \in 1..MaxInFlight
          /\ mode' = mode
      BY <2>1, <2>2 DEF PassGate
    <3> QED
      BY <3>1 DEF Gate!Next, Gate!Enter
  <2>3. CASE JobEnds
    <3>1. /\ 1..passed' = (1..passed) \ {passed}
          /\ passed \in 1..MaxInFlight
          /\ mode' = mode
      BY <2>1, <2>3 DEF JobEnds
    <3> QED
      BY <3>1 DEF Gate!Next, Gate!Leave
  <2>4. ASSUME NEW c \in Callers, CompleteSwitch(c)
        PROVE  Gate!Exchange
    <3>1. inFlight = 0 /\ atGate = 0 /\ inFlight' = 0 /\ atGate' = 0
      BY <2>1, <2>4 DEF CompleteSwitch
    <3> QED
      BY <3>1 DEF Gate!Exchange
  <2>5. CASE passed' = passed /\ mode'.policy = mode.policy
    BY <2>5 DEF Gate!gateVars
  <2>6. ASSUME NEW c \in Callers, ObserveChange(c)
        PROVE  passed' = passed /\ mode'.policy = mode.policy
    <3>1. DOMAIN mode = ModeKeys
      BY <1>2 DEF SupervisionInv, SupervisorTyped, ModeInv
    <3>2. PICK change :
             mode' = [k \in DOMAIN mode |->
                        IF k = "policy" THEN mode[k] ELSE Toggled(k, change)]
      BY <2>6 DEF ObserveChange
    <3> QED
      BY <2>6, <3>1, <3>2 DEF ObserveChange, ModeKeys
  <2>7. ASSUME NEW c \in Callers,
               \/ TickStep(c)
               \/ CallStep(c) /\ ~CompleteSwitch(c) /\ ~ObserveChange(c)
               \/ EvaluateInference(c)
               \/ \E a \in Pushed : PushAlert(c, a)
               \/ \E on \in BOOLEAN : SetCurve(c, on) \/ CheckWarm(c, on)
               \/ \E p \in Wanted : UserSwitch(c, p)
        PROVE  passed' = passed /\ mode' = mode
    BY <2>7 DEF TickStep, Tick, SampleNode, Evaluate, CallStep, Continue, Replace,
          ReplaceRefused, StoreActiveAlert, SetAffinityWarm, ObservePolicy,
          EvaluateInference, PushAlert, SetCurve, CheckWarm, UserSwitch,
          ApplyChanges, SetFeatureEnabled, Commit, UpdateAffinityWarm, SwitchManually,
          BeginSwitch
  <2>8. CASE \E c \in Callers :
                \/ TickStep(c)
                \/ CallStep(c)
                \/ EvaluateInference(c)
                \/ \E a \in Pushed : PushAlert(c, a)
                \/ \E on \in BOOLEAN : SetCurve(c, on) \/ CheckWarm(c, on)
                \/ \E p \in Wanted : UserSwitch(c, p)
    BY <2>4, <2>5, <2>6, <2>7, <2>8 DEF Gate!Next
  <2>9. CASE passed' = passed /\ mode' = mode
    BY <2>5, <2>9
  <2>10. CASE SubmitJob \/ RefusedAtGate
    <3>1. passed' = passed /\ mode' = mode
      BY <2>1, <2>10 DEF SubmitJob, RefusedAtGate
    <3> QED
      BY <2>5, <3>1
  <2> QED
    BY <1>2, <2>2, <2>3, <2>8, <2>9, <2>10
       DEF Next, ReadGate, NodeState, NodeCompletes, NodeChanges, InferFromSnapshot, InferBadly,
           Infer, EndJob, supervisorVars, vars
<1> QED
  BY <1>1, <1>2, SupervisionInvariant, PTL DEF Spec, ImplementsGate, Gate!Spec
=============================================================================
