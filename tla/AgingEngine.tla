----------------------------- MODULE AgingEngine ----------------------------
(***************************************************************************)
(* AgingEngine: the priority of a job that waits rises band by band, and   *)
(* a job whose deadline has passed expires.  Balancer calls every          *)
(* operation under mAgingMutex.                                            *)
(***************************************************************************)
EXTENDS Naturals

CONSTANTS
    Jobs,
    bulkToLow, lowToNormal, normalToHigh, highToCritical,   \* AgingConfig
    highToCriticalEnabled,
    MaxTime                 \* bound of the clock

ASSUME AgingAssumption ==
    /\ {bulkToLow, lowToNormal, normalToHigh, highToCritical} \subseteq Nat
    /\ highToCriticalEnabled \in BOOLEAN
    /\ MaxTime \in Nat

Bands == 0..4       \* Critical, High, Normal, Low, Bulk
Never == MaxTime + 1
Untracked == [tracked |-> FALSE]

VARIABLES
    mTracked,       \* by job: its band, deadline and last promotion
    now             \* Clock::now()

agingVars == <<mTracked, now>>

AgingInit ==
    /\ mTracked = [j \in Jobs |-> Untracked]
    /\ now = 0

(* The time after which a band is left, Never from the highest ones.       *)
AgingThreshold(band) ==
    CASE band = 4 -> bulkToLow
      [] band = 3 -> lowToNormal
      [] band = 2 -> normalToHigh
      [] band = 1 /\ highToCriticalEnabled -> highToCritical
      [] OTHER -> Never

(* An entry that is tracked already stays.  "from" is the time and the     *)
(* band that it was tracked with (ghost).                                  *)
Track(j, band, deadline) ==
    IF mTracked[j].tracked
    THEN mTracked
    ELSE [mTracked EXCEPT ![j] =
             [tracked |-> TRUE, band |-> band, deadline |-> deadline,
              lastBumpAt |-> now, from |-> [band |-> band, time |-> now]]]

Expires(t) == t.tracked /\ now >= t.deadline

(* An untrack that leaves the entry for a later tick to expire.            *)
UntrackExpired(j) ==
    IF Expires(mTracked[j]) THEN [mTracked EXCEPT ![j] = Untracked] ELSE mTracked

Untrack(j) == [mTracked EXCEPT ![j] = Untracked]

Ages(t) ==
    /\ t.tracked
    /\ now < t.deadline
    /\ AgingThreshold(t.band) # Never
    /\ now - t.lastBumpAt >= AgingThreshold(t.band)

(* A promotion that leaves the aging clock running.                        *)
PromotedOnly(t) == [t EXCEPT !.band = @ - 1]

Promoted(t) == [t EXCEPT !.band = @ - 1, !.lastBumpAt = now]

(* tick(): an expired job leaves and is not promoted; another one rises by *)
(* one band at most.                                                       *)
AfterTick ==
    [j \in Jobs |-> CASE Expires(mTracked[j]) -> Untracked
                      [] Ages(mTracked[j])    -> Promoted(mTracked[j])
                      [] OTHER                -> mTracked[j]]

TimePasses ==
    /\ now < MaxTime
    /\ now' = now + 1
=============================================================================
