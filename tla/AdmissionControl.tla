-------------------------- MODULE AdmissionControl --------------------------
(***************************************************************************)
(* AdmissionControl under concurrent callers: the three layers of          *)
(* evaluate(), the lazily refilled token buckets, the runtime modes, and   *)
(* the lock-free reservation of holding slots.                             *)
(*                                                                         *)
(* One action is one atomic access: a bucket under its mutex, the load of  *)
(* a mode flag, the load or the exchange of the slot counter.              *)
(*                                                                         *)
(* Tokens are counted in parts: one token is PartsPerToken parts, one tick *)
(* of the clock is 1/PartsPerToken of a second, and so a tick earns a      *)
(* bucket of rate R exactly R parts.  The float of the code is exact here. *)
(* The rejection counters, which nothing in the program reads, are left    *)
(* out.                                                                    *)
(***************************************************************************)
EXTENDS Integers, FiniteSets

CONSTANTS
    Threads,        \* threads that call evaluate()
    Priorities,     \* the priorities they submit with
    Rate,           \* Rate[b]: tokens per second of bucket b, 0 = unlimited
    PartsPerToken,
    Capacity,       \* AdmissionConfig::holdingQueueCapacity
    MaxTime         \* bound of the clock

Throttled == {"Normal", "Low", "Bulk"}     \* the priorities with a bucket
Buckets == {"global"} \cup Throttled
NoPriority == "none"                       \* of a thread outside evaluate()

ASSUME AdmissionAssumption ==
    /\ IsFiniteSet(Threads)
    /\ Priorities \subseteq {"Critical", "High"} \cup Throttled
    /\ Rate \in [Buckets -> Nat]
    /\ PartsPerToken \in Nat \ {0}
    /\ Capacity \in Nat
    /\ MaxTime \in Nat

VARIABLES
    now,                \* the clock, in ticks
    mTokens,            \* mTokens[b]: parts in bucket b at its last refill
    mLastRefill,        \* mLastRefill[b]: when that was
    mAdmissionStrict,
    mShedBulk,
    mHoldingQueueDepth,
    pc,                 \* pc[t]: where the evaluate() call of thread t is
    priority,           \* priority[t]: its arguments
    saturated,
    current,            \* current[t]: its local copy of the slot counter
    slots,              \* slots reserved and not yet released (ghost)
    window,             \* window[b]: a moment, and the tokens granted since (ghost)
    constant            \* constant[t]: what has been so since t called (ghost)

bucketVars == <<mTokens, mLastRefill, window>>
modeVars == <<mAdmissionStrict, mShedBulk>>
slotVars == <<mHoldingQueueDepth, slots>>
callVars == <<pc, priority, saturated, current>>

vars == <<now, bucketVars, modeVars, slotVars, callVars, constant>>

Full(b) == Rate[b] * PartsPerToken

Init ==
    /\ now = 0
    /\ mTokens = [b \in Buckets |-> Full(b)]
    /\ mLastRefill = [b \in Buckets |-> 0]
    /\ mAdmissionStrict = FALSE
    /\ mShedBulk = FALSE
    /\ mHoldingQueueDepth = 0
    /\ pc = [t \in Threads |-> "idle"]
    /\ priority = [t \in Threads |-> NoPriority]
    /\ saturated = [t \in Threads |-> FALSE]
    /\ current = [t \in Threads |-> 0]
    /\ slots = 0
    /\ window = [b \in Buckets |-> [from |-> 0, granted |-> 0]]
    /\ constant = [t \in Threads |-> {}]

----------------------------------------------------------------------------
(* TokenBucket.                                                            *)

AtMost(x, limit) == IF x <= limit THEN x ELSE limit

(* refill() is lazy: what the bucket holds now follows from what it held   *)
(* at the last refill.                                                     *)
Refilled(b) == AtMost(mTokens[b] + Rate[b] * (now - mLastRefill[b]), Full(b))

(* A refill that forgets the capacity.                                     *)
TryConsumeUncapped(b, granted) ==
    LET held == mTokens[b] + Rate[b] * (now - mLastRefill[b])
    IN  IF Rate[b] = 0
        THEN granted /\ UNCHANGED bucketVars
        ELSE /\ granted = (held >= PartsPerToken)
             /\ mTokens' = [mTokens EXCEPT ![b] = IF granted THEN held - PartsPerToken
                                                             ELSE held]
             /\ mLastRefill' = [mLastRefill EXCEPT ![b] = now]
             /\ window' = [window EXCEPT ![b].granted = IF granted THEN @ + 1 ELSE @]

(* tryConsume(): granted tells whether there was a token.                  *)
TryConsume(b, granted) ==
    IF Rate[b] = 0
    THEN granted /\ UNCHANGED bucketVars
    ELSE /\ granted = (Refilled(b) >= PartsPerToken)
         /\ mTokens' = [mTokens EXCEPT ![b] = Refilled(b) - IF granted THEN PartsPerToken
                                                                       ELSE 0]
         /\ mLastRefill' = [mLastRefill EXCEPT ![b] = now]
         /\ window' = [window EXCEPT ![b].granted = IF granted THEN @ + 1 ELSE @]

----------------------------------------------------------------------------
(* evaluate().                                                             *)

Goto(t, from, to) == pc[t] = from /\ pc' = [pc EXCEPT ![t] = to]

(* What has been true throughout the call so far.                          *)
Facts == (IF mAdmissionStrict THEN {"strict"} ELSE {})
             \cup (IF mShedBulk THEN {"shed"} ELSE {})

Evaluate(t) ==
    /\ Goto(t, "idle", "global")
    /\ \E p \in Priorities : priority' = [priority EXCEPT ![t] = p]
    /\ \E s \in BOOLEAN : saturated' = [saturated EXCEPT ![t] = s]
    /\ constant' = [constant EXCEPT ![t] = Facts]
    /\ UNCHANGED <<now, bucketVars, modeVars, slotVars, current>>

(* Layer 3 decides at once unless a holding slot is needed.                *)
Capacity3(t) ==
    IF ~saturated[t] THEN "admitted"
    ELSE IF priority[t] \in Throttled THEN "rejected" ELSE "load"

Quiet(t) == UNCHANGED <<now, modeVars, slotVars, priority, saturated, current, constant>>

GlobalLimit(t) ==
    /\ pc[t] = "global"
    /\ \E granted \in BOOLEAN :
          /\ TryConsume("global", granted)
          /\ Goto(t, "global", IF ~granted THEN "rejected"
                               ELSE IF priority[t] \in Throttled THEN "strict"
                               ELSE Capacity3(t))
    /\ Quiet(t)

(* Strict mode taken for a stronger bulk-shed mode.                        *)
ReadStrictForBulkOnly(t) ==
    /\ Goto(t, "strict", IF mAdmissionStrict /\ priority[t] = "Bulk" THEN "rejected"
                         ELSE IF priority[t] = "Bulk" THEN "shed" ELSE "limit")
    /\ UNCHANGED bucketVars
    /\ Quiet(t)

ReadStrict(t) ==
    /\ Goto(t, "strict", IF mAdmissionStrict THEN "rejected"
                         ELSE IF priority[t] = "Bulk" THEN "shed" ELSE "limit")
    /\ UNCHANGED bucketVars
    /\ Quiet(t)

ReadShed(t) ==
    /\ Goto(t, "shed", IF mShedBulk THEN "rejected" ELSE "limit")
    /\ UNCHANGED bucketVars
    /\ Quiet(t)

PriorityLimit(t) ==
    /\ pc[t] = "limit"
    /\ \E granted \in BOOLEAN :
          /\ TryConsume(priority[t], granted)
          /\ Goto(t, "limit", IF granted THEN Capacity3(t) ELSE "rejected")
    /\ Quiet(t)

----------------------------------------------------------------------------
(* tryReserveHoldingSlot().                                                *)

(* The bound compared with > instead of >=.                                *)
TryOffByOne(seen) == IF seen > Capacity THEN "full" ELSE "exchange"

(* The bound is checked on the local copy, before every attempt.           *)
Try(seen) == IF seen >= Capacity THEN "full" ELSE "exchange"

LoadDepth(t) ==
    /\ Goto(t, "load", Try(mHoldingQueueDepth))
    /\ current' = [current EXCEPT ![t] = mHoldingQueueDepth]
    /\ UNCHANGED <<now, bucketVars, modeVars, slotVars, priority, saturated, constant>>

(* A plain store in place of the compare-and-exchange.                     *)
ExchangeUnchecked(t) ==
    /\ Goto(t, "exchange", "admitted")
    /\ mHoldingQueueDepth' = current[t] + 1
    /\ slots' = slots + 1
    /\ UNCHANGED <<now, bucketVars, modeVars, priority, saturated, current, constant>>

Exchange(t) ==
    /\ mHoldingQueueDepth = current[t]
    /\ Goto(t, "exchange", "admitted")
    /\ mHoldingQueueDepth' = current[t] + 1
    /\ slots' = slots + 1
    /\ UNCHANGED <<now, bucketVars, modeVars, priority, saturated, current, constant>>

(* A failed exchange reloads the counter.  The weak form may fail although *)
(* nothing has changed.                                                    *)
ExchangeFails(t) ==
    /\ Goto(t, "exchange", Try(mHoldingQueueDepth))
    /\ current' = [current EXCEPT ![t] = mHoldingQueueDepth]
    /\ UNCHANGED <<now, bucketVars, modeVars, slotVars, priority, saturated, constant>>

(* evaluate() returns, and its locals are gone.                            *)
Return(t) ==
    /\ \E outcome \in {"admitted", "rejected", "full"} : Goto(t, outcome, "idle")
    /\ priority' = [priority EXCEPT ![t] = NoPriority]
    /\ saturated' = [saturated EXCEPT ![t] = FALSE]
    /\ current' = [current EXCEPT ![t] = 0]
    /\ constant' = [constant EXCEPT ![t] = {}]
    /\ UNCHANGED <<now, bucketVars, modeVars, slotVars>>

(* releaseFromHoldingQueue(), by whoever owns a slot.                      *)
Release ==
    /\ slots > 0
    /\ slots' = slots - 1
    /\ mHoldingQueueDepth' = mHoldingQueueDepth - 1
    /\ UNCHANGED <<now, bucketVars, modeVars, callVars, constant>>

EvaluateStep(t) ==
    \/ GlobalLimit(t) \/ ReadStrict(t) \/ ReadShed(t) \/ PriorityLimit(t)
    \/ LoadDepth(t) \/ Exchange(t) \/ ExchangeFails(t) \/ Return(t)

----------------------------------------------------------------------------
(* FeatureSupervisor sets the modes from a thread of its own.              *)

SetAdmissionStrict(on) ==
    /\ mAdmissionStrict' = on
    /\ constant' = IF on THEN constant
                         ELSE [t \in Threads |-> constant[t] \ {"strict"}]
    /\ UNCHANGED <<now, bucketVars, mShedBulk, slotVars, callVars>>

SetShedBulk(on) ==
    /\ mShedBulk' = on
    /\ constant' = IF on THEN constant
                         ELSE [t \in Threads |-> constant[t] \ {"shed"}]
    /\ UNCHANGED <<now, bucketVars, mAdmissionStrict, slotVars, callVars>>

Tick ==
    /\ now < MaxTime
    /\ now' = now + 1
    /\ UNCHANGED <<bucketVars, modeVars, slotVars, callVars, constant>>

(* The ghost window of a limited bucket may begin at any moment.           *)
OpenWindow(b) ==
    /\ Rate[b] > 0
    /\ window' = [window EXCEPT ![b] = [from |-> now, granted |-> 0]]
    /\ UNCHANGED <<now, mTokens, mLastRefill, modeVars, slotVars, callVars, constant>>

Next ==
    \/ \E t \in Threads : Evaluate(t) \/ EvaluateStep(t)
    \/ Release
    \/ \E on \in BOOLEAN : SetAdmissionStrict(on) \/ SetShedBulk(on)
    \/ Tick
    \/ \E b \in Buckets : OpenWindow(b)

Spec == Init /\ [][Next]_vars

----------------------------------------------------------------------------
(* Properties.                                                             *)

(* The values each variable may take: no bucket is over-full or in debt,   *)
(* and the slot counter stays within the capacity.                         *)
TypeOK ==
    /\ now \in 0 .. MaxTime
    /\ mTokens \in [Buckets -> Nat]
    /\ \A b \in Buckets : mTokens[b] <= Full(b)
    /\ mLastRefill \in [Buckets -> 0 .. MaxTime]
    /\ mAdmissionStrict \in BOOLEAN
    /\ mShedBulk \in BOOLEAN
    /\ mHoldingQueueDepth \in 0 .. Capacity
    /\ pc \in [Threads -> {"idle", "global", "strict", "shed", "limit", "load",
                           "exchange", "admitted", "rejected", "full"}]
    /\ priority \in [Threads -> Priorities \cup {NoPriority}]
    /\ saturated \in [Threads -> BOOLEAN]
    /\ current \in [Threads -> 0 .. Capacity]
    /\ slots \in Nat
    /\ window \in [Buckets -> [from : 0 .. MaxTime, granted : Nat]]
    /\ constant \in [Threads -> SUBSET {"strict", "shed"}]

(* In any interval of time, wherever it begins, a limited bucket grants no *)
(* more than its burst (one second's worth) and what it earned meanwhile,  *)
(* however the callers interleave (the promise of a token bucket,          *)
(* AdmissionControl.h:66-72).                                              *)
RateBound ==
    \A b \in Buckets :
        Rate[b] > 0 => window[b].granted * PartsPerToken
                           <= Full(b) + Rate[b] * (now - window[b].from)

(* The counter is the number of reserved slots, never more than the        *)
(* capacity: concurrent reservations and releases lose no update.          *)
DepthExact == mHoldingQueueDepth = slots /\ slots <= Capacity

(* The reservation loop is atomic to its callers.                          *)
Slots == INSTANCE HoldingSlots

AtomicSlots == Slots!SlotsSpec

(* A mode that was on when evaluate() was called and stayed on is obeyed:  *)
(* strict mode admits nothing below High, shed mode nothing of Bulk        *)
(* (AdmissionControl.h:25-31), whatever happens in between.                *)
ModesObeyed ==
    \A t \in Threads : pc[t] = "admitted" =>
        /\ "strict" \in constant[t] => priority[t] \notin Throttled
        /\ "shed" \in constant[t] => priority[t] # "Bulk"
=============================================================================
