-------------------------- MODULE AdmissionProofs ---------------------------
(***************************************************************************)
(* Proofs about AdmissionControl, for any number of callers, any rates and *)
(* any capacity: the token buckets keep their rate, the modes are obeyed,  *)
(* and the reservation loop implements the atomic counter of HoldingSlots. *)
(***************************************************************************)
EXTENDS AdmissionControl, TLAPS

(* The tokens granted since the window began and those in the bucket now   *)
(* have all been earned.                                                   *)
Earned(b) ==
    /\ mLastRefill[b] <= now
    /\ window[b].from <= now
    /\ Rate[b] > 0 => window[b].granted * PartsPerToken + Refilled(b)
                          <= Full(b) + Rate[b] * (now - window[b].from)

(* The modes that a call has passed were off at some moment of it.         *)
Passed(t) ==
    /\ pc[t] \in {"strict", "shed", "limit"} => priority[t] \in Throttled
    /\ "strict" \in constant[t] => mAdmissionStrict
    /\ "shed" \in constant[t] => mShedBulk
    /\ /\ pc[t] \in {"shed", "limit", "load", "exchange", "admitted"}
       /\ priority[t] \in Throttled
       => "strict" \notin constant[t]
    /\ /\ pc[t] \in {"limit", "load", "exchange", "admitted"}
       /\ priority[t] = "Bulk"
       => "shed" \notin constant[t]

(* Every attempt to exchange starts from a copy below the capacity.        *)
Bounded(t) == pc[t] = "exchange" => current[t] < Capacity

AInv ==
    /\ TypeOK
    /\ mHoldingQueueDepth = slots
    /\ \A b \in Buckets : Earned(b)
    /\ \A t \in Threads : Passed(t) /\ Bounded(t)

-----------------------------------------------------------------------------
(* The arithmetic of a bucket.                                             *)

LEMMA Product == ASSUME NEW a \in Nat, NEW c \in Nat PROVE a * c \in Nat
BY SMT

LEMMA Spent == ASSUME NEW g \in Nat, NEW p \in Nat PROVE (g + 1) * p = g * p + p
BY SMT

LEMMA Gained ==
    ASSUME NEW r \in Nat, NEW n \in Nat, NEW m \in Nat, m <= n
    PROVE  /\ r * (n + 1 - m) = r * (n - m) + r
           /\ r * (n - m) \in Nat
           /\ r * (n - n) = 0
BY SMT

LEMMA RefilledType ==
    ASSUME TypeOK, NEW b \in Buckets, mLastRefill[b] <= now
    PROVE  Refilled(b) \in Nat /\ Refilled(b) <= Full(b) /\ Full(b) \in Nat
<1>1. Rate[b] \in Nat /\ PartsPerToken \in Nat /\ now \in Nat
      /\ mTokens[b] \in Nat /\ mLastRefill[b] \in Nat
  BY AdmissionAssumption DEF TypeOK
<1>2. Full(b) \in Nat
  BY <1>1 DEF Full
<1>3. Rate[b] * (now - mLastRefill[b]) \in Nat
  BY <1>1, Gained
<1> QED
  BY <1>1, <1>2, <1>3 DEF Refilled, AtMost

(* A consumption is paid from the bucket.                                  *)
LEMMA ConsumeKeeps ==
    ASSUME TypeOK, \A b \in Buckets : Earned(b),
           NEW c \in Buckets, NEW granted \in BOOLEAN,
           TryConsume(c, granted), UNCHANGED now
    PROVE  /\ mTokens' \in [Buckets -> Nat]
           /\ \A b \in Buckets : mTokens'[b] <= Full(b)
           /\ mLastRefill' \in [Buckets -> 0 .. MaxTime]
           /\ window' \in [Buckets -> [from : 0 .. MaxTime, granted : Nat]]
           /\ \A b \in Buckets : Earned(b)'
<1>1. CASE Rate[c] = 0
  BY <1>1 DEF TryConsume, bucketVars, TypeOK, Earned, Refilled, Full
<1>2. CASE Rate[c] # 0
  <2> DEFINE paid == IF granted THEN PartsPerToken ELSE 0
             count == IF granted THEN window[c].granted + 1 ELSE window[c].granted
  <2>1. /\ Rate[c] \in Nat /\ Rate[c] > 0 /\ PartsPerToken \in Nat /\ now \in Nat
        /\ now \in 0 .. MaxTime /\ mLastRefill[c] <= now
        /\ window[c].granted \in Nat /\ window[c].from \in 0 .. MaxTime
    BY <1>2, AdmissionAssumption DEF TypeOK, Earned
  <2>2. Refilled(c) \in Nat /\ Refilled(c) <= Full(c) /\ Full(c) \in Nat
    BY <2>1, RefilledType
  <2>3. /\ granted = (Refilled(c) >= PartsPerToken)
        /\ mTokens' = [mTokens EXCEPT ![c] = Refilled(c) - paid]
        /\ mLastRefill' = [mLastRefill EXCEPT ![c] = now]
        /\ window' = [window EXCEPT ![c].granted = count]
    BY <1>2 DEF TryConsume
  <2>4. /\ Refilled(c) - paid \in Nat /\ Refilled(c) - paid <= Full(c)
        /\ count \in Nat
    <3>1. CASE granted
      <4>1. Refilled(c) >= PartsPerToken
        BY <2>3, <3>1
      <4>2. paid = PartsPerToken /\ count = window[c].granted + 1
        BY <3>1
      <4> QED
        BY <2>1, <2>2, <4>1, <4>2
    <3>2. CASE ~granted
      BY <2>1, <2>2, <3>2
    <3> QED
      BY <3>1, <3>2
  <2>5. window' = [window EXCEPT ![c] = [from |-> window[c].from, granted |-> count]]
    <3> HIDE DEF count
    <3>1. window[c] \in [from : 0 .. MaxTime, granted : Nat]
      BY DEF TypeOK
    <3>2. [window[c] EXCEPT !.granted = count]
              = [from |-> window[c].from, granted |-> count]
      BY <3>1
    <3> QED
      BY <2>3, <3>2
  <2>6. /\ mTokens' \in [Buckets -> Nat]
        /\ \A b \in Buckets : mTokens'[b] <= Full(b)
        /\ mLastRefill' \in [Buckets -> 0 .. MaxTime]
        /\ window' \in [Buckets -> [from : 0 .. MaxTime, granted : Nat]]
    BY <2>1, <2>3, <2>4, <2>5 DEF TypeOK
  <2>7. ASSUME NEW b \in Buckets, b # c PROVE Earned(b)'
    <3>1. /\ mTokens'[b] = mTokens[b] /\ mLastRefill'[b] = mLastRefill[b]
          /\ window'[b] = window[b]
      BY <2>3, <2>5, <2>7 DEF TypeOK
    <3> QED
      BY <3>1 DEF Earned, Refilled
  <2>8. Earned(c)'
    <3>1. /\ mTokens'[c] = Refilled(c) - paid /\ mLastRefill'[c] = now
          /\ window'[c].from = window[c].from /\ window'[c].granted = count
      BY <2>3, <2>5 DEF TypeOK
    <3>2. Refilled(c)' = Refilled(c) - paid
      <4>1. Refilled(c)' = AtMost(Refilled(c) - paid + Rate[c] * (now - now), Full(c))
        BY <3>1 DEF Refilled, Full
      <4>2. Rate[c] * (now - now) = 0
        BY <2>1, Gained
      <4> QED
        BY <2>2, <2>4, <4>1, <4>2 DEF AtMost
    <3>3. count * PartsPerToken + (Refilled(c) - paid)
              = window[c].granted * PartsPerToken + Refilled(c)
      <4>1. CASE granted
        BY <2>1, <2>2, <4>1, Spent
      <4>2. CASE ~granted
        <5>1. count * PartsPerToken \in Nat
          BY <2>1, <2>4
        <5> QED
          BY <2>1, <2>2, <4>2, <5>1
      <4> QED
        BY <4>1, <4>2
    <3> QED
      BY <2>1, <3>1, <3>2, <3>3 DEF Earned, Full
  <2> QED
    BY <2>6, <2>7, <2>8
<1> QED
  BY <1>1, <1>2

(* One tick earns at most the rate.                                        *)
LEMMA TickKeepsEarned ==
    ASSUME TypeOK, NEW b \in Buckets, Earned(b), Tick
    PROVE  Earned(b)'
<1>1. /\ Rate[b] \in Nat /\ PartsPerToken \in Nat /\ now \in Nat /\ now' = now + 1
      /\ mTokens[b] \in Nat /\ mLastRefill[b] \in Nat /\ mLastRefill[b] <= now
      /\ window[b].from \in Nat /\ window[b].from <= now
      /\ window[b].granted \in Nat
  BY AdmissionAssumption DEF TypeOK, Earned, Tick
<1>2. /\ mTokens' = mTokens /\ mLastRefill' = mLastRefill /\ window' = window
  BY DEF Tick, bucketVars
<1>3. Rate[b] * (now + 1 - mLastRefill[b]) = Rate[b] * (now - mLastRefill[b]) + Rate[b]
  BY <1>1, Gained
<1>4. Rate[b] * (now + 1 - window[b].from) = Rate[b] * (now - window[b].from) + Rate[b]
  BY <1>1, Gained
<1>5. Refilled(b)' <= Refilled(b) + Rate[b]
  <2>1. Full(b) \in Nat /\ Rate[b] * (now - mLastRefill[b]) \in Nat
    BY <1>1, Gained, Product DEF Full
  <2> QED
    BY <1>1, <1>2, <1>3, <2>1 DEF Refilled, AtMost, Full
<1>6. Refilled(b) \in Nat /\ Refilled(b)' \in Int /\ Full(b) \in Nat
  <2>1. Refilled(b) \in Nat /\ Full(b) \in Nat
    BY <1>1, RefilledType
  <2>2. Rate[b] * (now + 1 - mLastRefill[b]) \in Int
    BY <1>1
  <2> QED
    BY <1>1, <1>2, <2>1, <2>2 DEF Refilled, AtMost, Full
<1>7. window[b].granted * PartsPerToken \in Nat /\ Rate[b] * (now - window[b].from) \in Nat
  BY <1>1, Gained, Product
<1>8. Rate[b] > 0 => window[b].granted * PartsPerToken + Refilled(b)'
                         <= Full(b) + Rate[b] * (now + 1 - window[b].from)
  <2> DEFINE granted == window[b].granted * PartsPerToken
             earned == Rate[b] * (now - window[b].from)
  <2>1. Rate[b] > 0 => granted + Refilled(b) <= Full(b) + earned
    BY DEF Earned
  <2> HIDE DEF granted, earned
  <2>2. granted \in Nat /\ earned \in Nat
    BY <1>7 DEF granted, earned
  <2>3. Rate[b] > 0 => granted + Refilled(b)' <= Full(b) + (earned + Rate[b])
    BY <1>1, <1>5, <1>6, <2>1, <2>2
  <2> QED
    BY <1>4, <2>3 DEF granted, earned
<1>9. mLastRefill'[b] <= now' /\ window'[b].from <= now'
  BY <1>1, <1>2
<1>10. Rate[b] > 0 => window'[b].granted * PartsPerToken + Refilled(b)'
                          <= Full(b) + Rate[b] * (now' - window'[b].from)
  <2>1. window' = window /\ now' = now + 1
    BY <1>1, <1>2
  <2>2. window'[b].granted * PartsPerToken = window[b].granted * PartsPerToken
    BY <2>1, Zenon
  <2>3. Rate[b] * (now' - window'[b].from) = Rate[b] * (now + 1 - window[b].from)
    <3>1. now' - window'[b].from = now + 1 - window[b].from
      BY <1>1, <2>1
    <3> QED
      BY <3>1, Zenon
  <2> QED
    BY <1>8, <2>2, <2>3, Zenon
<1> QED
  BY <1>9, <1>10, Zenon DEF Earned, Full

-----------------------------------------------------------------------------
(* Every action keeps the invariant.                                       *)

Places == {"idle", "global", "strict", "shed", "limit", "load", "exchange",
           "admitted", "rejected", "full"}

(* A call moves on and changes no bucket, mode or slot.                    *)
LEMMA MoveKeeps ==
    ASSUME AInv, NEW t \in Threads, NEW to \in Places,
           pc' = [pc EXCEPT ![t] = to],
           NEW copy \in 0 .. Capacity, current' = [current EXCEPT ![t] = copy],
           UNCHANGED <<now, bucketVars, modeVars, slotVars, priority, saturated, constant>>,
           to \in {"strict", "shed", "limit"} => priority[t] \in Throttled,
           to \in {"shed", "limit", "load", "exchange", "admitted"}
               /\ priority[t] \in Throttled => "strict" \notin constant[t],
           to \in {"limit", "load", "exchange", "admitted"}
               /\ priority[t] = "Bulk" => "shed" \notin constant[t],
           to = "exchange" => copy < Capacity
    PROVE  AInv'
<1>1. TypeOK'
  BY DEF AInv, TypeOK, Places, bucketVars, modeVars, slotVars
<1>2. \A b \in Buckets : Earned(b)'
  BY DEF AInv, Earned, Refilled, bucketVars
<1>3. ASSUME NEW u \in Threads PROVE Passed(u)' /\ Bounded(u)'
  BY <1>3 DEF AInv, TypeOK, Passed, Bounded, modeVars
<1> QED
  BY <1>1, <1>2, <1>3 DEF AInv, slotVars

(* A layer that takes a token or not, and moves on.                        *)
LEMMA LimitKeeps ==
    ASSUME AInv, NEW t \in Threads, NEW c \in Buckets, NEW granted \in BOOLEAN,
           TryConsume(c, granted), NEW to \in Places,
           pc' = [pc EXCEPT ![t] = to], Quiet(t),
           to # "exchange",
           to = "strict" => priority[t] \in Throttled,
           to \notin {"shed", "limit"},
           to \in {"load", "admitted"} =>
               /\ priority[t] \in Throttled => "strict" \notin constant[t]
               /\ priority[t] = "Bulk" => "shed" \notin constant[t]
    PROVE  AInv'
<1> USE DEF Quiet
<1>1. /\ mTokens' \in [Buckets -> Nat]
      /\ \A b \in Buckets : mTokens'[b] <= Full(b)
      /\ mLastRefill' \in [Buckets -> 0 .. MaxTime]
      /\ window' \in [Buckets -> [from : 0 .. MaxTime, granted : Nat]]
      /\ \A b \in Buckets : Earned(b)'
  BY ConsumeKeeps DEF AInv
<1>2. TypeOK'
  BY <1>1 DEF AInv, TypeOK, Places, modeVars, slotVars, Full
<1>3. ASSUME NEW u \in Threads PROVE Passed(u)' /\ Bounded(u)'
  BY <1>3 DEF AInv, TypeOK, Passed, Bounded, modeVars
<1> QED
  BY <1>1, <1>2, <1>3 DEF AInv, slotVars

LEMMA LayersKeep ==
    ASSUME AInv, NEW t \in Threads,
           GlobalLimit(t) \/ ReadStrict(t) \/ ReadShed(t) \/ PriorityLimit(t)
    PROVE  AInv'
<1>0. /\ Passed(t) /\ pc[t] \in Places /\ priority[t] \in Priorities \cup {NoPriority}
      /\ current[t] \in 0 .. Capacity /\ [current EXCEPT ![t] = current[t]] = current
  BY DEF AInv, TypeOK, Places
<1>1. CASE GlobalLimit(t)
  <2> PICK granted \in BOOLEAN :
          /\ TryConsume("global", granted)
          /\ Goto(t, "global", IF ~granted THEN "rejected"
                               ELSE IF priority[t] \in Throttled THEN "strict"
                               ELSE Capacity3(t))
    BY <1>1 DEF GlobalLimit
  <2> DEFINE to == IF ~granted THEN "rejected"
                   ELSE IF priority[t] \in Throttled THEN "strict" ELSE Capacity3(t)
  <2>1. /\ to \in Places /\ to # "exchange" /\ to \notin {"shed", "limit"}
        /\ to = "strict" => priority[t] \in Throttled
        /\ to \in {"load", "admitted"} => priority[t] \notin Throttled
    BY DEF Capacity3, Places, Throttled
  <2>2. pc' = [pc EXCEPT ![t] = to]
    BY DEF Goto
  <2>3. "global" \in Buckets /\ "Bulk" \in Throttled
    BY DEF Buckets, Throttled
  <2>4. Quiet(t)
    BY <1>1 DEF GlobalLimit
  <2> QED
    BY <2>1, <2>2, <2>3, <2>4, LimitKeeps
<1>2. CASE PriorityLimit(t)
  <2> PICK granted \in BOOLEAN :
          /\ TryConsume(priority[t], granted)
          /\ Goto(t, "limit", IF granted THEN Capacity3(t) ELSE "rejected")
    BY <1>2 DEF PriorityLimit
  <2> DEFINE to == IF granted THEN Capacity3(t) ELSE "rejected"
  <2>1. pc[t] = "limit" /\ pc' = [pc EXCEPT ![t] = to]
    BY DEF Goto
  <2>2. priority[t] \in Throttled /\ priority[t] \in Buckets
    BY <1>0, <2>1 DEF Passed, Buckets
  <2>3. /\ "strict" \notin constant[t]
        /\ priority[t] = "Bulk" => "shed" \notin constant[t]
    BY <1>0, <2>1, <2>2 DEF Passed
  <2>4. to \in Places /\ to \notin {"exchange", "strict", "shed", "limit"}
    BY DEF Capacity3, Places
  <2>5. Quiet(t)
    BY <1>2 DEF PriorityLimit
  <2> QED
    BY <2>1, <2>2, <2>3, <2>4, <2>5, LimitKeeps
<1>3. CASE ReadStrict(t)
  <2> DEFINE to == IF mAdmissionStrict THEN "rejected"
                   ELSE IF priority[t] = "Bulk" THEN "shed" ELSE "limit"
  <2>1. pc[t] = "strict" /\ pc' = [pc EXCEPT ![t] = to]
    BY <1>3 DEF ReadStrict, Goto
  <2>2. priority[t] \in Throttled
    BY <1>0, <2>1 DEF Passed
  <2>3. to \in {"shed", "limit"} => "strict" \notin constant[t]
    BY <1>0 DEF Passed
  <2>4. to \in Places /\ to \notin {"strict", "load", "exchange", "admitted"}
        /\ (to = "limit" => priority[t] # "Bulk")
    BY DEF Places
  <2>5. UNCHANGED <<now, bucketVars, modeVars, slotVars, priority, saturated, current, constant>>
    BY <1>3 DEF ReadStrict, Quiet
  <2> QED
    BY <1>0, <2>1, <2>2, <2>3, <2>4, <2>5, MoveKeeps
<1>4. CASE ReadShed(t)
  <2> DEFINE to == IF mShedBulk THEN "rejected" ELSE "limit"
  <2>1. pc[t] = "shed" /\ pc' = [pc EXCEPT ![t] = to]
    BY <1>4 DEF ReadShed, Goto
  <2>2. priority[t] \in Throttled /\ "strict" \notin constant[t]
    BY <1>0, <2>1 DEF Passed
  <2>3. to = "limit" => "shed" \notin constant[t]
    BY <1>0 DEF Passed
  <2>4. to \in Places /\ to \in {"rejected", "limit"}
    BY DEF Places
  <2>5. UNCHANGED <<now, bucketVars, modeVars, slotVars, priority, saturated, current, constant>>
    BY <1>4 DEF ReadShed, Quiet
  <2> QED
    BY <1>0, <2>1, <2>2, <2>3, <2>4, <2>5, MoveKeeps
<1> QED
  BY <1>1, <1>2, <1>3, <1>4

LEMMA ReservationKeeps ==
    ASSUME AInv, NEW t \in Threads, LoadDepth(t) \/ Exchange(t) \/ ExchangeFails(t)
    PROVE  AInv'
<1>0. /\ Passed(t) /\ Bounded(t) /\ mHoldingQueueDepth \in 0 .. Capacity
      /\ Capacity \in Nat /\ current[t] \in 0 .. Capacity
  BY AdmissionAssumption DEF AInv, TypeOK
<1>1. CASE LoadDepth(t) \/ ExchangeFails(t)
  <2> DEFINE to == Try(mHoldingQueueDepth)
  <2>1. /\ pc[t] \in {"load", "exchange"} /\ pc' = [pc EXCEPT ![t] = to]
        /\ current' = [current EXCEPT ![t] = mHoldingQueueDepth]
        /\ UNCHANGED <<now, bucketVars, modeVars, slotVars, priority, saturated, constant>>
    BY <1>1 DEF LoadDepth, ExchangeFails, Goto
  <2>2. /\ to \in Places /\ to \in {"full", "exchange"}
        /\ to = "exchange" => mHoldingQueueDepth < Capacity
    BY <1>0 DEF Try, Places
  <2>3. /\ priority[t] \in Throttled => "strict" \notin constant[t]
        /\ priority[t] = "Bulk" => "shed" \notin constant[t]
    BY <1>0, <2>1 DEF Passed
  <2> QED
    BY <1>0, <2>1, <2>2, <2>3, MoveKeeps
<1>2. CASE Exchange(t)
  <2>1. /\ pc[t] = "exchange" /\ pc' = [pc EXCEPT ![t] = "admitted"]
        /\ mHoldingQueueDepth = current[t] /\ current[t] < Capacity
        /\ mHoldingQueueDepth' = mHoldingQueueDepth + 1 /\ slots' = slots + 1
        /\ UNCHANGED <<now, bucketVars, modeVars, priority, saturated, current, constant>>
    BY <1>0, <1>2 DEF Exchange, Goto, Bounded
  <2>2. TypeOK'
    <3>1. mHoldingQueueDepth' \in 0 .. Capacity /\ slots' \in Nat
      <4>1. slots \in Nat
        BY DEF AInv, TypeOK
      <4>2. mHoldingQueueDepth + 1 \in 0 .. Capacity
        BY <1>0, <2>1
      <4> QED
        BY <2>1, <4>1, <4>2
    <3>2. /\ UNCHANGED <<mTokens, mLastRefill, window, mAdmissionStrict, mShedBulk>>
          /\ UNCHANGED <<now, priority, saturated, current, constant>>
      BY <2>1 DEF bucketVars, modeVars
    <3> QED
      BY <2>1, <3>1, <3>2 DEF AInv, TypeOK
  <2>3. \A b \in Buckets : Earned(b)'
    BY <2>1 DEF AInv, Earned, Refilled, bucketVars
  <2>4. ASSUME NEW u \in Threads PROVE Passed(u)' /\ Bounded(u)'
    BY <2>1, <2>4 DEF AInv, TypeOK, Passed, Bounded, modeVars
  <2> QED
    BY <2>1, <2>2, <2>3, <2>4 DEF AInv
<1> QED
  BY <1>1, <1>2

LEMMA CallsKeep ==
    ASSUME AInv, NEW t \in Threads, Evaluate(t) \/ Return(t)
    PROVE  AInv'
<1>1. PICK to \in {"global", "idle"}, p \in Priorities \cup {NoPriority}, s \in BOOLEAN,
           copy \in 0 .. Capacity, seen \in SUBSET {"strict", "shed"} :
          /\ pc' = [pc EXCEPT ![t] = to]
          /\ priority' = [priority EXCEPT ![t] = p]
          /\ saturated' = [saturated EXCEPT ![t] = s]
          /\ current' = [current EXCEPT ![t] = copy]
          /\ constant' = [constant EXCEPT ![t] = seen]
          /\ "strict" \in seen => mAdmissionStrict
          /\ "shed" \in seen => mShedBulk
          /\ UNCHANGED <<now, bucketVars, modeVars, slotVars>>
  <2>1. CASE Evaluate(t)
    <3>1. Facts \in SUBSET {"strict", "shed"}
          /\ ("strict" \in Facts => mAdmissionStrict) /\ ("shed" \in Facts => mShedBulk)
      BY DEF Facts
    <3>2. current[t] \in 0 .. Capacity /\ current' = [current EXCEPT ![t] = current[t]]
      BY <2>1 DEF Evaluate, AInv, TypeOK
    <3>3. PICK p \in Priorities, s \in BOOLEAN :
              priority' = [priority EXCEPT ![t] = p] /\ saturated' = [saturated EXCEPT ![t] = s]
      BY <2>1 DEF Evaluate
    <3>4. /\ pc' = [pc EXCEPT ![t] = "global"] /\ constant' = [constant EXCEPT ![t] = Facts]
          /\ UNCHANGED <<now, bucketVars, modeVars, slotVars>>
      BY <2>1 DEF Evaluate, Goto
    <3> QED
      BY <3>1, <3>2, <3>3, <3>4
  <2>2. CASE Return(t)
    <3>1. /\ pc' = [pc EXCEPT ![t] = "idle"]
          /\ priority' = [priority EXCEPT ![t] = NoPriority]
          /\ saturated' = [saturated EXCEPT ![t] = FALSE]
          /\ current' = [current EXCEPT ![t] = 0]
          /\ constant' = [constant EXCEPT ![t] = {}]
          /\ UNCHANGED <<now, bucketVars, modeVars, slotVars>>
      BY <2>2 DEF Return, Goto
    <3>2. 0 \in 0 .. Capacity /\ {} \in SUBSET {"strict", "shed"}
      BY AdmissionAssumption
    <3> QED
      BY <3>1, <3>2
  <2> QED
    BY <2>1, <2>2
<1>2. TypeOK'
  BY <1>1 DEF AInv, TypeOK, bucketVars, modeVars, slotVars
<1>3. \A b \in Buckets : Earned(b)'
  BY <1>1 DEF AInv, Earned, Refilled, bucketVars
<1>4. ASSUME NEW u \in Threads PROVE Passed(u)' /\ Bounded(u)'
  BY <1>1, <1>4 DEF AInv, TypeOK, Passed, Bounded, modeVars
<1> QED
  BY <1>1, <1>2, <1>3, <1>4 DEF AInv, slotVars

LEMMA ModeSet ==
    ASSUME AInv, NEW on \in BOOLEAN, SetAdmissionStrict(on) \/ SetShedBulk(on)
    PROVE  AInv'
<1>1. TypeOK'
  BY DEF SetAdmissionStrict, SetShedBulk, AInv, TypeOK, bucketVars, slotVars, callVars
<1>2. \A b \in Buckets : Earned(b)'
  BY DEF SetAdmissionStrict, SetShedBulk, AInv, Earned, Refilled, bucketVars
<1>3. ASSUME NEW u \in Threads PROVE Passed(u)' /\ Bounded(u)'
  BY <1>3 DEF SetAdmissionStrict, SetShedBulk, AInv, TypeOK, Passed, Bounded, callVars
<1> QED
  BY <1>1, <1>2, <1>3 DEF SetAdmissionStrict, SetShedBulk, AInv, slotVars

LEMMA SurroundingsKeep ==
    ASSUME AInv, Release \/ Tick \/ \E b \in Buckets : OpenWindow(b)
    PROVE  AInv'
<1>1. ASSUME NEW u \in Threads PROVE Passed(u)' /\ Bounded(u)'
  BY <1>1 DEF Release, Tick, OpenWindow, AInv, Passed, Bounded, modeVars, callVars
<1>2. CASE Release
  <2>1. TypeOK' /\ mHoldingQueueDepth' = slots'
    BY <1>2, AdmissionAssumption DEF Release, AInv, TypeOK, bucketVars, modeVars, callVars
  <2>2. \A b \in Buckets : Earned(b)'
    BY <1>2 DEF Release, AInv, Earned, Refilled, bucketVars
  <2> QED
    BY <1>1, <2>1, <2>2 DEF AInv
<1>3. CASE Tick
  <2>1. TypeOK' /\ mHoldingQueueDepth' = slots'
    BY <1>3, AdmissionAssumption
       DEF Tick, AInv, TypeOK, bucketVars, modeVars, callVars, slotVars
  <2> QED
    BY <1>1, <1>3, <2>1, TickKeepsEarned DEF AInv
<1>4. ASSUME NEW b \in Buckets, OpenWindow(b) PROVE AInv'
  <2>1. TypeOK' /\ mHoldingQueueDepth' = slots'
    BY <1>4 DEF OpenWindow, AInv, TypeOK, modeVars, callVars, slotVars
  <2>2. ASSUME NEW c \in Buckets, c # b PROVE Earned(c)'
    BY <1>4, <2>2 DEF OpenWindow, AInv, TypeOK, Earned, Refilled
  <2>3. Earned(b)'
    <3>1. /\ now' = now /\ mTokens' = mTokens /\ mLastRefill' = mLastRefill
          /\ window'[b] = [from |-> now, granted |-> 0]
      BY <1>4 DEF OpenWindow, AInv, TypeOK
    <3>2. Refilled(b) \in Nat /\ Refilled(b) <= Full(b) /\ Full(b) \in Nat
      BY RefilledType DEF AInv, Earned
    <3>3. 0 * PartsPerToken = 0 /\ Rate[b] * (now - now) = 0 /\ now \in Nat
      BY Gained, AdmissionAssumption DEF AInv, TypeOK
    <3> QED
      BY <3>1, <3>2, <3>3 DEF AInv, Earned, Refilled, Full
  <2> QED
    BY <1>1, <1>4, <2>1, <2>2, <2>3 DEF AInv
<1> QED
  BY <1>2, <1>3, <1>4

-----------------------------------------------------------------------------

LEMMA InitAInv == Init => AInv
<1> SUFFICES ASSUME Init PROVE AInv
  OBVIOUS
<1>1. /\ MaxTime \in Nat /\ Capacity \in Nat /\ PartsPerToken \in Nat
      /\ Rate \in [Buckets -> Nat]
  BY AdmissionAssumption
<1>2. \A b \in Buckets : Full(b) \in Nat
  BY <1>1, Product DEF Full
<1>3. TypeOK
  <2>1. /\ now \in 0 .. MaxTime /\ mHoldingQueueDepth \in 0 .. Capacity
        /\ current \in [Threads -> 0 .. Capacity]
        /\ mLastRefill \in [Buckets -> 0 .. MaxTime]
    BY <1>1 DEF Init
  <2>2. /\ mTokens \in [Buckets -> Nat] /\ \A b \in Buckets : mTokens[b] <= Full(b)
        /\ window \in [Buckets -> [from : 0 .. MaxTime, granted : Nat]]
    BY <1>1, <1>2 DEF Init
  <2> QED
    BY <2>1, <2>2 DEF Init, TypeOK
<1>4. ASSUME NEW b \in Buckets PROVE Earned(b)
  <2>1. Rate[b] * (now - now) = 0 /\ now = 0 /\ mLastRefill[b] = now /\ window[b].from = now
    BY <1>1, Gained DEF Init
  <2>2. 0 * PartsPerToken = 0 /\ window[b].granted = 0 /\ mTokens[b] = Full(b)
    BY <1>1 DEF Init
  <2>3. Refilled(b) = Full(b)
    BY <1>2, <2>1, <2>2 DEF Refilled, AtMost
  <2> QED
    BY <1>2, <2>1, <2>2, <2>3 DEF Earned
<1>5. \A t \in Threads : Passed(t) /\ Bounded(t)
  BY DEF Init, Passed, Bounded
<1> QED
  BY <1>3, <1>4, <1>5 DEF AInv, Init

LEMMA NextKeepsAInv == AInv /\ [Next]_vars => AInv'
<1> SUFFICES ASSUME AInv, [Next]_vars PROVE AInv'
  OBVIOUS
<1>1. ASSUME NEW t \in Threads, Evaluate(t) \/ EvaluateStep(t) PROVE AInv'
  BY <1>1, LayersKeep, ReservationKeeps, CallsKeep DEF EvaluateStep
<1>2. ASSUME NEW on \in BOOLEAN, SetAdmissionStrict(on) \/ SetShedBulk(on) PROVE AInv'
  BY <1>2, ModeSet
<1>3. CASE UNCHANGED vars
  BY <1>3 DEF vars, bucketVars, modeVars, slotVars, callVars, AInv, TypeOK,
             Earned, Refilled, Passed, Bounded
<1> QED
  BY <1>1, <1>2, <1>3, SurroundingsKeep DEF Next

(* The inductive invariant of AdmissionControl.                            *)
THEOREM AdmissionInvariant == Spec => []AInv
BY InitAInv, NextKeepsAInv, PTL DEF Spec

(* Every variable of AdmissionControl keeps its type: no bucket goes into  *)
(* debt or above its capacity (TokenBucket::tryConsume, refill).           *)
THEOREM AdmissionTypeCorrect == Spec => []TypeOK
<1>1. AInv => TypeOK
  BY DEF AInv
<1> QED
  BY <1>1, AdmissionInvariant, PTL

(* A token bucket of any rate grants, in any interval, no more than its    *)
(* burst and what it earned, for any number of callers.                    *)
THEOREM RateIsBounded == Spec => []RateBound
<1>1. AInv => RateBound
  <2> SUFFICES ASSUME AInv, NEW b \in Buckets, Rate[b] > 0
               PROVE  window[b].granted * PartsPerToken
                          <= Full(b) + Rate[b] * (now - window[b].from)
    BY DEF RateBound
  <2>1. Refilled(b) \in Nat /\ Full(b) \in Nat
    BY RefilledType DEF AInv, Earned
  <2>2. window[b].granted * PartsPerToken \in Nat /\ Rate[b] * (now - window[b].from) \in Nat
    BY AdmissionAssumption, Product, Gained DEF AInv, TypeOK, Earned
  <2>3. window[b].granted * PartsPerToken + Refilled(b)
            <= Full(b) + Rate[b] * (now - window[b].from)
    BY DEF AInv, Earned
  <2> QED
    BY <2>1, <2>2, <2>3
<1> QED
  BY <1>1, AdmissionInvariant, PTL

(* The lock-free reservation and the unguarded release lose no update:     *)
(* the counter is the number of slots taken, never above the capacity.     *)
THEOREM SlotsAreCounted == Spec => []DepthExact
<1>1. AInv => DepthExact
  BY AdmissionAssumption DEF AInv, DepthExact, TypeOK
<1> QED
  BY <1>1, AdmissionInvariant, PTL

(* No interleaving with the setters lets a call pass a mode that was on    *)
(* from its beginning to its end.                                          *)
THEOREM ModesAreObeyed == Spec => []ModesObeyed
<1>1. AInv => ModesObeyed
  BY DEF AInv, ModesObeyed, Passed, Throttled
<1> QED
  BY <1>1, AdmissionInvariant, PTL

LEMMA SlotStepImplements ==
    AInv /\ [Next]_vars => [Slots!SlotsNext]_mHoldingQueueDepth
<1> SUFFICES ASSUME AInv, [Next]_vars, mHoldingQueueDepth' # mHoldingQueueDepth
             PROVE  Slots!SlotsNext
  OBVIOUS
<1>1. CASE \E t \in Threads : Exchange(t)
  BY <1>1 DEF AInv, Bounded, Exchange, Goto, Slots!SlotsNext, Slots!ReserveSlot,
             Slots!SlotFree
<1>2. CASE Release
  BY <1>2 DEF AInv, Release, Slots!SlotsNext, Slots!ReleaseSlot
<1> QED
  BY <1>1, <1>2 DEF Next, EvaluateStep, vars, slotVars, Evaluate, GlobalLimit, Quiet,
     ReadStrict, ReadShed, PriorityLimit, LoadDepth, ExchangeFails, Return,
     SetAdmissionStrict, SetShedBulk, Tick, OpenWindow

(* The reservation loop implements the atomic counter that Balancer's      *)
(* model uses in its place, for any number of callers.                     *)
THEOREM ReservationIsAtomic == Spec => AtomicSlots
<1>1. Init => Slots!SlotsInit
  BY DEF Init, Slots!SlotsInit
<1> QED
  BY <1>1, SlotStepImplements, AdmissionInvariant, PTL
     DEF Spec, AtomicSlots, Slots!SlotsSpec
=============================================================================
