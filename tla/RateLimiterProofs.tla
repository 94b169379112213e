-------------------------- MODULE RateLimiterProofs --------------------------
(***************************************************************************)
(* Theorems about the rate limiter for any number of concurrent requests,  *)
(* any limit, window, slack and skew, and any number of faults.            *)
(***************************************************************************)
EXTENDS RateLimiter, FiniteSetTheorems, TLAPS

-----------------------------------------------------------------------------
(* Type correctness *)

\* A stamp lies in its bucket or after it, and buckets keep its order.
LEMMA BucketBelow ==
    ASSUME NEW s \in Nat
    PROVE  BucketOf(s) \in Nat /\ BucketOf(s) * Window <= s
BY RuleAssumption, SMT DEF BucketOf

LEMMA BucketsAreOrdered ==
    ASSUME NEW s \in Nat, NEW u \in Nat, s <= u
    PROVE  BucketOf(s) <= BucketOf(u)
BY RuleAssumption, SMT DEF BucketOf

LEMMA StampIsInRange ==
    ASSUME time \in 0 .. MaxTime, NEW s \in Nat, s <= time + Skew
    PROVE  BucketOf(s) \in Buckets
<1>1. BucketOf(s) <= BucketOf(MaxTime + Skew)
  BY BucketsAreOrdered, BoundsAssumption
<1>2. BucketOf(s) \in Nat /\ BucketOf(MaxTime + Skew) \in Nat
  BY BucketBelow, BoundsAssumption
<1> QED
  BY <1>1, <1>2 DEF Buckets, BucketOf

LEMMA BucketsAreNumbers == Buckets \subseteq Nat
BY DEF Buckets

LEMMA ZeroBucket == 0 \in Buckets
BY StampIsInRange, BucketBelow, BucketsAreOrdered, BoundsAssumption, RuleAssumption
   DEF Buckets, BucketOf

LEMMA TypeInit == Init => TypeOK
BY ZeroBucket, BoundsAssumption DEF Init, TypeOK, NoKey, Key, Steps

LEMMA IncrementType ==
    ASSUME TypeOK, NEW b \in Buckets, Increment(b)
    PROVE  key' \in [Buckets -> Key] /\ latecomers' \in [Buckets -> Nat]
<1>1. [key[b] EXCEPT !.count = @ + 1] \in Key
  BY DEF TypeOK, Key
<1>2. key' \in [Buckets -> Key]
  BY <1>1 DEF Increment, TypeOK
<1>3. latecomers' \in [Buckets -> Nat]
  BY DEF Increment, TypeOK
<1> QED
  BY <1>2, <1>3

LEMMA GoesType ==
    ASSUME TypeOK, NEW r \in Requests, NEW s \in Steps, Goes(r, s)
    PROVE  req' \in [Requests -> [step : Steps, bucket : Buckets]]
BY DEF Goes, TypeOK

LEMMA TypeStep == TypeOK /\ [Next]_vars => TypeOK'
<1> SUFFICES ASSUME TypeOK, [Next]_vars PROVE TypeOK'
  OBVIOUS
<1>1. ASSUME NEW r \in Requests, Arrive(r) PROVE TypeOK'
  <2>1. PICK s \in Nat \cap (time - Skew) .. (time + Skew) :
          req' = [req EXCEPT ![r] = [step |-> "count", bucket |-> BucketOf(s)]]
    BY <1>1 DEF Arrive
  <2>2. BucketOf(s) \in Buckets
    BY StampIsInRange, BoundsAssumption DEF TypeOK
  <2> QED
    BY <1>1, <2>1, <2>2 DEF Arrive, TypeOK, Steps
<1>2. ASSUME NEW r \in Requests, Count(r) PROVE TypeOK'
  <2>1. req[r].bucket \in Buckets /\ Increment(req[r].bucket)
    BY <1>2 DEF Count, TypeOK
  <2>2. \E s \in Steps : Goes(r, s)
    BY <1>2 DEF Count, Steps
  <2>3. /\ key' \in [Buckets -> Key] /\ latecomers' \in [Buckets -> Nat]
        /\ req' \in [Requests -> [step : Steps, bucket : Buckets]]
    BY <2>1, <2>2, IncrementType, GoesType
  <2>4. admitted' \in [Buckets -> Nat] /\ refused' \in [Buckets -> Nat]
    BY <1>2, <2>1 DEF Count, TypeOK
  <2> QED
    BY <1>2, <2>3, <2>4 DEF Count, TypeOK
<1>3. ASSUME NEW r \in Requests, ReplyLost(r) PROVE TypeOK'
  <2>1. req[r].bucket \in Buckets
    BY DEF TypeOK
  <2>2. \E s \in Steps : Goes(r, s)
    BY <1>3 DEF ReplyLost, Steps
  <2>3. key' \in [Buckets -> Key] /\ latecomers' \in [Buckets -> Nat]
    BY <1>3, <2>1, IncrementType DEF ReplyLost, TypeOK
  <2>4. req' \in [Requests -> [step : Steps, bucket : Buckets]]
    BY <2>2, GoesType
  <2> QED
    BY <1>3, <2>3, <2>4 DEF ReplyLost, TypeOK
<1>4. ASSUME NEW r \in Requests, Expire(r) PROVE TypeOK'
  <2>1. [key[req[r].bucket] EXCEPT !.expiry = time + Life] \in Key
    BY RuleAssumption DEF TypeOK, Key, Life
  <2>2. key' \in [Buckets -> Key]
    BY <1>4, <2>1 DEF Expire, TypeOK
  <2>3. req' \in [Requests -> [step : Steps, bucket : Buckets]]
    BY <1>4, GoesType DEF Expire, Steps
  <2> QED
    BY <1>4, <2>2, <2>3 DEF Expire, TypeOK
<1>5. ASSUME NEW r \in Requests, ExpireFails(r) PROVE TypeOK'
  <2>1. req' \in [Requests -> [step : Steps, bucket : Buckets]]
    BY <1>5, GoesType DEF ExpireFails, Steps
  <2> QED
    BY <1>5, <2>1 DEF ExpireFails, TypeOK
<1>6. CASE Tick
  <2>1. NoKey \in Key
    BY DEF NoKey, Key
  <2> QED
    BY <1>6, <2>1, BoundsAssumption DEF Tick, TypeOK
<1>7. CASE Restart
  BY <1>7 DEF Restart, TypeOK, NoKey, Key
<1>8. CASE UNCHANGED vars
  BY <1>8 DEF vars, TypeOK
<1> QED
  BY <1>1, <1>2, <1>3, <1>4, <1>5, <1>6, <1>7, <1>8 DEF Next

\* The store and the requests stay well formed.
THEOREM TypeCorrect == Spec => []TypeOK
<1>1. Init => TypeOK
  BY TypeInit
<1>2. TypeOK /\ [Next]_vars => TypeOK'
  BY TypeStep
<1> QED
  BY <1>1, <1>2, PTL DEF Spec

-----------------------------------------------------------------------------
(* Admission *)

\* A request is counted in a bucket that has begun by some clock.
BegunInTime ==
    \A r \in Requests :
      req[r].step # "new" => req[r].bucket * Window <= time + Skew

\* A key lives until its bucket is over.
OutlivesBucket(b) ==
    key[b].expiry # Null => key[b].expiry >= (b + 1) * Window + Slack - Skew

\* What b may have admitted beyond what its latecomers and restarts pay for:
\* its count, up to the limit, while it has a key; and the limit when the key
\* is gone, which takes the end of the bucket.
WithinBudget(b) ==
    LET paid == Limit * (latecomers[b] + restarts)
    IN \/ /\ key[b].count > 0
          /\ admitted[b] <= paid + key[b].count
          /\ admitted[b] <= paid + Limit
       \/ key[b].count = 0 /\ admitted[b] <= paid
       \/ key[b].count = 0 /\ IsOver(b) /\ admitted[b] <= paid + Limit

AdmissionInv ==
    /\ TypeOK
    /\ BegunInTime
    /\ \A b \in Buckets : OutlivesBucket(b) /\ WithinBudget(b)

\* One more to pay with pays for the limit once more.
LEMMA OneMorePays ==
    ASSUME NEW n \in Nat
    PROVE  /\ Limit * n \in Nat
           /\ Limit * (n + 1) = Limit * n + Limit
BY RuleAssumption, SMT

LEMMA AdmissionInit == Init => AdmissionInv
<1> SUFFICES ASSUME Init PROVE AdmissionInv
  OBVIOUS
<1>1. TypeOK
  BY TypeInit
<1>2. ASSUME NEW b \in Buckets PROVE OutlivesBucket(b) /\ WithinBudget(b)
  BY OneMorePays, RuleAssumption DEF Init, NoKey, OutlivesBucket, WithinBudget
<1> QED
  BY <1>1, <1>2 DEF AdmissionInv, BegunInTime, Init

\* A bucket nothing touches keeps its budget as time passes.
LEMMA BudgetFrame ==
    ASSUME TypeOK, TypeOK', NEW b \in Buckets, WithinBudget(b), OutlivesBucket(b),
           key'[b] = key[b], admitted'[b] = admitted[b],
           latecomers'[b] = latecomers[b], restarts' = restarts, time' >= time
    PROVE  WithinBudget(b)' /\ OutlivesBucket(b)'
<1>1. b \in Nat /\ b * Window \in Nat
  BY BucketsAreNumbers, RuleAssumption, SMT
<1>2. IsOver(b) => IsOver(b)'
  BY <1>1, BucketsAreNumbers, RuleAssumption, BoundsAssumption DEF IsOver, TypeOK
<1>3. WithinBudget(b)'
  BY <1>2 DEF WithinBudget
<1>4. OutlivesBucket(b)'
  BY DEF OutlivesBucket
<1> QED
  BY <1>3, <1>4

\* Counting a request, which admits it within the limit or does not admit it.
LEMMA BudgetCounts ==
    ASSUME TypeOK, TypeOK', NEW b \in Buckets, WithinBudget(b), OutlivesBucket(b),
           Increment(b), restarts' = restarts, time' = time,
           \/ admitted'[b] = admitted[b]
           \/ admitted'[b] = admitted[b] + 1 /\ key[b].count + 1 <= Limit
    PROVE  WithinBudget(b)' /\ OutlivesBucket(b)'
<1> DEFINE n == latecomers[b] + restarts
<1>1. /\ n \in Nat /\ key[b].count \in Nat /\ admitted[b] \in Nat
      /\ Limit * n \in Nat /\ Limit * (n + 1) = Limit * n + Limit
  BY OneMorePays DEF TypeOK, Key
<1>2. key'[b].count = key[b].count + 1 /\ key'[b].expiry = key[b].expiry
  BY DEF Increment, TypeOK, Key
<1>3. latecomers'[b] = IF IsOver(b) THEN latecomers[b] + 1 ELSE latecomers[b]
  BY DEF Increment, TypeOK
<1>4. latecomers'[b] + restarts' = IF IsOver(b) THEN n + 1 ELSE n
  BY <1>3 DEF TypeOK
<1>5. OutlivesBucket(b)'
  BY <1>2 DEF OutlivesBucket
<1>6. CASE IsOver(b)
  <2>1. admitted[b] <= Limit * n + Limit
    BY <1>1, RuleAssumption DEF WithinBudget
  <2>2. admitted'[b] <= Limit * (n + 1) + key'[b].count
    BY <2>1, <1>1, <1>2, RuleAssumption
  <2>3. admitted'[b] <= Limit * (n + 1) + Limit
    BY <2>1, <1>1, RuleAssumption
  <2>4. latecomers'[b] + restarts' = n + 1 /\ key'[b].count > 0
    BY <1>1, <1>2, <1>4, <1>6
  <2> HIDE DEF n
  <2> QED
    BY <2>2, <2>3, <2>4, <1>5 DEF WithinBudget
<1>7. CASE ~IsOver(b)
  <2>1. admitted[b] <= Limit * n + key[b].count /\ admitted[b] <= Limit * n + Limit
    BY <1>1, <1>7, RuleAssumption DEF WithinBudget
  <2>2. admitted'[b] <= Limit * n + key'[b].count
    BY <2>1, <1>1, <1>2
  <2>3. admitted'[b] <= Limit * n + Limit
    BY <2>1, <1>1, RuleAssumption
  <2>4. latecomers'[b] + restarts' = n /\ key'[b].count > 0
    BY <1>1, <1>2, <1>4, <1>7
  <2> HIDE DEF n
  <2> QED
    BY <2>2, <2>3, <2>4, <1>5 DEF WithinBudget
<1> QED
  BY <1>6, <1>7

LEMMA AdmissionStep == AdmissionInv /\ [Next]_vars => AdmissionInv'
<1> SUFFICES ASSUME AdmissionInv, [Next]_vars PROVE AdmissionInv'
  OBVIOUS
<1>0. TypeOK /\ TypeOK'
  BY TypeStep DEF AdmissionInv
<1> SUFFICES BegunInTime' /\ \A b \in Buckets : OutlivesBucket(b)' /\ WithinBudget(b)'
  BY <1>0 DEF AdmissionInv
\* Only an arrival moves a request out of "new", and time only advances.
<1>1. ASSUME NEW r \in Requests, Arrive(r)
      PROVE  BegunInTime' /\ \A b \in Buckets : OutlivesBucket(b)' /\ WithinBudget(b)'
  <2>1. PICK s \in Nat \cap (time - Skew) .. (time + Skew) :
          req' = [req EXCEPT ![r] = [step |-> "count", bucket |-> BucketOf(s)]]
    BY <1>1 DEF Arrive
  <2>2. BucketOf(s) * Window <= time + Skew
    <3>1. BucketOf(s) \in Nat /\ BucketOf(s) * Window <= s /\ s <= time + Skew
      BY BucketBelow, BoundsAssumption, <1>0 DEF TypeOK
    <3>2. BucketOf(s) * Window \in Nat
      BY <3>1, RuleAssumption, SMT
    <3> QED
      BY <3>1, <3>2, BoundsAssumption, <1>0 DEF TypeOK
  <2>3. BegunInTime'
    BY <1>0, <1>1, <2>1, <2>2 DEF AdmissionInv, BegunInTime, Arrive, TypeOK
  <2>4. ASSUME NEW b \in Buckets PROVE OutlivesBucket(b)' /\ WithinBudget(b)'
    BY <1>0, <1>1, BudgetFrame, BoundsAssumption DEF AdmissionInv, Arrive, TypeOK
  <2> QED
    BY <2>3, <2>4
<1>2. ASSUME NEW r \in Requests, Count(r)
      PROVE  BegunInTime' /\ \A b \in Buckets : OutlivesBucket(b)' /\ WithinBudget(b)'
  <2>1. BegunInTime'
    BY <1>0, <1>2 DEF AdmissionInv, BegunInTime, Count, Goes, TypeOK
  <2>2. req[r].bucket \in Buckets /\ Increment(req[r].bucket)
    BY <1>0, <1>2 DEF Count, TypeOK
  <2>3. ASSUME NEW b \in Buckets PROVE OutlivesBucket(b)' /\ WithinBudget(b)'
    <3>1. CASE b = req[r].bucket
      <4>1. \/ admitted'[b] = admitted[b]
            \/ admitted'[b] = admitted[b] + 1 /\ key[b].count + 1 <= Limit
        BY <1>0, <1>2, <3>1 DEF Count, Allows, TypeOK
      <4> QED
        BY <1>0, <1>2, <2>2, <3>1, <4>1, BudgetCounts DEF AdmissionInv, Count
    <3>2. CASE b # req[r].bucket
      <4>1. /\ key'[b] = key[b] /\ admitted'[b] = admitted[b]
            /\ latecomers'[b] = latecomers[b]
        BY <1>0, <1>2, <2>2, <3>2 DEF Count, Increment, TypeOK
      <4> QED
        BY <1>0, <1>2, <4>1, BudgetFrame, BoundsAssumption
           DEF AdmissionInv, Count, TypeOK
    <3> QED
      BY <3>1, <3>2
  <2> QED
    BY <2>1, <2>3
<1>3. ASSUME NEW r \in Requests, ReplyLost(r)
      PROVE  BegunInTime' /\ \A b \in Buckets : OutlivesBucket(b)' /\ WithinBudget(b)'
  <2>1. BegunInTime'
    BY <1>0, <1>3 DEF AdmissionInv, BegunInTime, ReplyLost, Goes, TypeOK
  <2>2. req[r].bucket \in Buckets
    BY <1>0 DEF TypeOK
  <2>3. ASSUME NEW b \in Buckets PROVE OutlivesBucket(b)' /\ WithinBudget(b)'
    <3>1. CASE b = req[r].bucket /\ Increment(b)
      BY <1>0, <1>3, <3>1, BudgetCounts DEF AdmissionInv, ReplyLost
    <3>2. CASE ~(b = req[r].bucket /\ Increment(b))
      <4>1. /\ key'[b] = key[b] /\ admitted'[b] = admitted[b]
            /\ latecomers'[b] = latecomers[b]
        BY <1>0, <1>3, <2>2, <3>2 DEF ReplyLost, Increment, TypeOK
      <4> QED
        BY <1>0, <1>3, <4>1, BudgetFrame, BoundsAssumption
           DEF AdmissionInv, ReplyLost, TypeOK
    <3> QED
      BY <3>1, <3>2
  <2> QED
    BY <2>1, <2>3
<1>4. ASSUME NEW r \in Requests, Expire(r)
      PROVE  BegunInTime' /\ \A b \in Buckets : OutlivesBucket(b)' /\ WithinBudget(b)'
  <2>1. BegunInTime'
    BY <1>0, <1>4 DEF AdmissionInv, BegunInTime, Expire, Goes, TypeOK
  <2>2. req[r].bucket \in Buckets /\ req[r].bucket * Window <= time + Skew
    BY <1>0, <1>4 DEF AdmissionInv, BegunInTime, Expire, TypeOK
  <2>3. ASSUME NEW b \in Buckets PROVE OutlivesBucket(b)' /\ WithinBudget(b)'
    <3>1. CASE key'[b] = key[b]
      BY <1>0, <1>4, <3>1, BudgetFrame, BoundsAssumption
         DEF AdmissionInv, Expire, TypeOK
    <3>2. CASE key'[b] # key[b]
      <4>1. b = req[r].bucket /\ key'[b] = [key[b] EXCEPT !.expiry = time + Life]
        BY <1>0, <1>4, <2>2, <3>2 DEF Expire, TypeOK
      <4>2. key'[b].count = key[b].count /\ key'[b].expiry = time + Life
        BY <1>0, <4>1 DEF TypeOK, Key
      <4>3. OutlivesBucket(b)'
        <5>1. b * Window \in Nat /\ (b + 1) * Window = b * Window + Window
          BY BucketsAreNumbers, RuleAssumption, SMT
        <5>2. time + Life >= (b + 1) * Window + Slack - Skew
          BY <1>0, <2>2, <4>1, <5>1, RuleAssumption, BoundsAssumption DEF Life, TypeOK
        <5> QED
          BY <4>2, <5>2 DEF OutlivesBucket
      <4>4. WithinBudget(b)'
        BY <1>4, <4>2 DEF AdmissionInv, WithinBudget, IsOver, Expire
      <4> QED
        BY <4>3, <4>4
    <3> QED
      BY <3>1, <3>2
  <2> QED
    BY <2>1, <2>3
<1>5. ASSUME NEW r \in Requests, ExpireFails(r)
      PROVE  BegunInTime' /\ \A b \in Buckets : OutlivesBucket(b)' /\ WithinBudget(b)'
  <2>1. BegunInTime'
    BY <1>0, <1>5 DEF AdmissionInv, BegunInTime, ExpireFails, Goes, TypeOK
  <2>2. ASSUME NEW b \in Buckets PROVE OutlivesBucket(b)' /\ WithinBudget(b)'
    BY <1>0, <1>5, BudgetFrame, BoundsAssumption DEF AdmissionInv, ExpireFails, TypeOK
  <2> QED
    BY <2>1, <2>2
\* An expiry is reached only when the bucket is over.
<1>6. ASSUME Tick
      PROVE  BegunInTime' /\ \A b \in Buckets : OutlivesBucket(b)' /\ WithinBudget(b)'
  <2>1. BegunInTime'
    <3> SUFFICES ASSUME NEW r \in Requests, req[r].step # "new"
                 PROVE  req[r].bucket * Window <= time + 1 + Skew
      BY <1>6 DEF BegunInTime, Tick
    <3>1. req[r].bucket \in Nat /\ req[r].bucket * Window <= time + Skew
      BY <1>0, BucketsAreNumbers DEF AdmissionInv, BegunInTime, TypeOK
    <3>2. req[r].bucket * Window \in Nat
      BY <3>1, RuleAssumption, SMT
    <3> QED
      BY <1>0, <3>1, <3>2, BoundsAssumption DEF TypeOK
  <2>2. ASSUME NEW b \in Buckets PROVE OutlivesBucket(b)' /\ WithinBudget(b)'
    <3>1. CASE key'[b] = key[b]
      BY <1>0, <1>6, <3>1, BudgetFrame, BoundsAssumption DEF AdmissionInv, Tick, TypeOK
    <3>2. CASE key'[b] # key[b]
      <4>1. key'[b] = NoKey /\ key[b].expiry # Null /\ key[b].expiry <= time + 1
        BY <1>6, <3>2 DEF Tick
      <4>2. key[b].expiry \in Nat /\ key[b].count \in Nat
        BY <1>0, <4>1 DEF TypeOK, Key
      <4>3. b * Window \in Nat /\ (b + 1) * Window = b * Window + Window
        BY BucketsAreNumbers, RuleAssumption, SMT
      <4>4. IsOver(b)'
        BY <1>0, <1>6, <4>1, <4>2, <4>3, RuleAssumption, BoundsAssumption
           DEF AdmissionInv, OutlivesBucket, IsOver, Tick, TypeOK
      <4>5. admitted[b] <= Limit * (latecomers[b] + restarts) + Limit
        BY <1>0, OneMorePays, RuleAssumption DEF AdmissionInv, WithinBudget, TypeOK
      <4>6. key'[b].count = 0 /\ key'[b].expiry = Null
        BY <4>1 DEF NoKey
      <4> QED
        BY <1>6, <4>4, <4>5, <4>6 DEF OutlivesBucket, WithinBudget, Tick
    <3> QED
      BY <3>1, <3>2
  <2> QED
    BY <2>1, <2>2
<1>7. ASSUME Restart
      PROVE  BegunInTime' /\ \A b \in Buckets : OutlivesBucket(b)' /\ WithinBudget(b)'
  <2>1. BegunInTime'
    BY <1>7 DEF AdmissionInv, BegunInTime, Restart
  <2>2. ASSUME NEW b \in Buckets PROVE OutlivesBucket(b)' /\ WithinBudget(b)'
    <3> DEFINE n == latecomers[b] + restarts
    <3>1. /\ n \in Nat /\ Limit * n \in Nat /\ Limit * (n + 1) = Limit * n + Limit
          /\ admitted[b] \in Nat
      BY <1>0, OneMorePays DEF TypeOK
    <3>2. admitted[b] <= Limit * n + Limit
      BY <3>1, RuleAssumption DEF AdmissionInv, WithinBudget
    <3>3. latecomers'[b] + restarts' = n + 1
      BY <1>0, <1>7 DEF Restart, TypeOK
    <3>4. key'[b].count = 0 /\ key'[b].expiry = Null
      BY <1>7 DEF Restart, NoKey
    <3>5. admitted'[b] <= Limit * (n + 1)
      BY <1>7, <3>1, <3>2 DEF Restart
    <3> HIDE DEF n
    <3> QED
      BY <3>3, <3>4, <3>5 DEF OutlivesBucket, WithinBudget
  <2> QED
    BY <2>1, <2>2
<1>8. CASE UNCHANGED vars
  BY <1>8 DEF vars, AdmissionInv, BegunInTime, OutlivesBucket, WithinBudget, IsOver
<1> QED
  BY <1>1, <1>2, <1>3, <1>4, <1>5, <1>6, <1>7, <1>8 DEF Next

LEMMA AdmissionImplies == AdmissionInv => AdmittedPerBucket
<1> SUFFICES ASSUME AdmissionInv, NEW b \in Buckets
             PROVE  admitted[b] <= Limit * (1 + latecomers[b] + restarts)
  BY DEF AdmittedPerBucket
<1> DEFINE n == latecomers[b] + restarts
<1>1. /\ n \in Nat /\ Limit * n \in Nat /\ Limit * (n + 1) = Limit * n + Limit
      /\ admitted[b] \in Nat
  BY OneMorePays DEF AdmissionInv, TypeOK
<1>2. admitted[b] <= Limit * n + Limit
  BY <1>1, RuleAssumption DEF AdmissionInv, WithinBudget
<1>3. 1 + latecomers[b] + restarts = n + 1
  BY DEF AdmissionInv, TypeOK
<1> HIDE DEF n
<1> QED
  BY <1>1, <1>2, <1>3

\* A bucket admits its limit, and more only when a request comes later than
\* its slack allows or Redis loses its data.
THEOREM AdmissionIsBounded == Spec => []AdmittedPerBucket
<1>1. Init => AdmissionInv
  BY AdmissionInit
<1>2. AdmissionInv /\ [Next]_vars => AdmissionInv'
  BY AdmissionStep
<1>3. AdmissionInv => AdmittedPerBucket
  BY AdmissionImplies
<1> QED
  BY <1>1, <1>2, <1>3, PTL DEF Spec

-----------------------------------------------------------------------------
(* Refusal *)

\* The requests a bucket has counted, up to its limit, were admitted or cost
\* a fault.
RefusalInv ==
    /\ TypeOK
    /\ \A b \in Buckets :
         /\ key[b].count <= admitted[b] + faults \/ admitted[b] + faults >= Limit
         /\ refused[b] > 0 => admitted[b] + faults >= Limit

LEMMA RefusalStep == RefusalInv /\ [Next]_vars => RefusalInv'
<1> SUFFICES ASSUME RefusalInv, [Next]_vars PROVE RefusalInv'
  OBVIOUS
<1>0. TypeOK /\ TypeOK'
  BY TypeStep DEF RefusalInv
<1> SUFFICES ASSUME NEW b \in Buckets
             PROVE  /\ \/ key'[b].count <= admitted'[b] + faults'
                       \/ admitted'[b] + faults' >= Limit
                    /\ refused'[b] > 0 => admitted'[b] + faults' >= Limit
  BY <1>0 DEF RefusalInv
<1> DEFINE Accounted == /\ \/ key'[b].count <= admitted'[b] + faults'
                           \/ admitted'[b] + faults' >= Limit
                        /\ refused'[b] > 0 => admitted'[b] + faults' >= Limit
<1>1. /\ key[b].count <= admitted[b] + faults \/ admitted[b] + faults >= Limit
      /\ refused[b] > 0 => admitted[b] + faults >= Limit
  BY DEF RefusalInv
<1>2. /\ key[b].count \in Nat /\ admitted[b] \in Nat /\ refused[b] \in Nat
      /\ faults \in Nat /\ Limit \in Nat
  BY <1>0, RuleAssumption DEF TypeOK, Key
<1>3. ASSUME NEW r \in Requests, Count(r) PROVE Accounted
  <2>1. req[r].bucket \in Buckets
    BY <1>0 DEF TypeOK
  <2>2. key'[b].count = IF b = req[r].bucket THEN key[b].count + 1 ELSE key[b].count
    BY <1>0, <1>3, <2>1 DEF Count, Increment, TypeOK, Key
  <2>3. CASE b = req[r].bucket /\ key[b].count + 1 <= Limit
    BY <1>0, <1>1, <1>2, <1>3, <2>2, <2>3 DEF Count, Allows, TypeOK
  <2>4. CASE b = req[r].bucket /\ ~(key[b].count + 1 <= Limit)
    BY <1>0, <1>1, <1>2, <1>3, <2>2, <2>4 DEF Count, Allows, TypeOK
  <2>5. CASE b # req[r].bucket
    BY <1>0, <1>1, <1>3, <2>1, <2>2, <2>5 DEF Count, TypeOK
  <2> QED
    BY <2>3, <2>4, <2>5
<1>4. ASSUME NEW r \in Requests, ReplyLost(r) PROVE Accounted
  <2>1. key'[b].count <= key[b].count + 1
    BY <1>0, <1>2, <1>4 DEF ReplyLost, Increment, TypeOK, Key
  <2>2. key'[b].count \in Nat
    BY <1>0 DEF TypeOK, Key
  <2> QED
    BY <1>1, <1>2, <1>4, <2>1, <2>2 DEF ReplyLost
<1>5. ASSUME NEW r \in Requests, Arrive(r) \/ Expire(r) \/ ExpireFails(r)
      PROVE  Accounted
  <2>1. key'[b].count = key[b].count
    <3>1. CASE Arrive(r) \/ ExpireFails(r)
      BY <3>1 DEF Arrive, ExpireFails
    <3>2. CASE Expire(r)
      BY <1>0, <3>2 DEF Expire, TypeOK, Key
    <3> QED
      BY <1>5, <3>1, <3>2
  <2>2. admitted' = admitted /\ refused' = refused /\ faults' >= faults
    BY <1>2, <1>5 DEF Arrive, Expire, ExpireFails
  <2>3. faults' \in Nat
    BY <1>0 DEF TypeOK
  <2> QED
    BY <1>1, <1>2, <2>1, <2>2, <2>3
<1>6. CASE Tick \/ Restart
  <2>1. key'[b].count <= key[b].count
    BY <1>2, <1>6 DEF Tick, Restart, NoKey
  <2>2. key'[b].count \in Nat
    BY <1>0 DEF TypeOK, Key
  <2> QED
    BY <1>1, <1>2, <1>6, <2>1, <2>2 DEF Tick, Restart
<1>7. CASE UNCHANGED vars
  BY <1>1, <1>7 DEF vars
<1> QED
  BY <1>3, <1>4, <1>5, <1>6, <1>7 DEF Next

\* A refused request had its limit used up by others.
THEOREM RefusalHasCause == Spec => []RefusedForCause
<1>1. Init => RefusalInv
  BY TypeInit, RuleAssumption DEF Init, RefusalInv, NoKey
<1>2. RefusalInv /\ [Next]_vars => RefusalInv'
  BY RefusalStep
<1>3. RefusalInv => RefusedForCause
  BY DEF RefusalInv, RefusedForCause
<1> QED
  BY <1>1, <1>2, <1>3, PTL DEF Spec

-----------------------------------------------------------------------------
(* Expiry *)

LEMMA BucketsAreFinite == IsFiniteSet(Buckets)
<1>1. BucketOf(MaxTime + Skew) \in Nat
  BY BucketBelow, BoundsAssumption
<1> QED
  BY <1>1, FS_Interval DEF Buckets, BucketOf

LEMMA LastingType == IsFiniteSet(Lasting) /\ Cardinality(Lasting) \in Nat
BY BucketsAreFinite, FS_Subset, FS_CardinalityType DEF Lasting

\* A step that makes no key last leaves their number within the faults.
LEMMA FewerLast ==
    ASSUME Lasting' \subseteq Lasting
    PROVE  Cardinality(Lasting') <= Cardinality(Lasting)
BY LastingType, FS_Subset

\* A fault makes one key last at most.
LEMMA OneMoreLasts ==
    ASSUME NEW b, Lasting' \subseteq Lasting \cup {b}
    PROVE  Cardinality(Lasting') <= Cardinality(Lasting) + 1
<1>0. /\ IsFiniteSet(Lasting \cup {b})
      /\ Cardinality(Lasting \cup {b}) =
           IF b \in Lasting THEN Cardinality(Lasting) ELSE Cardinality(Lasting) + 1
  BY LastingType, FS_AddElement, Zenon
<1>1. /\ IsFiniteSet(Lasting \cup {b})
      /\ Cardinality(Lasting \cup {b}) <= Cardinality(Lasting) + 1
  BY <1>0, LastingType
<1>2. Cardinality(Lasting') <= Cardinality(Lasting \cup {b})
  BY <1>1, FS_Subset
<1>3. Cardinality(Lasting') \in Nat /\ Cardinality(Lasting \cup {b}) \in Nat
  BY <1>1, LastingType, FS_CardinalityType, FS_Subset
<1> QED
  BY <1>1, <1>2, <1>3, LastingType

LastingInv == TypeOK /\ LastingKeysPaidFor

LEMMA LastingStep == LastingInv /\ [Next]_vars => LastingInv'
<1> SUFFICES ASSUME LastingInv, [Next]_vars PROVE LastingInv'
  OBVIOUS
<1>0. TypeOK /\ TypeOK' /\ Cardinality(Lasting) <= faults
  BY TypeStep DEF LastingInv, LastingKeysPaidFor
<1> SUFFICES Cardinality(Lasting') <= faults'
  BY <1>0 DEF LastingInv, LastingKeysPaidFor
<1>a. faults \in Nat /\ Cardinality(Lasting) \in Nat
  BY <1>0, LastingType DEF TypeOK
<1>b. ASSUME Lasting' \subseteq Lasting, faults' = faults
      PROVE  Cardinality(Lasting') <= faults'
  <2>1. Cardinality(Lasting') \in Nat
    BY <1>b, LastingType, FS_Subset, FS_CardinalityType
  <2> QED
    BY <1>0, <1>a, <1>b, <2>1, FewerLast
<1>c. ASSUME NEW b, Lasting' \subseteq Lasting \cup {b}, faults' = faults + 1
      PROVE  Cardinality(Lasting') <= faults'
  <2>1. Cardinality(Lasting') \in Nat
    BY <1>c, LastingType, FS_AddElement, FS_Subset, FS_CardinalityType
  <2> QED
    BY <1>0, <1>a, <1>c, <2>1, OneMoreLasts
<1>1. ASSUME NEW r \in Requests, Arrive(r) PROVE Cardinality(Lasting') <= faults'
  <2>1. Lasting' \subseteq Lasting
    BY <1>0, <1>1 DEF Arrive, Lasting, TypeOK
  <2> QED
    BY <1>1, <2>1, <1>b DEF Arrive
\* Whoever starts a key is about to give it an expiry.
<1>2. ASSUME NEW r \in Requests, Count(r) PROVE Cardinality(Lasting') <= faults'
  <2>1. req[r].bucket \in Buckets
    BY <1>0 DEF TypeOK
  <2>2. ASSUME NEW b \in Lasting' PROVE b \in Lasting
    <3>1. CASE b = req[r].bucket
      <4>1. key[b].count \in Nat /\ key'[b].count = key[b].count + 1
            /\ key'[b].expiry = key[b].expiry
        BY <1>0, <1>2, <2>1, <3>1 DEF Count, Increment, TypeOK, Key
      <4>2. key[b].count # 0
        BY <1>0, <1>2, <2>2, <3>1, <4>1
           DEF Lasting, Count, Goes, SetsExpiry, TypeOK
      <4> QED
        BY <1>0, <1>2, <2>2, <4>1, <4>2 DEF Lasting, Count, Goes, TypeOK
    <3>2. CASE b # req[r].bucket
      BY <1>0, <1>2, <2>1, <2>2, <3>2 DEF Lasting, Count, Increment, Goes, TypeOK
    <3> QED
      BY <3>1, <3>2
  <2> QED
    BY <1>2, <2>2, <1>b DEF Count
<1>3. ASSUME NEW r \in Requests, ReplyLost(r) PROVE Cardinality(Lasting') <= faults'
  <2>1. req[r].bucket \in Buckets
    BY <1>0 DEF TypeOK
  <2>2. Lasting' \subseteq Lasting \cup {req[r].bucket}
    BY <1>0, <1>3, <2>1 DEF Lasting, ReplyLost, Increment, Goes, TypeOK
  <2> QED
    BY <1>3, <2>2, <1>c DEF ReplyLost
<1>4. ASSUME NEW r \in Requests, Expire(r) PROVE Cardinality(Lasting') <= faults'
  <2>1. req[r].bucket \in Buckets
    BY <1>0 DEF TypeOK
  <2>2. ASSUME NEW b \in Lasting' PROVE b \in Lasting
    <3>1. CASE b = req[r].bucket
      <4>1. CASE key[b] = NoKey
        BY <1>4, <2>2, <3>1, <4>1 DEF Expire, Lasting, NoKey
      <4>2. CASE key[b] # NoKey
        <5>1. key'[b].expiry = time + Life
          BY <1>0, <1>4, <2>1, <3>1, <4>2 DEF Expire, TypeOK, Key
        <5>2. time + Life \in Int
          BY <1>0, RuleAssumption DEF Life, TypeOK
        <5> QED
          BY <2>2, <5>1, <5>2, NullAssumption DEF Lasting
      <4> QED
        BY <4>1, <4>2
    <3>2. CASE b # req[r].bucket
      BY <1>0, <1>4, <2>1, <2>2, <3>2 DEF Lasting, Expire, Goes, TypeOK
    <3> QED
      BY <3>1, <3>2
  <2> QED
    BY <1>4, <2>2, <1>b DEF Expire
<1>5. ASSUME NEW r \in Requests, ExpireFails(r) PROVE Cardinality(Lasting') <= faults'
  <2>1. Lasting' \subseteq Lasting \cup {req[r].bucket}
    BY <1>0, <1>5 DEF Lasting, ExpireFails, Goes, TypeOK
  <2> QED
    BY <1>5, <2>1, <1>c DEF ExpireFails
<1>6. CASE Tick
  <2>1. Lasting' \subseteq Lasting
    BY <1>0, <1>6 DEF Lasting, Tick, NoKey, TypeOK
  <2> QED
    BY <1>6, <2>1, <1>b DEF Tick
<1>7. CASE Restart
  <2>1. Lasting' \subseteq Lasting
    BY <1>0, <1>7 DEF Lasting, Restart, NoKey
  <2> QED
    BY <1>7, <2>1, <1>b DEF Restart
<1>8. CASE UNCHANGED vars
  <2>1. Lasting' \subseteq Lasting
    BY <1>8 DEF Lasting, vars
  <2> QED
    BY <1>8, <2>1, <1>b DEF vars
<1> QED
  BY <1>1, <1>2, <1>3, <1>4, <1>5, <1>6, <1>7, <1>8 DEF Next

\* Only a fault leaves a key behind that never expires.
THEOREM LastingIsPaidFor == Spec => []LastingKeysPaidFor
<1>1. Init => LastingInv
  <2> SUFFICES ASSUME Init PROVE LastingInv
    OBVIOUS
  <2>1. Lasting = {}
    BY DEF Init, Lasting, NoKey
  <2> QED
    BY <2>1, TypeInit, FS_EmptySet DEF Init, LastingInv, LastingKeysPaidFor
<1>2. LastingInv /\ [Next]_vars => LastingInv'
  BY LastingStep
<1>3. LastingInv => LastingKeysPaidFor
  BY DEF LastingInv
<1> QED
  BY <1>1, <1>2, <1>3, PTL DEF Spec
=============================================================================
