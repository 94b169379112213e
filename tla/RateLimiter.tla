----------------------------- MODULE RateLimiter -----------------------------
(***************************************************************************)
(* The fixed-window rate limiter of the API: FixedWindowRateLimiter        *)
(* (packages/security/src/index.ts) over RedisRateLimitStore               *)
(* (packages/adapters/src/redis-rate-limit-store.ts), for one rule and one *)
(* caller, whose requests any number of API processes handle at once.      *)
(*                                                                         *)
(* time is the clock of Redis, which expires keys by it.  A request stamps *)
(* itself with the clock of its process, at most Skew away, and counts     *)
(* itself later, by INCR and, when it was the first, PEXPIRE.  The client  *)
(* resends a command once when its reply is lost (maxRetriesPerRequest 1   *)
(* in app.module.ts), after Redis has executed it or not; Redis keeps no   *)
(* data across a restart (docker-compose.yml gives it no volume).          *)
(***************************************************************************)
EXTENDS Integers, FiniteSets

CONSTANTS
    Requests,   \* requests of one caller under one rule
    Limit,      \* rule.limit
    Window,     \* rule.windowMs, in ticks
    Slack,      \* what the store adds to the life of a key, in ticks
    Skew,       \* bound on |clock of a process - time|
    Null,       \* a key without an expiry
    MaxTime,    \* bound on time
    MaxFaults,  \* bound: lost replies and failed PEXPIREs
    MaxRestarts \* bound: restarts of Redis

ASSUME RuleAssumption == Limit \in Nat \ {0} /\ Window \in Nat \ {0} /\ Slack \in Nat
ASSUME BoundsAssumption ==
    /\ Skew \in Nat /\ MaxTime \in Nat /\ MaxFaults \in Nat /\ MaxRestarts \in Nat
ASSUME NullAssumption == Null \notin Int

VARIABLES
    time,       \* the clock of Redis
    key,        \* key[b]: the counter of the bucket that starts at b * Window
    req,        \* req[r]: where a request stands in enforceRateLimit
    admitted,   \* admitted[b]: requests of b told a count within the limit
    latecomers, \* latecomers[b]: requests of b counted when b should be over
    refused,    \* refused[b]: requests of b answered with 429
    faults, restarts

vars == <<time, key, req, admitted, latecomers, refused, faults, restarts>>

Buckets == 0 .. (MaxTime + Skew) \div Window
Steps == {"new", "count", "resend", "expire", "over"}
Key == [count : Nat, expiry : Nat \cup {Null}]
NoKey == [count |-> 0, expiry |-> Null]

Init ==
    /\ time = 0
    /\ key = [b \in Buckets |-> NoKey]
    /\ req = [r \in Requests |-> [step |-> "new", bucket |-> 0]]
    /\ admitted = [b \in Buckets |-> 0]
    /\ latecomers = [b \in Buckets |-> 0]
    /\ refused = [b \in Buckets |-> 0]
    /\ faults = 0
    /\ restarts = 0

Goes(r, step) == req' = [req EXCEPT ![r].step = step]

-----------------------------------------------------------------------------
(* A request *)

\* bucketStart: floor(now / windowMs) * windowMs, as its number.
BucketOf(stamp) == stamp \div Window

\* The controller reads new Date() and asks the limiter.
Arrive(r) ==
    /\ req[r].step = "new"
    /\ \E stamp \in Nat \cap (time - Skew) .. (time + Skew) :
         req' = [req EXCEPT ![r] = [step |-> "count", bucket |-> BucketOf(stamp)]]
    /\ UNCHANGED <<time, key, admitted, latecomers, refused, faults, restarts>>

\* The limit read as the first count to refuse.
AllowsBelow(count) == count < Limit

\* decision.allowed.
Allows(count) == count <= Limit

\* No process whose clock is right still takes b for the current bucket, and
\* a key made when b began has lived its window and its slack.
IsOver(b) == time >= (b + 1) * Window + Slack - Skew

\* INCR: a key that does not exist starts at 0, without an expiry.
Increment(b) ==
    /\ key' = [key EXCEPT ![b].count = @ + 1]
    /\ latecomers' = IF IsOver(b) THEN [latecomers EXCEPT ![b] = @ + 1] ELSE latecomers

\* A store that gives a key its expiry when the limit is reached.
SetsExpiryAtLimit(count) == count = Limit

SetsExpiry(count) == count = 1

\* The reply to INCR arrives: the request sets the expiry next, or is over.
Count(r) ==
    LET b == req[r].bucket
        count == key[b].count + 1
    IN /\ req[r].step \in {"count", "resend"}
       /\ Increment(b)
       /\ Goes(r, IF SetsExpiry(count) THEN "expire" ELSE "over")
       /\ IF Allows(count)
          THEN admitted' = [admitted EXCEPT ![b] = @ + 1] /\ UNCHANGED refused
          ELSE refused' = [refused EXCEPT ![b] = @ + 1] /\ UNCHANGED admitted
       /\ UNCHANGED <<time, faults, restarts>>

\* INCR is executed or not, and its reply is lost: the client sends it again,
\* and after the second loss the request fails.
ReplyLost(r) ==
    LET b == req[r].bucket
    IN /\ req[r].step \in {"count", "resend"}
       /\ faults < MaxFaults
       /\ Increment(b) \/ UNCHANGED <<key, latecomers>>
       /\ Goes(r, IF req[r].step = "count" THEN "resend" ELSE "over")
       /\ faults' = faults + 1
       /\ UNCHANGED <<time, admitted, refused, restarts>>

\* A key that lives for its window and no longer.
LifeOfWindow == Window

\* windowMs + 1000, from now on.
Life == Window + Slack

\* PEXPIRE, of a key that a restart may have deleted meanwhile.
Expire(r) ==
    LET b == req[r].bucket
    IN /\ req[r].step = "expire"
       /\ key' = IF key[b] = NoKey THEN key ELSE [key EXCEPT ![b].expiry = time + Life]
       /\ Goes(r, "over")
       /\ UNCHANGED <<time, admitted, latecomers, refused, faults, restarts>>

\* PEXPIRE fails, or the process dies before it.
ExpireFails(r) ==
    /\ req[r].step = "expire"
    /\ faults < MaxFaults
    /\ Goes(r, "over")
    /\ faults' = faults + 1
    /\ UNCHANGED <<time, key, admitted, latecomers, refused, restarts>>

-----------------------------------------------------------------------------
(* Redis *)

\* Time passes, and the keys whose expiry is reached are gone.
Tick ==
    /\ time < MaxTime
    /\ time' = time + 1
    /\ key' = [b \in Buckets |->
                 IF key[b].expiry # Null /\ key[b].expiry <= time + 1
                 THEN NoKey ELSE key[b]]
    /\ UNCHANGED <<req, admitted, latecomers, refused, faults, restarts>>

Restart ==
    /\ restarts < MaxRestarts
    /\ restarts' = restarts + 1
    /\ key' = [b \in Buckets |-> NoKey]
    /\ UNCHANGED <<time, req, admitted, latecomers, refused, faults>>

Next ==
    \/ \E r \in Requests :
         Arrive(r) \/ Count(r) \/ ReplyLost(r) \/ Expire(r) \/ ExpireFails(r)
    \/ Tick
    \/ Restart

Spec == Init /\ [][Next]_vars

-----------------------------------------------------------------------------
(* Properties *)

\* Every variable holds what the store and a request can hold.
TypeOK ==
    /\ time \in 0 .. MaxTime
    /\ key \in [Buckets -> Key]
    /\ req \in [Requests -> [step : Steps, bucket : Buckets]]
    /\ admitted \in [Buckets -> Nat]
    /\ latecomers \in [Buckets -> Nat]
    /\ refused \in [Buckets -> Nat]
    /\ faults \in Nat /\ restarts \in Nat

\* However the processes interleave and whatever replies are lost, a bucket
\* admits its limit, and that much again only for a request that is counted
\* after the end of the bucket and its slack, or for a restart of Redis: the
\* key outlives every request that comes in time.
AdmittedPerBucket ==
    \A b \in Buckets : admitted[b] <= Limit * (1 + latecomers[b] + restarts)

\* Nobody is refused for nothing: when a bucket refuses, its limit has been
\* used up, by requests it admitted or by INCRs whose replies were lost.
RefusedForCause ==
    \A b \in Buckets : refused[b] > 0 => admitted[b] + faults >= Limit

\* The buckets whose key has no expiry and whom nobody is about to give one.
Lasting ==
    {b \in Buckets :
        /\ key[b].count > 0
        /\ key[b].expiry = Null
        /\ \A r \in Requests : req[r].step = "expire" => req[r].bucket # b}

\* A key that will never expire has cost a fault: between INCR and PEXPIRE,
\* which are two commands, or at the INCR whose resend was told 2.
LastingKeysPaidFor == Cardinality(Lasting) <= faults
=============================================================================
