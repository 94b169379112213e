----------------------------- MODULE InboxProofs -----------------------------
(***************************************************************************)
(* Theorems about the inbox for any set of events with any versions and    *)
(* streams, any number of receivers and workers, any attempt limit and any *)
(* number of crashes.                                                      *)
(***************************************************************************)
EXTENDS Inbox, FiniteSetTheorems, TLAPS

-----------------------------------------------------------------------------
(* Type correctness *)

LEMMA RecordTypes ==
    /\ NoRow \in Row
    /\ IdleReceiver \in ReceiverState
    /\ IdleWorker \in WorkerState
    /\ IdleReceiver.step = "idle" /\ IdleWorker.step = "idle"
BY DEF NoRow, IdleReceiver, IdleWorker, Row, Statuses, ReceiverState, WorkerState

LEMMA TypeInit == Init => TypeOK
BY RecordTypes DEF Init, TypeOK

\* Waking and finishing keep the table well typed.
LEMMA WokenType ==
    ASSUME NEW rows \in [Events -> Row], NEW waiting
    PROVE  Woken(rows, waiting) \in [Events -> Row]
<1>1. ASSUME NEW e \in Events
      PROVE  [rows[e] EXCEPT !.status = "received", !.available = "now",
                             !.lockedBy = Null] \in Row
  BY DEF Row, Statuses
<1> QED
  BY <1>1 DEF Woken

LEMMA FinishType ==
    ASSUME NEW rows \in [Events -> Row], NEW w \in Workers,
           worker[w].event \in Events,
           NEW outcome \in Statuses, Finish(w, rows, outcome)
    PROVE  row' \in [Events -> Row]
<1> DEFINE e == worker[w].event
<1>1. [rows[e] EXCEPT !.status = outcome, !.available = "now", !.lockedBy = Null] \in Row
  BY DEF Row
<1> QED
  BY <1>1 DEF Finish

LEMMA TypeStep == TypeOK /\ [Next]_vars => TypeOK'
<1> SUFFICES ASSUME TypeOK, [Next]_vars PROVE TypeOK'
  OBVIOUS
<1> USE DEF TypeOK
<1>1. ASSUME NEW r \in Receivers, IngestReadsVersions(r) PROVE TypeOK'
  <2>1. PICK e \in Events, verdict \in {"ignored", "received"} :
          receiver' = [receiver EXCEPT ![r] =
            [@ EXCEPT !.step = "prerequisite", !.event = e, !.verdict = verdict]]
    BY <1>1 DEF IngestReadsVersions
  <2>2. [receiver[r] EXCEPT !.step = "prerequisite", !.event = e, !.verdict = verdict]
          \in ReceiverState
    BY DEF ReceiverState
  <2> QED
    BY <1>1, <2>1, <2>2 DEF IngestReadsVersions
<1>2. ASSUME NEW r \in Receivers, IngestReadsPrerequisite(r) PROVE TypeOK'
  <2>1. PICK verdict \in {"parked", "ignored", "received"} :
          receiver' = [receiver EXCEPT ![r] =
            [@ EXCEPT !.step = "insert", !.verdict = verdict]]
    BY <1>2 DEF IngestReadsPrerequisite, ReceiverState
  <2>2. [receiver[r] EXCEPT !.step = "insert", !.verdict = verdict] \in ReceiverState
    BY DEF ReceiverState
  <2>3. receiver[r].event \in Events
    BY <1>2 DEF IngestReadsPrerequisite
  <2> QED
    BY <1>2, <2>1, <2>2, <2>3 DEF IngestReadsPrerequisite
<1>3. ASSUME NEW r \in Receivers, IngestInserts(r) PROVE TypeOK'
  <2>1. [NoRow EXCEPT !.status = receiver[r].verdict] \in Row
    BY DEF NoRow, Row, Statuses, ReceiverState
  <2> QED
    BY <1>3, <2>1, RecordTypes DEF IngestInserts
<1>4. ASSUME NEW w \in Workers, ClaimNext(w) PROVE TypeOK'
  <2>1. PICK e \in Events :
          /\ row' = [row EXCEPT ![e] =
               [@ EXCEPT !.status = "processing", !.lockedBy = w,
                         !.attempt = row[e].attempt + 1]]
          /\ worker' = [worker EXCEPT ![w] =
               [IdleWorker EXCEPT !.step = "load", !.event = e]]
    BY <1>4 DEF ClaimNext
  <2>2. [row[e] EXCEPT !.status = "processing", !.lockedBy = w,
                       !.attempt = row[e].attempt + 1] \in Row
    <3> DEFINE n == row[e].attempt + 1
    <3>1. n \in Nat
      BY DEF Row
    <3> HIDE DEF n
    <3>2. [row[e] EXCEPT !.status = "processing", !.lockedBy = w, !.attempt = n] \in Row
      BY <3>1 DEF Row, Statuses
    <3> QED
      BY <3>2 DEF n
  <2>3. [IdleWorker EXCEPT !.step = "load", !.event = e] \in WorkerState
    BY DEF IdleWorker, WorkerState
  <2> QED
    BY <1>4, <2>1, <2>2, <2>3 DEF ClaimNext, IdleWorker
<1>5. ASSUME NEW w \in Workers, Load(w) PROVE TypeOK'
  <2>1. [worker[w] EXCEPT !.step = "commit", !.known = order] \in WorkerState
    BY DEF WorkerState
  <2> QED
    BY <1>5, <2>1 DEF Load
<1>6. ASSUME NEW w \in Workers, CommitCreation(w) PROVE TypeOK'
  <2>1. worker[w].event \in Events /\ worker[w].event \in Creators
    BY <1>6 DEF CommitCreation
  <2>2. row' \in [Events -> Row]
    BY <1>6, <2>1, WokenType, FinishType DEF CommitCreation, Statuses
  <2>3. order' \in Nat
    BY <1>6, <2>1, VersionAssumption DEF CommitCreation
  <2>4. effects' \in [Events -> Nat]
    <3>1. effects' = [effects EXCEPT ![worker[w].event] = @ + 1]
      BY <1>6 DEF CommitCreation
    <3> QED
      BY <2>1, <3>1
  <2> QED
    BY <1>6, <2>2, <2>3, <2>4, RecordTypes DEF CommitCreation
<1>6a. ASSUME NEW w \in Workers, WakeParked(w) PROVE TypeOK'
  <2> DEFINE woken == {f \in Events : Waits(f)}
  <2>1. woken \in SUBSET Events
    OBVIOUS
  <2>2. worker' = [worker EXCEPT ![w] = [@ EXCEPT !.step = "woken", !.woken = woken]]
    BY <1>6a DEF WakeParked
  <2>3. worker[w].event \in Events /\ worker[w].event \in Creators
    BY <1>6a DEF WakeParked
  <2> HIDE DEF woken
  <2>4. /\ [worker[w] EXCEPT !.step = "woken", !.woken = woken] \in WorkerState
        /\ [worker[w] EXCEPT !.step = "woken", !.woken = woken].event = worker[w].event
    BY <2>1 DEF WorkerState
  <2> QED
    BY <1>6a, <2>2, <2>3, <2>4 DEF WakeParked
<1>7. ASSUME NEW w \in Workers, CreationCollides(w) PROVE TypeOK'
  <2>1. [worker[w] EXCEPT !.step = "fail"] \in WorkerState
    BY DEF WorkerState
  <2>2. worker[w].event \in Events
    BY <1>7 DEF CreationCollides
  <2>3. worker' = [worker EXCEPT ![w] = [@ EXCEPT !.step = "fail"]]
    BY <1>7 DEF CreationCollides
  <2> QED
    BY <1>7, <2>1, <2>2, <2>3 DEF CreationCollides
<1>7a. ASSUME NEW w \in Workers, TransactionThrows(w) PROVE TypeOK'
  <2>1. [worker[w] EXCEPT !.step = "fail", !.woken = {}] \in WorkerState
    BY DEF WorkerState
  <2>2. worker[w].event \in Events
    BY <1>7a DEF TransactionThrows
  <2>3. worker' = [worker EXCEPT ![w] = [@ EXCEPT !.step = "fail", !.woken = {}]]
    BY <1>7a DEF TransactionThrows
  <2> QED
    BY <1>7a, <2>1, <2>2, <2>3 DEF TransactionThrows
<1>8. ASSUME NEW w \in Workers, CommitIgnored(w) \/ CommitUnhandled(w) \/ CommitParked(w)
      PROVE TypeOK'
  <2>1. worker[w].event \in Events
    BY <1>8 DEF CommitIgnored, CommitUnhandled, CommitParked
  <2>2. row' \in [Events -> Row]
    BY <1>8, <2>1, FinishType DEF CommitIgnored, CommitUnhandled, CommitParked, Statuses
  <2> QED
    BY <1>8, <2>2, RecordTypes DEF CommitIgnored, CommitUnhandled, CommitParked
<1>9. ASSUME NEW w \in Workers, CommitDependent(w) PROVE TypeOK'
  <2>1. worker[w].event \in Events
    BY <1>9 DEF CommitDependent
  <2>2. row' \in [Events -> Row]
    BY <1>9, <2>1, FinishType DEF CommitDependent, Statuses
  <2>3. effects' \in [Events -> Nat]
    BY <1>9, <2>1 DEF CommitDependent
  <2> QED
    BY <1>9, <2>2, <2>3, RecordTypes DEF CommitDependent
<1>10. ASSUME NEW w \in Workers, RecordFailureReads(w) PROVE TypeOK'
  <2>1. worker[w].event \in Events
    BY <1>10 DEF RecordFailureReads
  <2>2. PICK verdict \in {"dead_letter", "received"} :
          worker' = [worker EXCEPT ![w] =
            IF HoldsClaim(w, worker[w].event)
            THEN [@ EXCEPT !.step = "failing", !.verdict = verdict]
            ELSE IdleWorker]
    BY <1>10 DEF RecordFailureReads
  <2>3. [worker[w] EXCEPT !.step = "failing", !.verdict = verdict] \in WorkerState
    BY DEF WorkerState
  <2> QED
    BY <1>10, <2>1, <2>2, <2>3, RecordTypes DEF RecordFailureReads
<1>11. ASSUME NEW w \in Workers, RecordFailureWrites(w) PROVE TypeOK'
  <2>1. worker[w].event \in Events
    BY <1>11 DEF RecordFailureWrites
  <2>2. FailureStatus(w) \in Statuses
    BY DEF FailureStatus, WorkerState, Statuses
  <2>3. [row[worker[w].event] EXCEPT !.status = FailureStatus(w), !.available = "later",
                                     !.lockedBy = Null] \in Row
    BY <2>1, <2>2 DEF Row
  <2> QED
    BY <1>11, <2>1, <2>3, RecordTypes DEF RecordFailureWrites
<1>12. ASSUME NEW w \in Workers, Crash(w) PROVE TypeOK'
  BY <1>12, RecordTypes DEF Crash
<1>13. ASSUME NEW e \in Events, BecomesDue(e) PROVE TypeOK'
  <2>1. [row[e] EXCEPT !.available = "now"] \in Row
    BY DEF Row
  <2> QED
    BY <1>13, <2>1 DEF BecomesDue
<1>14. ASSUME UNCHANGED vars PROVE TypeOK'
  BY <1>14 DEF vars
<1> QED
  BY <1>1, <1>2, <1>3, <1>4, <1>5, <1>6, <1>7, <1>8, <1>9, <1>10, <1>11, <1>12,
     <1>13, <1>14, <1>6a, <1>7a
     DEF Next, FinishIngest, Process

\* Every variable of the inbox model keeps its type.
THEOREM TypeCorrect == Spec => []TypeOK
BY TypeInit, TypeStep, PTL DEF Spec

-----------------------------------------------------------------------------
(* Claims and effects *)

\* At most one transaction holds the order's row, and what it has woken waits until
\* it commits.
WakeInv ==
    /\ \A v, w \in Workers : worker[v].step = "woken" /\ worker[w].step = "woken" => v = w
    /\ \A w \in Workers : worker[w].step = "woken" =>
         \A e \in worker[w].woken : row[e].status = "parked"

IInv == TypeOK /\ ClaimIsSecure /\ OneEffect /\ WakeInv

\* Of the rows of the table, at most the parked ones are changed, to be tried again.
OnlyWoken(rows) ==
    /\ rows \in [Events -> Row]
    /\ \A f \in Events : \/ rows[f] = row[f]
                         \/ row[f].status = "parked" /\ rows[f].status = "received"

LEMMA NobodyWoken == TypeOK => OnlyWoken(row)
BY DEF TypeOK, OnlyWoken

LEMMA ParkedWoken ==
    ASSUME IInv, NEW w \in Workers, worker[w].step = "woken"
    PROVE  OnlyWoken(Woken(row, worker[w].woken))
<1> DEFINE rows == Woken(row, worker[w].woken)
<1>1. rows \in [Events -> Row]
  BY WokenType DEF IInv, TypeOK
<1>2. ASSUME NEW f \in Events
      PROVE  \/ rows[f] = row[f]
             \/ row[f].status = "parked" /\ rows[f].status = "received"
  <2>1. CASE f \in worker[w].woken
    <3>1. row[f] \in Row /\ row[f].status = "parked"
      BY <2>1 DEF IInv, TypeOK, WakeInv
    <3> QED
      BY <2>1, <3>1 DEF Woken, Row
  <2>2. CASE f \notin worker[w].woken
    BY <2>2 DEF Woken
  <2> QED
    BY <2>1, <2>2
<1> QED
  BY <1>1, <1>2 DEF OnlyWoken

\* What a commit does to the table: the own row gets the outcome, and of the
\* others at most the parked ones change.
LEMMA CommitRows ==
    ASSUME TypeOK, NEW w \in Workers, worker[w].event \in Events,
           HoldsClaim(w, worker[w].event),
           NEW rows, OnlyWoken(rows), NEW outcome \in Statuses, Finish(w, rows, outcome)
    PROVE  /\ row'[worker[w].event].status = outcome
           /\ \A e \in Events \ {worker[w].event} :
                \/ row'[e] = row[e]
                \/ row[e].status = "parked" /\ row'[e].status = "received"
<1>1. rows \in [Events -> Row]
  BY DEF OnlyWoken
<1>2. row' = [rows EXCEPT ![worker[w].event] =
               [@ EXCEPT !.status = outcome, !.available = "now", !.lockedBy = Null]]
  BY DEF Finish
<1>3. \A e \in Events \ {worker[w].event} : row'[e] = rows[e]
  BY <1>1, <1>2
<1>4. row'[worker[w].event].status = outcome
  BY <1>1, <1>2 DEF Row
<1> QED
  BY <1>3, <1>4 DEF OnlyWoken

\* A step of w that ends its processNext and leaves the rows other workers hold
\* as they are keeps every claim secure.
LEMMA OthersKeepClaims ==
    ASSUME TypeOK, ClaimIsSecure, NEW w \in Workers,
           worker[w].step # "idle",
           worker' = [worker EXCEPT ![w] = IdleWorker],
           \A e \in Events \ {worker[w].event} :
             row'[e] = row[e] \/ row[e].status = "parked"
    PROVE  ClaimIsSecure'
<1> SUFFICES ASSUME NEW v \in Workers, worker'[v].step # "idle"
             PROVE  HoldsClaim(v, worker[v].event)' 
  BY DEF ClaimIsSecure
<1>1. v # w
  BY RecordTypes DEF TypeOK
<1>2. worker'[v] = worker[v]
  BY <1>1 DEF TypeOK
<1>3. HoldsClaim(v, worker[v].event) /\ HoldsClaim(w, worker[w].event)
  BY <1>2 DEF ClaimIsSecure
<1>4. worker[v].event \in Events \ {worker[w].event}
  BY <1>1, <1>2, <1>3 DEF TypeOK, HoldsClaim
<1>5. row'[worker[v].event] = row[worker[v].event]
  BY <1>3, <1>4 DEF HoldsClaim
<1> QED
  BY <1>2, <1>3, <1>5 DEF HoldsClaim

LEMMA IInvInit == Init => IInv
<1>1. Init => ClaimIsSecure
  BY RecordTypes DEF Init, ClaimIsSecure
<1>2. ASSUME Init PROVE OneEffect
  <2>1. \A e \in Events : row[e] = NoRow /\ effects[e] = 0
    BY <1>2 DEF Init
  <2>2. NoRow.status # "processed"
    BY DEF NoRow
  <2> QED
    BY <2>1, <2>2 DEF OneEffect
<1>3. Init => WakeInv
  BY DEF Init, WakeInv, IdleWorker
<1> QED
  BY <1>1, <1>2, <1>3, TypeInit DEF IInv

LEMMA EffectStep == IInv /\ [Next]_vars => TypeOK' /\ ClaimIsSecure' /\ OneEffect'
<1> SUFFICES ASSUME IInv, [Next]_vars PROVE TypeOK' /\ ClaimIsSecure' /\ OneEffect'
  OBVIOUS
<1> USE DEF IInv
<1>0. TypeOK'
  BY TypeStep
<1>1. ASSUME NEW r \in Receivers, IngestReadsVersions(r) \/ IngestReadsPrerequisite(r)
      PROVE  ClaimIsSecure' /\ OneEffect'
  <2>1. UNCHANGED <<row, effects, worker>>
    BY <1>1 DEF IngestReadsVersions, IngestReadsPrerequisite
  <2> QED
    BY <2>1 DEF ClaimIsSecure, OneEffect, HoldsClaim
<1>2. ASSUME NEW r \in Receivers, IngestInserts(r)
      PROVE  ClaimIsSecure' /\ OneEffect'
  <2> DEFINE e == receiver[r].event
  <2>1. e \in Events
    BY <1>2 DEF IngestInserts, TypeOK
  <2>2. CASE row[e].status # "absent"
    <3>1. UNCHANGED <<row, effects, worker>>
      BY <1>2, <2>2 DEF IngestInserts, Insertable, Recorded
    <3> QED
      BY <3>1 DEF ClaimIsSecure, OneEffect, HoldsClaim
  <2>3. CASE row[e].status = "absent"
    <3>1. row' = [row EXCEPT ![e] = [NoRow EXCEPT !.status = receiver[r].verdict]]
      BY <1>2, <2>3 DEF IngestInserts, Insertable, Recorded
    <3>2. UNCHANGED <<effects, worker>>
      BY <1>2 DEF IngestInserts
    <3>3. \A f \in Events \ {e} : row'[f] = row[f]
      BY <3>1 DEF TypeOK
    <3>4. row'[e].status = receiver[r].verdict
      BY <2>1, <3>1 DEF TypeOK, NoRow
    <3>5. row'[e].status # "processed"
      BY <3>4 DEF TypeOK, ReceiverState
    <3>6. ClaimIsSecure'
      BY <2>3, <3>2, <3>3 DEF ClaimIsSecure, HoldsClaim, TypeOK
    <3>7. OneEffect'
      BY <2>3, <3>2, <3>3, <3>5 DEF OneEffect
    <3> QED
      BY <3>6, <3>7
  <2> QED
    BY <2>2, <2>3
<1>3. ASSUME NEW w \in Workers, ClaimNext(w)
      PROVE  ClaimIsSecure' /\ OneEffect'
  <2>1. PICK e \in Events :
          /\ row[e].status = "received"
          /\ row' = [row EXCEPT ![e] =
               [@ EXCEPT !.status = "processing", !.lockedBy = w,
                         !.attempt = row[e].attempt + 1]]
          /\ worker' = [worker EXCEPT ![w] =
               [IdleWorker EXCEPT !.step = "load", !.event = e]]
    BY <1>3 DEF ClaimNext, Claimable
  <2>2. UNCHANGED effects
    BY <1>3 DEF ClaimNext
  <2>3. row'[e].status = "processing" /\ row'[e].lockedBy = w
    <3> DEFINE n == row[e].attempt + 1
    <3> HIDE DEF n
    <3>1. row' = [row EXCEPT ![e] =
                   [@ EXCEPT !.status = "processing", !.lockedBy = w, !.attempt = n]]
      BY <2>1 DEF n
    <3> QED
      BY <3>1 DEF TypeOK, Row
  <2>4. \A f \in Events \ {e} : row'[f] = row[f]
    BY <2>1 DEF TypeOK
  <2>5. worker'[w].event = e
    BY <2>1 DEF TypeOK, IdleWorker
  <2>6. \A v \in Workers \ {w} : worker'[v] = worker[v]
    BY <2>1 DEF TypeOK
  <2>7. ASSUME NEW v \in Workers, worker'[v].step # "idle"
        PROVE  HoldsClaim(v, worker[v].event)'
    <3>1. CASE v = w
      BY <2>3, <2>5, <3>1 DEF HoldsClaim
    <3>2. CASE v # w
      <4>1. HoldsClaim(v, worker[v].event) /\ worker[v].event \in Events
        BY <2>6, <2>7, <3>2 DEF ClaimIsSecure, TypeOK
      <4>2. worker[v].event # e
        BY <2>1, <4>1 DEF HoldsClaim
      <4> QED
        BY <2>4, <2>6, <3>2, <4>1, <4>2 DEF HoldsClaim
    <3> QED
      BY <3>1, <3>2
  <2>8. ClaimIsSecure'
    BY <2>7 DEF ClaimIsSecure
  <2>9. OneEffect'
    BY <2>1, <2>2, <2>3, <2>4 DEF OneEffect
  <2> QED
    BY <2>8, <2>9
<1>4. ASSUME NEW w \in Workers,
             \/ Load(w) \/ WakeParked(w) \/ CreationCollides(w) \/ TransactionThrows(w)
             \/ RecordFailureReads(w)
      PROVE  ClaimIsSecure' /\ OneEffect'
  <2>1. worker[w].step # "idle" /\ UNCHANGED <<row, effects>>
    BY <1>4 DEF Load, WakeParked, CreationCollides, TransactionThrows, RecordFailureReads
  <2>2. HoldsClaim(w, worker[w].event)
    BY <2>1 DEF ClaimIsSecure
  <2>3. worker'[w].event = worker[w].event
    <3>0. worker \in [Workers -> WorkerState]
      BY DEF TypeOK
    <3>1. CASE Load(w)
      BY <3>0, <3>1 DEF Load, WorkerState
    <3>2. CASE WakeParked(w)
      <4> DEFINE woken == {f \in Events : Waits(f)}
      <4>1. worker' = [worker EXCEPT ![w] = [@ EXCEPT !.step = "woken", !.woken = woken]]
        BY <3>2 DEF WakeParked
      <4> HIDE DEF woken
      <4> QED
        BY <3>0, <4>1 DEF WorkerState
    <3>3. CASE CreationCollides(w) \/ TransactionThrows(w)
      BY <3>0, <3>3 DEF CreationCollides, TransactionThrows, WorkerState
    <3>4. CASE RecordFailureReads(w)
      <4>1. PICK verdict \in {"dead_letter", "received"} :
              worker' = [worker EXCEPT ![w] =
                [@ EXCEPT !.step = "failing", !.verdict = verdict]]
        BY <2>2, <3>4 DEF RecordFailureReads
      <4> QED
        BY <3>0, <4>1 DEF WorkerState
    <3> QED
      BY <1>4, <3>1, <3>2, <3>3, <3>4
  <2>4. \A v \in Workers \ {w} : worker'[v] = worker[v]
    BY <1>4 DEF Load, WakeParked, CreationCollides, TransactionThrows, RecordFailureReads, TypeOK
  <2>5. ClaimIsSecure'
    BY <2>1, <2>2, <2>3, <2>4 DEF ClaimIsSecure, HoldsClaim
  <2>6. OneEffect'
    BY <2>1 DEF OneEffect
  <2> QED
    BY <2>5, <2>6
<1>5. ASSUME NEW w \in Workers,
             worker[w].step # "idle",
             worker' = [worker EXCEPT ![w] = IdleWorker],
             NEW rows, OnlyWoken(rows),
             NEW outcome \in {"processed", "ignored", "parked"},
             Finish(w, rows, outcome),
             effects' = IF outcome = "processed"
                        THEN [effects EXCEPT ![worker[w].event] = @ + 1] ELSE effects
      PROVE  ClaimIsSecure' /\ OneEffect'
  <2> DEFINE e == worker[w].event
  <2>1. e \in Events /\ HoldsClaim(w, e)
    BY <1>5 DEF ClaimIsSecure, TypeOK
  <2>2. /\ row'[e].status = outcome
        /\ \A f \in Events \ {e} :
             \/ row'[f] = row[f]
             \/ row[f].status = "parked" /\ row'[f].status = "received"
    BY <1>5, <2>1, CommitRows DEF Statuses
  <2>3. ClaimIsSecure'
    BY <1>5, <2>2, OthersKeepClaims
  <2>4. effects[e] = 0
    BY <2>1 DEF OneEffect, HoldsClaim
  <2>5. effects'[e] = IF outcome = "processed" THEN 1 ELSE 0
    <3>1. CASE outcome = "processed"
      BY <1>5, <2>1, <2>4, <3>1 DEF TypeOK
    <3>2. CASE outcome # "processed"
      BY <1>5, <2>4, <3>2
    <3> QED
      BY <3>1, <3>2
  <2>6. \A f \in Events \ {e} : effects'[f] = effects[f]
    BY <1>5 DEF TypeOK
  <2>7. OneEffect'
    BY <2>2, <2>5, <2>6 DEF OneEffect
  <2> QED
    BY <2>3, <2>7
<1>6. ASSUME NEW w \in Workers,
             \/ CommitCreation(w) \/ CommitIgnored(w) \/ CommitUnhandled(w)
             \/ CommitParked(w) \/ CommitDependent(w)
      PROVE  ClaimIsSecure' /\ OneEffect'
  <2>1. CASE CommitCreation(w)
    BY <1>5, <2>1, ParkedWoken DEF CommitCreation
  <2>2. CASE CommitIgnored(w)
    BY <1>5, <2>2, NobodyWoken DEF CommitIgnored
  <2>3. CASE CommitParked(w)
    BY <1>5, <2>3, NobodyWoken DEF CommitParked
  <2>4. CASE CommitDependent(w)
    BY <1>5, <2>4, NobodyWoken DEF CommitDependent
  <2>5. CASE CommitUnhandled(w)
    BY <1>5, <2>5, NobodyWoken DEF CommitUnhandled
  <2> QED
    BY <1>6, <2>1, <2>2, <2>3, <2>4, <2>5
<1>7. ASSUME NEW w \in Workers, RecordFailureWrites(w)
      PROVE  ClaimIsSecure' /\ OneEffect'
  <2> DEFINE e == worker[w].event
  <2>1. e \in Events /\ HoldsClaim(w, e)
    BY <1>7 DEF RecordFailureWrites, ClaimIsSecure, TypeOK
  <2>2. row' = [row EXCEPT ![e] = [@ EXCEPT !.status = FailureStatus(w),
                                            !.available = "later", !.lockedBy = Null]]
    BY <1>7, <2>1 DEF RecordFailureWrites
  <2>3. \A f \in Events \ {e} : row'[f] = row[f]
    BY <2>2 DEF TypeOK
  <2>4. FailureStatus(w) # "processed"
    BY DEF FailureStatus, TypeOK, WorkerState
  <2>5. row'[e].status # "processed"
    BY <2>1, <2>2, <2>4 DEF TypeOK, Row
  <2>6. ClaimIsSecure'
    BY <1>7, <2>3, OthersKeepClaims DEF RecordFailureWrites
  <2>7. OneEffect'
    BY <1>7, <2>1, <2>3, <2>5 DEF RecordFailureWrites, OneEffect, HoldsClaim
  <2> QED
    BY <2>6, <2>7
<1>8. ASSUME NEW w \in Workers, Crash(w)
      PROVE  ClaimIsSecure' /\ OneEffect'
  BY <1>8, OthersKeepClaims DEF Crash, OneEffect
<1>9. ASSUME NEW e \in Events, BecomesDue(e)
      PROVE  ClaimIsSecure' /\ OneEffect'
  <2>1. \A f \in Events : row'[f].status = row[f].status /\ row'[f].lockedBy = row[f].lockedBy
    BY <1>9 DEF BecomesDue, TypeOK, Row
  <2> QED
    BY <1>9, <2>1 DEF BecomesDue, ClaimIsSecure, OneEffect, HoldsClaim, TypeOK
<1>10. ASSUME UNCHANGED vars
       PROVE  ClaimIsSecure' /\ OneEffect'
  BY <1>10 DEF vars, ClaimIsSecure, OneEffect, HoldsClaim
<1> QED
  BY <1>0, <1>1, <1>2, <1>3, <1>4, <1>6, <1>7, <1>8, <1>9, <1>10
     DEF Next, FinishIngest, Process

-----------------------------------------------------------------------------
(* The life of a row *)

\* What a step may do to the row of e.
Untouched(e) == row'[e].status = row[e].status /\ row'[e].attempt = row[e].attempt

Inserted(e) ==
    \E r \in Receivers :
      /\ receiver[r].step = "insert" /\ receiver[r].event = e
      /\ row[e].status = "absent"
      /\ row'[e].status = receiver[r].verdict /\ row'[e].attempt = 0

Claimed(e) ==
    /\ row[e].status = "received" /\ row'[e].status = "processing"
    /\ row'[e].attempt = row[e].attempt + 1
    /\ UNCHANGED order

Finished(e) ==
    \E w \in Workers :
      /\ worker[w].step \in {"commit", "woken", "failing"} /\ worker[w].event = e
      /\ HoldsClaim(w, e)
      /\ row'[e].attempt = row[e].attempt
      /\ row'[e].status \in {"processed", "ignored", "parked", "received", "dead_letter"}
      /\ row'[e].status = "parked" => /\ worker[w].step = "commit" /\ worker[w].known = 0
                                      /\ UNCHANGED order
      /\ row'[e].status = "received" =>
           worker[w].step = "failing" /\ worker[w].verdict = "received"

WokenUp(e) ==
    /\ row[e].status = "parked" /\ row'[e].status = "received"
    /\ row'[e].attempt = row[e].attempt
    /\ order' # 0
    /\ \E w \in Workers : worker[w].step = "woken" /\ worker'[w].step = "idle"

Moved(e) == Untouched(e) \/ Inserted(e) \/ Claimed(e) \/ Finished(e) \/ WokenUp(e)

LEMMA FinishMoves ==
    ASSUME TypeOK, NEW w \in Workers, worker[w].step = "commit",
           worker[w].event \in Events, HoldsClaim(w, worker[w].event),
           NEW outcome \in {"processed", "ignored", "parked"}, Finish(w, row, outcome),
           outcome = "parked" => worker[w].known = 0 /\ UNCHANGED order
    PROVE  \A e \in Events : Moved(e)
<1> DEFINE e == worker[w].event
<1>1. row' = [row EXCEPT ![e] =
               [@ EXCEPT !.status = outcome, !.available = "now", !.lockedBy = Null]]
  BY DEF Finish
<1>2. row'[e].status = outcome /\ row'[e].attempt = row[e].attempt
  BY <1>1 DEF TypeOK, Row
<1>3. \A f \in Events \ {e} : row'[f] = row[f]
  BY <1>1 DEF TypeOK
<1>4. Finished(e)
  BY <1>2 DEF Finished
<1> QED
  BY <1>3, <1>4 DEF Moved, Untouched

LEMMA CreationMoves ==
    ASSUME IInv, NEW w \in Workers, CommitCreation(w)
    PROVE  \A e \in Events : Moved(e)
<1> DEFINE e == worker[w].event
           rows == Woken(row, worker[w].woken)
<1>1. /\ worker[w].step = "woken" /\ e \in Events /\ HoldsClaim(w, e)
      /\ order' = Stored[e] /\ e \in Creators
  BY DEF CommitCreation, ClaimIsSecure, TypeOK, IInv
<1>2. order' # 0 /\ worker'[w].step = "idle"
  BY <1>1, VersionAssumption, RecordTypes DEF CommitCreation, IInv, TypeOK
<1>3. row' = [rows EXCEPT ![e] =
               [@ EXCEPT !.status = "processed", !.available = "now", !.lockedBy = Null]]
  BY <1>1 DEF CommitCreation, Finish
<1>4. \A f \in Events : f \in worker[w].woken => row[f].status = "parked"
  BY <1>1 DEF IInv, WakeInv
<1>5. rows \in [Events -> Row] /\ rows[e] = row[e]
  BY <1>1, <1>4, WokenType DEF IInv, TypeOK, Woken, HoldsClaim
<1>6. row'[e].status = "processed" /\ row'[e].attempt = row[e].attempt
  BY <1>1, <1>3, <1>5 DEF Row
<1>7. Finished(e)
  BY <1>1, <1>6 DEF Finished
<1>8. ASSUME NEW f \in Events, f # e PROVE Moved(f)
  <2>1. row'[f] = rows[f] /\ row[f] \in Row
    BY <1>3, <1>5, <1>8 DEF IInv, TypeOK
  <2>2. CASE f \in worker[w].woken
    BY <1>1, <1>2, <1>4, <2>1, <2>2 DEF Woken, Row, Moved, WokenUp
  <2>3. CASE f \notin worker[w].woken
    BY <2>1, <2>3 DEF Woken, Moved, Untouched
  <2> QED
    BY <2>2, <2>3
<1> QED
  BY <1>7, <1>8 DEF Moved

LEMMA RowMoves == IInv /\ [Next]_vars => \A e \in Events : Moved(e)
<1> SUFFICES ASSUME IInv, [Next]_vars PROVE \A e \in Events : Moved(e)
  OBVIOUS
<1>0. TypeOK /\ ClaimIsSecure
  BY DEF IInv
<1>a. ASSUME NEW w \in Workers, worker[w].step # "idle"
      PROVE  worker[w].event \in Events /\ HoldsClaim(w, worker[w].event)
  BY <1>0, <1>a DEF TypeOK, ClaimIsSecure
<1>1. CASE row' = row
  BY <1>1 DEF Moved, Untouched
<1>2. ASSUME NEW r \in Receivers, IngestInserts(r) PROVE \A e \in Events : Moved(e)
  <2> DEFINE e == receiver[r].event
  <2>1. e \in Events /\ receiver[r].step = "insert"
    BY <1>0, <1>2 DEF IngestInserts, TypeOK
  <2>2. CASE ~Insertable(e)
    BY <1>1, <1>2, <2>2 DEF IngestInserts
  <2>3. CASE Insertable(e)
    <3>1. row' = [row EXCEPT ![e] = [NoRow EXCEPT !.status = receiver[r].verdict]]
      BY <1>2, <2>3 DEF IngestInserts
    <3>2. row'[e].status = receiver[r].verdict /\ row'[e].attempt = 0
      BY <1>0, <2>1, <3>1 DEF TypeOK, NoRow
    <3>3. Inserted(e)
      BY <2>1, <2>3, <3>2 DEF Inserted, Insertable, Recorded
    <3>4. \A f \in Events \ {e} : row'[f] = row[f]
      BY <1>0, <3>1 DEF TypeOK
    <3> QED
      BY <3>3, <3>4 DEF Moved, Untouched
  <2> QED
    BY <2>2, <2>3
<1>3. ASSUME NEW w \in Workers, ClaimNext(w) PROVE \A e \in Events : Moved(e)
  <2>1. PICK e \in Events :
          /\ row[e].status = "received"
          /\ row' = [row EXCEPT ![e] =
               [@ EXCEPT !.status = "processing", !.lockedBy = w,
                         !.attempt = row[e].attempt + 1]]
    BY <1>3 DEF ClaimNext, Claimable
  <2> DEFINE n == row[e].attempt + 1
  <2>2. row'[e].status = "processing" /\ row'[e].attempt = n
    <3>1. row' = [row EXCEPT ![e] =
                   [@ EXCEPT !.status = "processing", !.lockedBy = w, !.attempt = n]]
      BY <2>1
    <3> HIDE DEF n
    <3> QED
      BY <1>0, <3>1 DEF TypeOK, Row
  <2>3. Claimed(e)
    BY <1>3, <2>1, <2>2 DEF Claimed, ClaimNext
  <2>4. \A f \in Events \ {e} : row'[f] = row[f]
    BY <1>0, <2>1 DEF TypeOK
  <2> QED
    BY <2>3, <2>4 DEF Moved, Untouched
<1>4. ASSUME NEW w \in Workers, CommitCreation(w) PROVE \A e \in Events : Moved(e)
  BY <1>4, CreationMoves
<1>5. ASSUME NEW w \in Workers,
             CommitIgnored(w) \/ CommitUnhandled(w) \/ CommitParked(w) \/ CommitDependent(w)
      PROVE  \A e \in Events : Moved(e)
  <2>1. worker[w].step = "commit"
    BY <1>5 DEF CommitIgnored, CommitUnhandled, CommitParked, CommitDependent
  <2>2. worker[w].event \in Events /\ HoldsClaim(w, worker[w].event)
    BY <1>a, <2>1
  <2> QED
    BY <1>0, <1>5, <2>1, <2>2, FinishMoves
       DEF CommitIgnored, CommitUnhandled, CommitParked, CommitDependent
<1>6. ASSUME NEW w \in Workers, RecordFailureWrites(w) PROVE \A e \in Events : Moved(e)
  <2> DEFINE e == worker[w].event
  <2>1. worker[w].step = "failing" /\ e \in Events /\ HoldsClaim(w, e)
    BY <1>a, <1>6 DEF RecordFailureWrites
  <2>2. row' = [row EXCEPT ![e] = [@ EXCEPT !.status = FailureStatus(w),
                                            !.available = "later", !.lockedBy = Null]]
    BY <1>6, <2>1 DEF RecordFailureWrites
  <2>3. row'[e].status = FailureStatus(w) /\ row'[e].attempt = row[e].attempt
    BY <1>0, <2>1, <2>2 DEF TypeOK, Row
  <2>4. FailureStatus(w) = worker[w].verdict /\ worker[w].verdict \in {"received", "dead_letter"}
    BY <1>0 DEF FailureStatus, TypeOK, WorkerState
  <2>5. Finished(e)
    BY <2>1, <2>3, <2>4 DEF Finished
  <2>6. \A f \in Events \ {e} : row'[f] = row[f]
    BY <1>0, <2>2 DEF TypeOK
  <2> QED
    BY <2>5, <2>6 DEF Moved, Untouched
<1>7. ASSUME NEW e \in Events, BecomesDue(e) PROVE \A f \in Events : Moved(f)
  <2>1. \A f \in Events : row'[f].status = row[f].status /\ row'[f].attempt = row[f].attempt
    BY <1>0, <1>7 DEF BecomesDue, TypeOK, Row
  <2> QED
    BY <2>1 DEF Moved, Untouched
<1> QED
  BY <1>1, <1>2, <1>3, <1>4, <1>5, <1>6, <1>7
     DEF Next, FinishIngest, Process, vars, IngestReadsVersions, IngestReadsPrerequisite,
         Load, WakeParked, CreationCollides, TransactionThrows, RecordFailureReads, Crash

\* What a step may do to a worker.
Still(w) == worker'[w] = worker[w]
Ended(w) == worker'[w].step = "idle"
Began(w) == worker'[w].step = "load" /\ worker'[w].event \in Events /\ Claimed(worker'[w].event)

Went(w, step) ==
    /\ worker[w].step # "idle" /\ worker'[w].step = step /\ worker'[w].event = worker[w].event
    /\ UNCHANGED <<row, order>>

\* w has taken the order's row, and called those that wait.
Called(w) ==
    /\ Went(w, "woken") /\ worker[w].step = "commit" /\ OrderIsFree
    /\ Fresh(worker[w].event, worker[w].known)
    /\ worker'[w].known = worker[w].known
    /\ worker'[w].woken = {e \in Events : Waits(e)}
    /\ \A v \in Workers \ {w} : Still(v)

WorkerMoved(w) ==
    \/ Still(w) \/ Ended(w) \/ Began(w)
    \/ Went(w, "commit") /\ worker'[w].known = order
    \/ Called(w)
    \/ Went(w, "fail")
    \/ /\ Went(w, "failing")
       /\ worker'[w].verdict = "received" => ~AttemptsExhausted(worker[w].event)

LEMMA WorkerMoves == IInv /\ [Next]_vars => \A w \in Workers : WorkerMoved(w)
<1> SUFFICES ASSUME IInv, [Next]_vars PROVE \A w \in Workers : WorkerMoved(w)
  OBVIOUS
<1>0. TypeOK /\ ClaimIsSecure
  BY DEF IInv
<1>1. CASE worker' = worker
  BY <1>1 DEF WorkerMoved, Still
<1>2. ASSUME NEW w \in Workers, WorkerMoved(w),
             \A v \in Workers \ {w} : worker'[v] = worker[v]
      PROVE  \A v \in Workers : WorkerMoved(v)
  <2> TAKE v \in Workers
  <2>1. CASE v = w
    BY <1>2, <2>1
  <2>2. CASE v # w
    BY <1>2, <2>2 DEF WorkerMoved, Still
  <2> QED
    BY <2>1, <2>2
<1>3. ASSUME NEW w \in Workers, worker' = [worker EXCEPT ![w] = IdleWorker]
      PROVE  \A v \in Workers : WorkerMoved(v)
  <2>1. worker'[w].step = "idle" /\ \A v \in Workers \ {w} : worker'[v] = worker[v]
    BY <1>0, <1>3, RecordTypes DEF TypeOK
  <2> QED
    BY <1>2, <2>1 DEF WorkerMoved, Ended
<1>4. ASSUME NEW w \in Workers, ClaimNext(w) PROVE \A v \in Workers : WorkerMoved(v)
  <2>1. PICK e \in Events :
          /\ row[e].status = "received"
          /\ row' = [row EXCEPT ![e] =
               [@ EXCEPT !.status = "processing", !.lockedBy = w,
                         !.attempt = row[e].attempt + 1]]
          /\ worker' = [worker EXCEPT ![w] =
               [IdleWorker EXCEPT !.step = "load", !.event = e]]
    BY <1>4 DEF ClaimNext, Claimable
  <2>2. /\ worker'[w].step = "load" /\ worker'[w].event = e
        /\ \A v \in Workers \ {w} : worker'[v] = worker[v]
    BY <1>0, <2>1 DEF TypeOK, IdleWorker
  <2> DEFINE n == row[e].attempt + 1
  <2>3. row'[e].status = "processing" /\ row'[e].attempt = n
    <3>1. row' = [row EXCEPT ![e] =
                   [@ EXCEPT !.status = "processing", !.lockedBy = w, !.attempt = n]]
      BY <2>1
    <3> HIDE DEF n
    <3> QED
      BY <1>0, <3>1 DEF TypeOK, Row
  <2>4. Claimed(e)
    BY <1>4, <2>1, <2>3 DEF Claimed, ClaimNext
  <2> QED
    BY <1>2, <2>2, <2>4 DEF WorkerMoved, Began
<1>5. ASSUME NEW w \in Workers, Load(w) PROVE \A v \in Workers : WorkerMoved(v)
  <2>1. worker' = [worker EXCEPT ![w] = [@ EXCEPT !.step = "commit", !.known = order]]
        /\ worker[w].step # "idle" /\ UNCHANGED <<row, order>>
    BY <1>5 DEF Load
  <2>2. /\ worker'[w].step = "commit" /\ worker'[w].event = worker[w].event
        /\ worker'[w].known = order
        /\ \A v \in Workers \ {w} : worker'[v] = worker[v]
    BY <1>0, <2>1 DEF TypeOK, WorkerState
  <2> QED
    BY <1>2, <2>1, <2>2 DEF WorkerMoved, Went
<1>6. ASSUME NEW w \in Workers, CreationCollides(w) \/ TransactionThrows(w)
      PROVE  \A v \in Workers : WorkerMoved(v)
  <2>1. /\ \/ worker' = [worker EXCEPT ![w] = [@ EXCEPT !.step = "fail"]]
           \/ worker' = [worker EXCEPT ![w] = [@ EXCEPT !.step = "fail", !.woken = {}]]
        /\ worker[w].step # "idle" /\ UNCHANGED <<row, order>>
    BY <1>6 DEF CreationCollides, TransactionThrows
  <2>2. /\ worker'[w].step = "fail" /\ worker'[w].event = worker[w].event
        /\ \A v \in Workers \ {w} : worker'[v] = worker[v]
    <3>1. worker \in [Workers -> WorkerState]
      BY <1>0 DEF TypeOK
    <3>2. CASE worker' = [worker EXCEPT ![w] = [@ EXCEPT !.step = "fail"]]
      BY <3>1, <3>2 DEF WorkerState
    <3>3. CASE worker' = [worker EXCEPT ![w] = [@ EXCEPT !.step = "fail", !.woken = {}]]
      BY <3>1, <3>3 DEF WorkerState
    <3> QED
      BY <2>1, <3>2, <3>3
  <2> QED
    BY <1>2, <2>1, <2>2 DEF WorkerMoved, Went
<1>8. ASSUME NEW w \in Workers, WakeParked(w) PROVE \A v \in Workers : WorkerMoved(v)
  <2> DEFINE woken == {e \in Events : Waits(e)}
  <2>1. /\ worker' = [worker EXCEPT ![w] = [@ EXCEPT !.step = "woken", !.woken = woken]]
        /\ worker[w].step = "commit" /\ UNCHANGED <<row, order>>
        /\ OrderIsFree /\ Fresh(worker[w].event, worker[w].known)
    BY <1>8 DEF WakeParked
  <2> HIDE DEF woken
  <2>2. /\ worker'[w].step = "woken" /\ worker'[w].event = worker[w].event
        /\ worker'[w].known = worker[w].known /\ worker'[w].woken = woken
        /\ \A v \in Workers \ {w} : worker'[v] = worker[v]
    BY <1>0, <2>1 DEF TypeOK, WorkerState
  <2>3. Called(w)
    BY <2>1, <2>2 DEF Called, Went, Still, woken
  <2> QED
    BY <1>2, <2>2, <2>3 DEF WorkerMoved
<1>7. ASSUME NEW w \in Workers, RecordFailureReads(w) PROVE \A v \in Workers : WorkerMoved(v)
  <2> DEFINE e == worker[w].event
  <2>1. HoldsClaim(w, e) /\ worker[w].step # "idle" /\ UNCHANGED <<row, order>>
    BY <1>0, <1>7 DEF RecordFailureReads, ClaimIsSecure
  <2>2. worker' = [worker EXCEPT ![w] =
          [@ EXCEPT !.step = "failing",
                    !.verdict = IF AttemptsExhausted(e) THEN "dead_letter" ELSE "received"]]
    BY <1>7, <2>1 DEF RecordFailureReads
  <2> HIDE DEF e
  <2>3. /\ worker'[w].step = "failing" /\ worker'[w].event = worker[w].event
        /\ worker'[w].verdict = IF AttemptsExhausted(e) THEN "dead_letter" ELSE "received"
        /\ \A v \in Workers \ {w} : worker'[v] = worker[v]
    BY <1>0, <2>2 DEF TypeOK, WorkerState
  <2> QED
    BY <1>2, <2>1, <2>3 DEF WorkerMoved, Went, e
<1> QED
  BY <1>1, <1>3, <1>4, <1>5, <1>6, <1>7, <1>8
     DEF Next, FinishIngest, Process, vars, IngestReadsVersions, IngestReadsPrerequisite,
         IngestInserts, BecomesDue, CommitCreation, CommitIgnored, CommitUnhandled,
         CommitParked, CommitDependent, RecordFailureWrites, Crash

LEMMA WakeStep == IInv /\ [Next]_vars => WakeInv'
<1> SUFFICES ASSUME IInv, [Next]_vars PROVE WakeInv'
  OBVIOUS
<1>0. WakeInv /\ \A w \in Workers : WorkerMoved(w)
  BY WorkerMoves DEF IInv
<1>1. ASSUME NEW w \in Workers, worker'[w].step = "woken"
      PROVE  (Still(w) /\ worker[w].step = "woken") \/ Called(w)
  BY <1>0, <1>1 DEF WorkerMoved, Still, Ended, Began, Went
<1>2. ASSUME NEW v \in Workers, NEW w \in Workers,
             worker'[v].step = "woken", worker'[w].step = "woken"
      PROVE  v = w
  <2>1. CASE Still(v) /\ worker[v].step = "woken" /\ Still(w) /\ worker[w].step = "woken"
    BY <1>0, <2>1 DEF WakeInv
  <2>2. CASE Called(v) /\ v # w
    BY <1>2, <2>2 DEF Called, Still, OrderIsFree
  <2>3. CASE Called(w) /\ v # w
    BY <1>2, <2>3 DEF Called, Still, OrderIsFree
  <2> QED
    BY <1>1, <1>2, <2>1, <2>2, <2>3
<1>3. ASSUME NEW w \in Workers, worker'[w].step = "woken", NEW e \in worker'[w].woken
      PROVE  row'[e].status = "parked"
  <2>1. CASE Still(w) /\ worker[w].step = "woken"
    <3>1. row[e].status = "parked" /\ e \in Events
      BY <1>0, <1>3, <2>1 DEF Still, WakeInv, IInv, TypeOK, WorkerState
    <3>2. Moved(e)
      BY <3>1, RowMoves
    <3>3. ~WokenUp(e)
      BY <1>0, <1>3, <2>1 DEF WokenUp, WakeInv
    <3> QED
      BY <3>1, <3>2, <3>3 DEF Moved, Untouched, Inserted, Claimed, Finished, HoldsClaim
  <2>2. CASE Called(w)
    BY <1>3, <2>2 DEF Called, Went, Waits
  <2> QED
    BY <1>1, <1>3, <2>1, <2>2
<1> QED
  BY <1>2, <1>3 DEF WakeInv

LEMMA IInvStep == IInv /\ [Next]_vars => IInv'
BY EffectStep, WakeStep DEF IInv

\* The inbox never takes a claimed row away from the worker inside processNext.
THEOREM ClaimIsSecureCorrect == Spec => []ClaimIsSecure
BY IInvInit, IInvStep, PTL DEF Spec, IInv

\* However often an event is delivered, retried, parked and woken, it is applied
\* exactly once if it ends up processed, and not at all otherwise.
THEOREM OneEffectCorrect == Spec => []OneEffect
BY IInvInit, IInvStep, PTL DEF Spec, IInv

\* Once there is an order there is one for good.
LEMMA OrderStays == TypeOK /\ [Next]_vars => (order # 0 => order' # 0)
<1> SUFFICES ASSUME TypeOK, [Next]_vars, order # 0 PROVE order' # 0
  OBVIOUS
<1>1. ASSUME NEW w \in Workers, CommitCreation(w) PROVE order' # 0
  BY <1>1, VersionAssumption DEF CommitCreation, TypeOK
<1> QED
  BY <1>1 DEF Next, FinishIngest, Process, vars, IngestReadsVersions,
              IngestReadsPrerequisite, IngestInserts, ClaimNext, Load, WakeParked, CreationCollides,
              CommitIgnored, CommitUnhandled, CommitParked, CommitDependent,
              TransactionThrows, RecordFailureReads, RecordFailureWrites, BecomesDue, Crash

-----------------------------------------------------------------------------
(* Attempts *)

RowWithin(e) ==
    /\ row[e].attempt <= MaxAttempts + 1
    /\ row[e].status = "received" =>
         row[e].attempt < MaxAttempts \/ (row[e].attempt <= MaxAttempts /\ order # 0)
    /\ row[e].status = "parked" => row[e].attempt <= MaxAttempts
    /\ row[e].status = "processing" =>
         0 < row[e].attempt /\ (row[e].attempt <= MaxAttempts \/ order # 0)

WorkerWithin(w) ==
    /\ worker[w].step = "commit" /\ worker[w].known = 0 =>
         row[worker[w].event].attempt <= MaxAttempts
    /\ worker[w].step = "failing" /\ worker[w].verdict = "received" =>
         row[worker[w].event].attempt < MaxAttempts

AttemptInv == /\ \A e \in Events : RowWithin(e)
              /\ \A w \in Workers : WorkerWithin(w)

LEMMA AttemptInit == Init => AttemptInv
BY BoundsAssumption DEF Init, AttemptInv, RowWithin, WorkerWithin, NoRow, IdleWorker

LEMMA AttemptStep == IInv /\ IInv' /\ AttemptInv /\ [Next]_vars => AttemptInv'
<1> SUFFICES ASSUME IInv, IInv', AttemptInv, [Next]_vars PROVE AttemptInv'
  OBVIOUS
<1>0. /\ TypeOK /\ ClaimIsSecure /\ TypeOK' /\ ClaimIsSecure'
      /\ order # 0 => order' # 0
      /\ MaxAttempts \in Nat \ {0}
      /\ \A e \in Events : row[e].attempt \in Nat
  BY OrderStays, BoundsAssumption DEF IInv, TypeOK, Row
<1>1. ASSUME NEW e \in Events PROVE RowWithin(e)'
  <2>1. RowWithin(e) /\ Moved(e)
    BY RowMoves DEF AttemptInv
  <2>2. CASE Untouched(e)
    BY <1>0, <2>1, <2>2 DEF RowWithin, Untouched
  <2>3. CASE Inserted(e)
    <3>1. row'[e].attempt = 0 /\ row'[e].status \in {"received", "parked", "ignored"}
      BY <1>0, <2>3 DEF Inserted, TypeOK, ReceiverState
    <3> QED
      BY <1>0, <3>1 DEF RowWithin
  <2>4. CASE Claimed(e)
    BY <1>0, <2>1, <2>4 DEF RowWithin, Claimed
  <2>5. CASE Finished(e)
    <3>1. PICK w \in Workers :
            /\ worker[w].step \in {"commit", "woken", "failing"} /\ worker[w].event = e
            /\ HoldsClaim(w, e)
            /\ row'[e].attempt = row[e].attempt
            /\ row'[e].status \in {"processed", "ignored", "parked", "received", "dead_letter"}
            /\ row'[e].status = "parked" => worker[w].step = "commit" /\ worker[w].known = 0
            /\ row'[e].status = "received" =>
                 worker[w].step = "failing" /\ worker[w].verdict = "received"
      BY <2>5 DEF Finished
    <3>2. WorkerWithin(w)
      BY DEF AttemptInv
    <3> QED
      BY <1>0, <2>1, <3>1, <3>2 DEF RowWithin, WorkerWithin
  <2>6. CASE WokenUp(e)
    BY <1>0, <2>1, <2>6 DEF RowWithin, WokenUp
  <2> QED
    BY <2>1, <2>2, <2>3, <2>4, <2>5, <2>6 DEF Moved
<1>2. ASSUME NEW w \in Workers PROVE WorkerWithin(w)'
  <2>1. WorkerWithin(w) /\ WorkerMoved(w)
    BY WorkerMoves DEF AttemptInv
  <2>2. CASE Still(w) /\ worker[w].step # "idle"
    <3> DEFINE e == worker[w].event
    <3>1. e \in Events /\ row[e].status = "processing" /\ row'[e].status = "processing"
      BY <1>0, <2>2 DEF Still, TypeOK, ClaimIsSecure, HoldsClaim
    <3>2. Moved(e)
      BY <3>1, RowMoves
    <3>3. row'[e].attempt = row[e].attempt
      BY <3>1, <3>2 DEF Moved, Untouched, Inserted, Claimed, Finished, WokenUp
    <3> QED
      BY <2>1, <2>2, <3>3 DEF WorkerWithin, Still
  <2>3. CASE Went(w, "commit") /\ worker'[w].known = order
    <3> DEFINE e == worker[w].event
    <3>1. e \in Events /\ row[e].status = "processing" /\ RowWithin(e)
      BY <1>0, <2>3 DEF Went, TypeOK, ClaimIsSecure, HoldsClaim, AttemptInv
    <3> QED
      BY <2>3, <3>1 DEF WorkerWithin, Went, RowWithin
  <2>4. CASE /\ Went(w, "failing")
             /\ worker'[w].verdict = "received" => ~AttemptsExhausted(worker[w].event)
    <3> DEFINE e == worker[w].event
    <3>1. e \in Events /\ row' = row /\ worker'[w].event = e /\ worker'[w].step = "failing"
      BY <1>0, <2>4 DEF Went, TypeOK
    <3>2. worker'[w].verdict = "received" => row[e].attempt < MaxAttempts
      BY <1>0, <2>4, <3>1 DEF AttemptsExhausted
    <3> QED
      BY <3>1, <3>2 DEF WorkerWithin
  <2>5. CASE worker'[w].step \in {"idle", "load", "woken", "fail"}
    BY <2>5 DEF WorkerWithin
  <2> QED
    BY <2>1, <2>2, <2>3, <2>4, <2>5 DEF WorkerMoved, Still, Ended, Began, Went, Called
<1> QED
  BY <1>1, <1>2 DEF AttemptInv

\* Failures stop at the limit, and parking costs an event one attempt more at
\* most, since what was woken finds the order.
THEOREM AttemptsBoundedCorrect == Spec => []AttemptsBounded
<1>1. AttemptInv => AttemptsBounded
  BY DEF AttemptInv, RowWithin, AttemptsBounded
<1> QED
  BY <1>1, IInvInit, IInvStep, AttemptInit, AttemptStep, PTL DEF Spec

-----------------------------------------------------------------------------
(* Stale events *)

Overtaken(e) ==
    \E f \in Events : Recorded(f) /\ Stream[f] = Stream[e] /\ Version[f] > Version[e]

ReceiverJustified(r) ==
    receiver[r].step # "idle" /\ receiver[r].verdict = "ignored" => Overtaken(receiver[r].event)

StaleInv == StaleIsOvertaken /\ \A r \in Receivers : ReceiverJustified(r)

LEMMA StaleInit == Init => StaleInv
BY RecordTypes DEF Init, StaleInv, StaleIsOvertaken, ReceiverJustified, NoRow

\* What is on record stays on record.
LEMMA OvertakenStays ==
    ASSUME IInv, IInv', [Next]_vars, NEW e, Overtaken(e)
    PROVE  Overtaken(e)'
<1>1. PICK f \in Events : Recorded(f) /\ Stream[f] = Stream[e] /\ Version[f] > Version[e]
  BY DEF Overtaken
<1>2. Moved(f)
  BY RowMoves
<1>3. Recorded(f)'
  BY <1>1, <1>2 DEF Moved, Untouched, Inserted, Claimed, Finished, WokenUp, Recorded
<1> QED
  BY <1>1, <1>3 DEF Overtaken

LEMMA ReceiverStep ==
    ASSUME IInv, IInv', StaleInv, [Next]_vars, NEW r \in Receivers
    PROVE  ReceiverJustified(r)'
<1>0. TypeOK /\ ReceiverJustified(r)
  BY DEF IInv, StaleInv
<1>1. CASE receiver'[r] = receiver[r]
  BY <1>0, <1>1, OvertakenStays DEF ReceiverJustified
<1>2. CASE IngestReadsVersions(r)
  <2>1. PICK e \in Events :
          receiver' = [receiver EXCEPT ![r] =
            [@ EXCEPT !.step = "prerequisite", !.event = e,
                      !.verdict = IF Stale(e) THEN "ignored" ELSE "received"]]
    BY <1>2 DEF IngestReadsVersions
  <2>2. /\ receiver'[r].event = e
        /\ receiver'[r].verdict = IF Stale(e) THEN "ignored" ELSE "received"
    BY <1>0, <2>1 DEF TypeOK, ReceiverState
  <2>3. Stale(e) => Overtaken(e)
    BY VersionAssumption DEF Stale, Overtaken
  <2> QED
    BY <2>2, <2>3, OvertakenStays DEF ReceiverJustified
<1>3. CASE IngestReadsPrerequisite(r)
  <2>1. /\ receiver'[r].event = receiver[r].event
        /\ receiver'[r].verdict = "ignored" => receiver[r].verdict = "ignored"
        /\ receiver[r].step # "idle"
    BY <1>0, <1>3 DEF IngestReadsPrerequisite, TypeOK, ReceiverState
  <2> QED
    BY <1>0, <2>1, OvertakenStays DEF ReceiverJustified
<1>4. CASE IngestInserts(r)
  <2>1. receiver'[r].step = "idle"
    BY <1>0, <1>4, RecordTypes DEF IngestInserts, TypeOK
  <2> QED
    BY <2>1 DEF ReceiverJustified
<1>5. ASSUME NEW q \in Receivers, q # r,
             IngestReadsVersions(q) \/ IngestReadsPrerequisite(q) \/ IngestInserts(q)
      PROVE  receiver'[r] = receiver[r]
  BY <1>0, <1>5 DEF IngestReadsVersions, IngestReadsPrerequisite, IngestInserts, TypeOK
<1> QED
  BY <1>1, <1>2, <1>3, <1>4, <1>5
     DEF Next, FinishIngest, Process, vars, ClaimNext, Load, WakeParked,
         CommitCreation, CreationCollides, CommitIgnored, CommitUnhandled, CommitParked,
         CommitDependent, TransactionThrows, RecordFailureReads, RecordFailureWrites,
         BecomesDue, Crash

LEMMA StaleStep == IInv /\ IInv' /\ AttemptInv /\ StaleInv /\ [Next]_vars => StaleInv'
<1> SUFFICES ASSUME IInv, IInv', AttemptInv, StaleInv, [Next]_vars PROVE StaleInv'
  OBVIOUS
<1>1. ASSUME NEW e \in Events, row'[e].status = "ignored", row'[e].attempt = 0
      PROVE  Overtaken(e)'
  <2>1. Moved(e) /\ RowWithin(e)
    BY RowMoves DEF AttemptInv
  <2>2. CASE Untouched(e)
    BY <1>1, <2>2, OvertakenStays DEF Untouched, StaleInv, StaleIsOvertaken, Overtaken
  <2>3. CASE Inserted(e)
    <3>1. \E r \in Receivers : /\ receiver[r].step = "insert" /\ receiver[r].event = e
                               /\ receiver[r].verdict = "ignored"
      BY <1>1, <2>3 DEF Inserted
    <3> QED
      BY <3>1, OvertakenStays DEF StaleInv, ReceiverJustified
  <2>4. ~Finished(e)
    BY <1>1, <2>1 DEF Finished, HoldsClaim, RowWithin
  <2> QED
    BY <1>1, <2>1, <2>2, <2>3, <2>4 DEF Moved, Claimed, WokenUp
<1>2. StaleIsOvertaken'
  BY <1>1 DEF StaleIsOvertaken, Overtaken
<1> QED
  BY <1>2, ReceiverStep DEF StaleInv

\* An event is dropped as stale only for a newer one of its stream on record,
\* whichever deliveries come in between the two reads and the insert.
THEOREM StaleIsOvertakenCorrect == Spec => []StaleIsOvertaken
<1>1. StaleInv => StaleIsOvertaken
  BY DEF StaleInv
<1> QED
  BY <1>1, IInvInit, IInvStep, AttemptInit, AttemptStep, StaleInit, StaleStep, PTL DEF Spec

-----------------------------------------------------------------------------
(* Stranded events *)

StrandedInv == IsFiniteSet(Stranded) /\ StrandedPaidFor

LEMMA StrandedInit == Init => StrandedInv
<1> SUFFICES ASSUME Init PROVE StrandedInv
  OBVIOUS
<1>1. Stranded = {}
  BY DEF Init, Stranded, NoRow
<1> QED
  BY <1>1, FS_EmptySet DEF Init, StrandedInv, StrandedPaidFor

\* A step that leaves the workers where they are about an event strands nothing,
\* if it puts no row into processing.
LEMMA WorkersStay ==
    ASSUME \A e \in Events : row'[e].status = "processing" => row[e].status = "processing",
           \A w \in Workers : worker[w].step # "idle" =>
             worker'[w].step # "idle" /\ worker'[w].event = worker[w].event
    PROVE  Stranded' \subseteq Stranded
BY DEF Stranded

\* A step of w that ends its processNext strands nothing, if it takes the own row
\* out of processing and puts no other into it.
LEMMA WorkerLeaves ==
    ASSUME TypeOK, NEW w \in Workers, worker' = [worker EXCEPT ![w] = IdleWorker],
           row'[worker[w].event].status # "processing",
           \A e \in Events \ {worker[w].event} :
             \/ row'[e] = row[e]
             \/ row[e].status = "parked" /\ row'[e].status = "received"
    PROVE  Stranded' \subseteq Stranded
<1> SUFFICES ASSUME NEW e \in Events, row'[e].status = "processing",
                    \A v \in Workers : worker'[v].step # "idle" => worker'[v].event # e
             PROVE  e \in Stranded
  BY DEF Stranded
<1>1. e # worker[w].event /\ row[e].status = "processing"
  OBVIOUS
<1>2. \A v \in Workers \ {w} : worker'[v] = worker[v]
  BY DEF TypeOK
<1> QED
  BY <1>1, <1>2 DEF Stranded

\* A worker that leaves an event in processing has crashed.
LEMMA WhoStrands ==
    IInv /\ [Next]_vars => \/ \E w \in Workers : Crash(w)
                           \/ Stranded' \subseteq Stranded
<1> SUFFICES ASSUME IInv, [Next]_vars, \A w \in Workers : ~Crash(w)
             PROVE  Stranded' \subseteq Stranded
  OBVIOUS
<1>0. TypeOK /\ ClaimIsSecure
  BY DEF IInv
<1>1. CASE UNCHANGED <<row, worker>>
  BY <1>1 DEF Stranded
<1>2. ASSUME NEW r \in Receivers, IngestInserts(r) PROVE Stranded' \subseteq Stranded
  <2> DEFINE e == receiver[r].event
             v == receiver[r].verdict
  <2>1. v # "processing" /\ UNCHANGED worker
    BY <1>0, <1>2 DEF IngestInserts, TypeOK, ReceiverState
  <2>2. row' = row \/ row' = [row EXCEPT ![e] = [NoRow EXCEPT !.status = v]]
    BY <1>2 DEF IngestInserts
  <2> HIDE DEF e, v
  <2>3. \A f \in Events : row'[f].status = "processing" => row[f].status = "processing"
    BY <1>0, <2>1, <2>2 DEF TypeOK, NoRow
  <2> QED
    BY <2>1, <2>3, WorkersStay
<1>3. ASSUME NEW w \in Workers, ClaimNext(w) PROVE Stranded' \subseteq Stranded
  <2>1. PICK e \in Events :
          /\ row[e].status = "received"
          /\ row' = [row EXCEPT ![e] =
               [@ EXCEPT !.status = "processing", !.lockedBy = w,
                         !.attempt = row[e].attempt + 1]]
          /\ worker' = [worker EXCEPT ![w] =
               [IdleWorker EXCEPT !.step = "load", !.event = e]]
          /\ worker[w].step = "idle"
    BY <1>3 DEF ClaimNext, Claimable
  <2>2. /\ worker'[w].step # "idle" /\ worker'[w].event = e
        /\ \A v \in Workers \ {w} : worker'[v] = worker[v]
        /\ \A f \in Events \ {e} : row'[f] = row[f]
    BY <1>0, <2>1 DEF TypeOK, IdleWorker
  <2> QED
    BY <2>1, <2>2 DEF Stranded
<1>4. ASSUME NEW w \in Workers,
             \/ Load(w) \/ WakeParked(w) \/ CreationCollides(w) \/ TransactionThrows(w)
             \/ RecordFailureReads(w)
      PROVE  Stranded' \subseteq Stranded
  <2>1. UNCHANGED row
    BY <1>4 DEF Load, WakeParked, CreationCollides, TransactionThrows, RecordFailureReads
  <2>2. worker[w].step # "idle" /\ \A v \in Workers \ {w} : worker'[v] = worker[v]
    BY <1>0, <1>4
       DEF Load, WakeParked, CreationCollides, TransactionThrows, RecordFailureReads, TypeOK
  <2>3. worker'[w].step # "idle" /\ worker'[w].event = worker[w].event
    <3>1. CASE Load(w)
      BY <1>0, <3>1 DEF Load, TypeOK, WorkerState
    <3>2. CASE CreationCollides(w) \/ TransactionThrows(w)
      BY <1>0, <3>2 DEF CreationCollides, TransactionThrows, TypeOK, WorkerState
    <3>3. CASE RecordFailureReads(w)
      <4>1. HoldsClaim(w, worker[w].event)
        BY <1>0, <2>2 DEF ClaimIsSecure
      <4> QED
        BY <1>0, <3>3, <4>1 DEF RecordFailureReads, TypeOK, WorkerState
    <3>4. CASE WakeParked(w)
      <4> DEFINE woken == {e \in Events : Waits(e)}
      <4>1. worker' = [worker EXCEPT ![w] = [@ EXCEPT !.step = "woken", !.woken = woken]]
        BY <3>4 DEF WakeParked
      <4> HIDE DEF woken
      <4> QED
        BY <1>0, <4>1 DEF TypeOK, WorkerState
    <3> QED
      BY <1>4, <3>1, <3>2, <3>3, <3>4
  <2> QED
    BY <2>1, <2>2, <2>3, WorkersStay
<1>5. ASSUME NEW w \in Workers,
             \/ CommitCreation(w) \/ CommitIgnored(w) \/ CommitUnhandled(w)
             \/ CommitParked(w) \/ CommitDependent(w)
      PROVE  Stranded' \subseteq Stranded
  <2>1. worker[w].step # "idle" /\ worker' = [worker EXCEPT ![w] = IdleWorker]
    BY <1>5 DEF CommitCreation, CommitIgnored, CommitUnhandled, CommitParked, CommitDependent
  <2>2. worker[w].event \in Events /\ HoldsClaim(w, worker[w].event)
    BY <1>0, <2>1 DEF ClaimIsSecure, TypeOK
  <2>3. \E outcome \in {"processed", "ignored", "parked"} :
          \E rows : OnlyWoken(rows) /\ Finish(w, rows, outcome)
    <3>1. CASE CommitCreation(w)
      BY <3>1, ParkedWoken DEF CommitCreation
    <3>2. CASE CommitIgnored(w) \/ CommitUnhandled(w) \/ CommitParked(w) \/ CommitDependent(w)
      <4>1. \E outcome \in {"processed", "ignored", "parked"} : Finish(w, row, outcome)
        BY <3>2 DEF CommitIgnored, CommitUnhandled, CommitParked, CommitDependent
      <4> QED
        BY <1>0, <4>1, NobodyWoken
    <3> QED
      BY <1>5, <3>1, <3>2
  <2>4. PICK outcome \in {"processed", "ignored", "parked"} :
          \E rows : OnlyWoken(rows) /\ Finish(w, rows, outcome)
    BY <2>3
  <2>5. /\ row'[worker[w].event].status = outcome
        /\ \A e \in Events \ {worker[w].event} :
             \/ row'[e] = row[e]
             \/ row[e].status = "parked" /\ row'[e].status = "received"
    BY <1>0, <2>2, <2>4, CommitRows DEF Statuses
  <2> QED
    BY <1>0, <2>1, <2>5, WorkerLeaves
<1>6. ASSUME NEW w \in Workers, RecordFailureWrites(w) PROVE Stranded' \subseteq Stranded
  <2> DEFINE e == worker[w].event
             v == worker[w].verdict
  <2>1. e \in Events /\ HoldsClaim(w, e) /\ v # "processing"
    BY <1>0, <1>6 DEF RecordFailureWrites, ClaimIsSecure, TypeOK, WorkerState
  <2>2. /\ row' = [row EXCEPT ![e] = [@ EXCEPT !.status = v, !.available = "later",
                                               !.lockedBy = Null]]
        /\ worker' = [worker EXCEPT ![w] = IdleWorker]
    BY <1>6, <2>1 DEF RecordFailureWrites, FailureStatus
  <2>3. row'[e].status # "processing"
    BY <1>0, <2>1, <2>2 DEF TypeOK, Row
  <2>4. \A f \in Events \ {e} : row'[f] = row[f]
    BY <1>0, <2>2 DEF TypeOK
  <2> QED
    BY <1>0, <2>2, <2>3, <2>4, WorkerLeaves
<1>7. ASSUME NEW e \in Events, BecomesDue(e) PROVE Stranded' \subseteq Stranded
  <2>1. row' = [row EXCEPT ![e] = [@ EXCEPT !.available = "now"]] /\ UNCHANGED worker
    BY <1>7 DEF BecomesDue
  <2>2. \A f \in Events : row'[f].status = "processing" => row[f].status = "processing"
    BY <1>0, <2>1 DEF TypeOK, Row
  <2> QED
    BY <2>1, <2>2, WorkersStay
<1> QED
  BY <1>1, <1>2, <1>3, <1>4, <1>5, <1>6, <1>7
     DEF Next, FinishIngest, Process, vars, IngestReadsVersions, IngestReadsPrerequisite

LEMMA StrandedStep == IInv /\ StrandedInv /\ [Next]_vars => StrandedInv'
<1> SUFFICES ASSUME IInv, StrandedInv, [Next]_vars PROVE StrandedInv'
  OBVIOUS
<1>0. TypeOK /\ IsFiniteSet(Stranded) /\ Cardinality(Stranded) \in Nat /\ crashes \in Nat
  BY FS_CardinalityType DEF IInv, TypeOK, StrandedInv
<1>1. ASSUME NEW w \in Workers, Crash(w) PROVE StrandedInv'
  <2> DEFINE x == worker[w].event
             More == Stranded \cup {x}
  <2>1. IsFiniteSet(More) /\ Cardinality(More) <= Cardinality(Stranded) + 1
                          /\ Cardinality(More) \in Nat
    <3> HIDE DEF x
    <3>1. /\ IsFiniteSet(More)
          /\ Cardinality(More) = IF x \in Stranded THEN Cardinality(Stranded)
                                                   ELSE Cardinality(Stranded) + 1
      BY <1>0, FS_AddElement
    <3> HIDE DEF More
    <3> QED
      BY <1>0, <3>1
  <2>2. Stranded' \subseteq More
    <3>1. UNCHANGED row /\ \A v \in Workers \ {w} : worker'[v] = worker[v]
      BY <1>0, <1>1 DEF Crash, TypeOK
    <3> QED
      BY <3>1 DEF Stranded
  <2>3. IsFiniteSet(Stranded') /\ Cardinality(Stranded') <= Cardinality(More)
    BY <2>1, <2>2, FS_Subset
  <2>4. Cardinality(Stranded') \in Nat
    BY <2>3, FS_CardinalityType
  <2>5. crashes' = crashes + 1
    BY <1>1 DEF Crash
  <2> HIDE DEF More
  <2> QED
    BY <1>0, <2>1, <2>3, <2>4, <2>5 DEF StrandedInv, StrandedPaidFor
<1>2. CASE Stranded' \subseteq Stranded
  <2>1. IsFiniteSet(Stranded') /\ Cardinality(Stranded') <= Cardinality(Stranded)
    BY <1>0, <1>2, FS_Subset
  <2>2. Cardinality(Stranded') \in Nat
    BY <2>1, FS_CardinalityType
  <2>3. crashes' = crashes \/ crashes' = crashes + 1
    BY DEF Next, FinishIngest, Process, vars, IngestReadsVersions, IngestReadsPrerequisite,
           IngestInserts, ClaimNext, Load, WakeParked, CommitCreation, CreationCollides,
           CommitIgnored, CommitUnhandled, CommitParked, CommitDependent,
           TransactionThrows, RecordFailureReads, RecordFailureWrites, BecomesDue, Crash
  <2> QED
    BY <1>0, <2>1, <2>2, <2>3 DEF StrandedInv, StrandedPaidFor
<1> QED
  BY <1>1, <1>2, WhoStrands

\* An event that stays in processing with no worker about it has cost a crash, for
\* any number of events, workers and requests.
THEOREM StrandedPaidForCorrect == Spec => []StrandedPaidFor
<1>1. StrandedInv => StrandedPaidFor
  BY DEF StrandedInv
<1> QED
  BY <1>1, IInvInit, IInvStep, StrandedInit, StrandedStep, PTL DEF Spec

-----------------------------------------------------------------------------
(* One transaction at a time *)

\* No two workers are inside processNext: there is one worker, or something outside
\* of this code has them take turns.
OneAtATime ==
    \A v, w \in Workers : worker[v].step # "idle" /\ worker[w].step # "idle" => v = w

\* What a worker has read is still on record when it commits, and fresh if it has
\* called those that wait, all of them.
FreshRead ==
    \A w \in Workers :
      /\ worker[w].step \in {"commit", "woken"} => worker[w].known = order
      /\ worker[w].step = "woken" => Fresh(worker[w].event, worker[w].known)

CallsAll ==
    \A w \in Workers :
      worker[w].step = "woken" => \A e \in Events : Waits(e) => e \in worker[w].woken

\* Only gated events are about to be parked at ingestion.
GatedInv == \A r \in Receivers : receiver[r].verdict = "parked" => receiver[r].event \in Gated

LEMMA SerialInit == Init => FreshRead /\ CallsAll /\ GatedInv /\ NobodyLeftParked
BY DEF Init, FreshRead, CallsAll, GatedInv, NobodyLeftParked, IdleWorker, IdleReceiver, NoRow

\* Only the commit of a creation changes the order.
LEMMA OrderChanges ==
    ASSUME [Next]_vars, order' # order PROVE \E w \in Workers : CommitCreation(w)
BY DEF Next, FinishIngest, Process, vars, IngestReadsVersions, IngestReadsPrerequisite,
       IngestInserts, ClaimNext, Load, WakeParked, CreationCollides, CommitIgnored,
       CommitUnhandled, CommitParked, CommitDependent, TransactionThrows,
       RecordFailureReads, RecordFailureWrites, BecomesDue, Crash

\* While workers take turns, one that stays inside its transaction is alone there.
LEMMA NobodyElse ==
    ASSUME IInv, OneAtATime, [Next]_vars, NEW w \in Workers, Still(w),
           worker[w].step \in {"commit", "woken"}
    PROVE  \A v \in Workers : ~CommitCreation(v)
<1> SUFFICES ASSUME NEW v \in Workers, CommitCreation(v) PROVE FALSE
  OBVIOUS
<1>1. worker[v].step = "woken" /\ worker'[v].step = "idle"
  BY RecordTypes DEF CommitCreation, IInv, TypeOK
<1>2. v = w
  BY <1>1 DEF OneAtATime
<1> QED
  BY <1>1, <1>2 DEF Still

LEMMA FreshReadStep == IInv /\ OneAtATime /\ FreshRead /\ [Next]_vars => FreshRead'
<1> SUFFICES ASSUME IInv, OneAtATime, FreshRead, [Next]_vars,
                    NEW w \in Workers, worker'[w].step \in {"commit", "woken"}
             PROVE  /\ worker'[w].known = order'
                    /\ worker'[w].step = "woken" => Fresh(worker'[w].event, worker'[w].known)
  BY DEF FreshRead, Fresh
<1>1. WorkerMoved(w)
  BY WorkerMoves
<1>2. CASE Still(w)
  <2>1. UNCHANGED order
    BY <1>2, NobodyElse, OrderChanges DEF Still
  <2> QED
    BY <1>2, <2>1 DEF Still, FreshRead
<1>3. CASE Went(w, "commit") /\ worker'[w].known = order
  BY <1>3 DEF Went
<1>4. CASE Called(w)
  BY <1>4 DEF Called, Went, FreshRead
<1> QED
  BY <1>1, <1>2, <1>3, <1>4 DEF WorkerMoved, Ended, Began, Went

\* While no two workers are inside processNext, the source version of the order goes
\* back only for a creator without a version on its envelope or with a lower one in
\* its payload, for any number of workers, events and requests.
THEOREM RegressionsAreUnversionedCorrect ==
    Spec /\ []OneAtATime => RegressionsAreUnversioned
<1> DEFINE Excused ==
             \E e \in Creators : /\ effects'[e] > effects[e]
                                 /\ Version[e] = 0 \/ Stored[e] < Version[e]
<1>1. IInv /\ FreshRead /\ [Next]_vars => [order' < order => Excused]_order
  <2> SUFFICES ASSUME IInv, FreshRead, [Next]_vars, order' # order, order' < order
               PROVE  Excused
    OBVIOUS
  <2>1. PICK w \in Workers : CommitCreation(w)
    BY OrderChanges
  <2>2. PICK e \in Creators : e = worker[w].event
    BY <2>1 DEF CommitCreation, IInv, TypeOK
  <2>3. Fresh(e, order) /\ order' = Stored[e]
    BY <2>1, <2>2 DEF CommitCreation, FreshRead
  <2>4. order \in Nat /\ Version[e] \in Nat /\ Stored[e] \in Nat \ {0} /\ e \in Events
    BY EventsAssumption, VersionAssumption DEF IInv, TypeOK
  <2>5. Version[e] = 0 \/ Stored[e] < Version[e]
    BY <2>3, <2>4 DEF Fresh
  <2>6. effects'[e] > effects[e]
    <3>1. effects[e] \in Nat /\ effects'[e] = effects[e] + 1
      BY <2>1, <2>2, <2>4 DEF CommitCreation, IInv, TypeOK
    <3> QED
      BY <3>1
  <2> QED
    BY <2>5, <2>6
<1>2. Spec /\ []OneAtATime => [](IInv /\ FreshRead)
  BY IInvInit, IInvStep, SerialInit, FreshReadStep, PTL DEF Spec
<1> QED
  BY <1>1, <1>2, PTL DEF Spec, RegressionsAreUnversioned

LEMMA ReceiverGated ==
    ASSUME TypeOK, GatedInv, [Next]_vars, NEW r \in Receivers, receiver'[r].verdict = "parked"
    PROVE  receiver'[r].event \in Gated
<1>0. /\ receiver \in [Receivers -> ReceiverState]
      /\ receiver[r].verdict = "parked" => receiver[r].event \in Gated
  BY DEF TypeOK, GatedInv
<1>1. CASE UNCHANGED receiver
  BY <1>0, <1>1
<1>2. ASSUME NEW q \in Receivers, IngestReadsVersions(q)
      PROVE  receiver'[r].event \in Gated
  <2>1. PICK e \in Events, v \in {"ignored", "received"} :
          receiver' = [receiver EXCEPT ![q] =
            [@ EXCEPT !.step = "prerequisite", !.event = e, !.verdict = v]]
    BY <1>2 DEF IngestReadsVersions
  <2> QED
    BY <1>0, <2>1 DEF ReceiverState
<1>3. ASSUME NEW q \in Receivers, IngestReadsPrerequisite(q)
      PROVE  receiver'[r].event \in Gated
  <2>1. PICK v \in {"parked", receiver[q].verdict} :
          /\ receiver' = [receiver EXCEPT ![q] = [@ EXCEPT !.step = "insert", !.verdict = v]]
          /\ v = "parked" => receiver[q].event \in Gated \/ receiver[q].verdict = "parked"
    BY <1>3 DEF IngestReadsPrerequisite
  <2>2. v = "parked" => receiver[q].event \in Gated
    BY <2>1 DEF GatedInv
  <2> QED
    BY <1>0, <2>1, <2>2 DEF ReceiverState
<1>4. ASSUME NEW q \in Receivers, IngestInserts(q)
      PROVE  receiver'[r].event \in Gated
  BY <1>0, <1>4 DEF IngestInserts, IdleReceiver
<1> QED
  BY <1>1, <1>2, <1>3, <1>4
     DEF Next, FinishIngest, Process, vars, ClaimNext, Load, WakeParked,
         CommitCreation, CreationCollides, CommitIgnored, CommitUnhandled, CommitParked,
         CommitDependent, TransactionThrows, RecordFailureReads, RecordFailureWrites,
         BecomesDue, Crash

LEMMA GatedStep == IInv /\ GatedInv /\ [Next]_vars => GatedInv'
BY ReceiverGated DEF IInv, GatedInv

LEMMA CallsAllStep ==
    ASSUME Gated \subseteq Misaddressed
    PROVE  IInv /\ OneAtATime /\ GatedInv /\ CallsAll /\ [Next]_vars => CallsAll'
<1> SUFFICES ASSUME IInv, OneAtATime, GatedInv, CallsAll, [Next]_vars,
                    NEW w \in Workers, worker'[w].step = "woken",
                    NEW e \in Events, Waits(e)'
             PROVE  e \in worker'[w].woken
  BY DEF CallsAll
<1>1. WorkerMoved(w)
  BY WorkerMoves
<1>2. CASE Still(w)
  <2>1. worker[w].step = "woken" /\ Moved(e)
    BY <1>2, RowMoves DEF Still
  <2>2. ~Finished(e)
    BY <2>1 DEF Finished, OneAtATime, Waits
  <2>3. row[e].status = "parked"
    BY <2>1, <2>2 DEF Moved, Untouched, Inserted, Claimed, WokenUp, Waits, GatedInv
  <2> QED
    BY <1>2, <2>1, <2>3 DEF Still, CallsAll, Waits
<1>3. CASE Called(w)
  BY <1>3 DEF Called, Went, Waits
<1> QED
  BY <1>1, <1>2, <1>3 DEF WorkerMoved, Ended, Began, Went

LEMMA NobodyStep ==
    ASSUME Gated \subseteq Misaddressed
    PROVE  IInv /\ FreshRead /\ GatedInv /\ CallsAll /\ NobodyLeftParked /\ [Next]_vars
             => NobodyLeftParked'
<1> SUFFICES ASSUME IInv, FreshRead, GatedInv, CallsAll, NobodyLeftParked, [Next]_vars,
                    NEW e \in Events \ Misaddressed, row'[e].status = "parked"
             PROVE  order' = 0
  BY DEF NobodyLeftParked
<1>0. TypeOK /\ ClaimIsSecure /\ e \in Events
  BY DEF IInv
<1>1. ASSUME NEW w \in Workers, CommitCreation(w) PROVE order' = 0
  <2> DEFINE rows == Woken(row, worker[w].woken)
  <2>1. /\ worker[w].event \in Events /\ HoldsClaim(w, worker[w].event)
        /\ row' = [rows EXCEPT ![worker[w].event] =
                    [@ EXCEPT !.status = "processed", !.available = "now", !.lockedBy = Null]]
        /\ worker[w].step = "woken"
    BY <1>0, <1>1 DEF CommitCreation, Finish, ClaimIsSecure, TypeOK
  <2>2. rows \in [Events -> Row] /\ row[e] \in Row
    BY <1>0, WokenType DEF TypeOK
  <2>3. CASE row[e].status = "parked"
    <3>1. e \in worker[w].woken
      BY <1>0, <2>1, <2>3 DEF CallsAll, Waits
    <3>2. rows[e] = [row[e] EXCEPT !.status = "received", !.available = "now",
                                   !.lockedBy = Null]
      BY <1>0, <3>1 DEF Woken
    <3>3. rows[e].status = "received"
      BY <2>2, <3>2 DEF Row
    <3> HIDE DEF rows
    <3>4. row'[e].status # "parked"
      BY <1>0, <2>1, <2>2, <3>3 DEF Row
    <3> QED
      BY <3>4
  <2>4. CASE row[e].status # "parked"
    <3>1. Moved(e)
      BY <1>0, RowMoves
    <3>2. PICK v \in Workers : worker[v].step = "commit" /\ row'[e].status = "parked"
                               /\ UNCHANGED order /\ worker[v].known = 0
      BY <2>1, <2>4, <3>1
         DEF Moved, Untouched, Inserted, Claimed, Finished, WokenUp, GatedInv
    <3> QED
      BY <3>2 DEF FreshRead
  <2> QED
    BY <2>3, <2>4
<1>2. CASE \A w \in Workers : ~CommitCreation(w)
  <2>1. UNCHANGED order
    BY <1>2, OrderChanges
  <2>2. Moved(e)
    BY <1>0, RowMoves
  <2>3. CASE Untouched(e)
    BY <2>1, <2>3 DEF Untouched, NobodyLeftParked
  <2>4. CASE Finished(e)
    BY <2>1, <2>4 DEF Finished, FreshRead
  <2> QED
    BY <2>2, <2>3, <2>4 DEF Moved, Inserted, Claimed, WokenUp, GatedInv
<1> QED
  BY <1>1, <1>2

\* While no two workers are inside processNext and ingestion parks nothing but what
\* waits under another key, nobody is left waiting for an order that exists.
THEOREM NobodyLeftParkedCorrect ==
    ASSUME Gated \subseteq Misaddressed
    PROVE  Spec /\ []OneAtATime => []NobodyLeftParked
BY IInvInit, IInvStep, SerialInit, FreshReadStep, GatedStep, CallsAllStep, NobodyStep, PTL
   DEF Spec

\* A single worker takes turns with nobody.
THEOREM SingleWorker ==
    ASSUME NEW w, Workers = {w}
    PROVE  Spec => /\ RegressionsAreUnversioned
                   /\ Gated \subseteq Misaddressed => []NobodyLeftParked
<1>1. OneAtATime
  BY DEF OneAtATime
<1>2. Spec => []OneAtATime
  BY <1>1, PTL
<1>3. Spec => RegressionsAreUnversioned
  BY <1>2, RegressionsAreUnversionedCorrect
<1>4. ASSUME Gated \subseteq Misaddressed PROVE Spec => []NobodyLeftParked
  BY <1>2, <1>4, NobodyLeftParkedCorrect
<1> QED
  BY <1>3, <1>4

-----------------------------------------------------------------------------
(* The inbox implements EventLedger *)

\* A worker that has read an order is right that there is one.
LedgerInv ==
    \A w \in Workers : worker[w].step \in {"commit", "woken"} /\ worker[w].known # 0 => order # 0

LEMMA LedgerInvInit == Init => LedgerInv
BY DEF Init, LedgerInv, IdleWorker

LEMMA LedgerInvStep == IInv /\ LedgerInv /\ [Next]_vars => LedgerInv'
<1> SUFFICES ASSUME IInv, LedgerInv, [Next]_vars, NEW w \in Workers,
                    worker'[w].step \in {"commit", "woken"}, worker'[w].known # 0
             PROVE  order' # 0
  BY DEF LedgerInv
<1>1. WorkerMoved(w) /\ (order # 0 => order' # 0)
  BY WorkerMoves, OrderStays DEF IInv
<1>2. CASE Still(w)
  BY <1>1, <1>2 DEF Still, LedgerInv
<1>3. CASE Went(w, "commit") /\ worker'[w].known = order
  BY <1>3 DEF Went
<1>4. CASE Called(w)
  BY <1>4 DEF Called, Went, LedgerInv
<1> QED
  BY <1>1, <1>2, <1>3, <1>4 DEF WorkerMoved, Ended, Began, Went

\* A step of nobody who calls changes neither who calls nor who is called.
LEMMA CallersStay ==
    ASSUME \A w \in Workers : worker[w].step = "woken" \/ worker'[w].step = "woken"
                                => worker'[w] = worker[w]
    PROVE  UNCHANGED <<Calling, Heard>>
<1>1. Waking' = Waking
  BY DEF Waking
<1>2. \A w \in Waking : worker'[w] = worker[w]
  BY DEF Waking
<1> QED
  BY <1>1, <1>2 DEF Calling, Heard

\* Nor does a worker that starts and ends outside of the call.
LEMMA CallerStays ==
    ASSUME TypeOK, NEW w \in Workers, NEW local, worker' = [worker EXCEPT ![w] = local],
           worker[w].step # "woken", local.step # "woken"
    PROVE  UNCHANGED <<Calling, Heard>>
<1>1. worker'[w] = local /\ \A v \in Workers \ {w} : worker'[v] = worker[v]
  BY DEF TypeOK
<1> QED
  BY <1>1, CallersStay

\* The one that calls is alone.
LEMMA Caller ==
    ASSUME IInv, NEW w \in Workers, worker[w].step = "woken"
    PROVE  Calling = {worker[w].event} /\ Heard = worker[w].woken
<1>1. Waking = {w}
  BY DEF IInv, WakeInv, Waking
<1> QED
  BY <1>1 DEF Calling, Heard

\* When it ends nobody calls.
LEMMA CallerLeaves ==
    ASSUME IInv, NEW w \in Workers, NEW local, worker' = [worker EXCEPT ![w] = local],
           worker[w].step = "woken", local.step # "woken"
    PROVE  Calling' = {} /\ Heard' = {}
<1>1. worker'[w] = local /\ \A v \in Workers \ {w} : worker'[v] = worker[v]
  BY DEF IInv, TypeOK
<1>2. Waking' = {}
  BY <1>1 DEF IInv, WakeInv, Waking
<1> QED
  BY <1>2 DEF Calling, Heard

\* A step that changes the status of one row and leaves the order and the callers alone.
LEMMA OneTurn ==
    ASSUME NEW e \in Events, NEW from, NEW to,
           row[e].status = from, row'[e].status = to,
           \A f \in Events \ {e} : row'[f].status = row[f].status,
           order' = order, UNCHANGED <<Calling, Heard>>
    PROVE  Ledger!Turn(e, from, to)
BY DEF Ledger!Turn

\* What the last statement of a transaction that does not wake anybody does.
LEMMA OutcomeTurn ==
    ASSUME TypeOK, NEW w \in Workers, NEW e \in Events, e = worker[w].event,
           HoldsClaim(w, e), worker[w].step = "commit",
           worker' = [worker EXCEPT ![w] = IdleWorker],
           NEW outcome \in Statuses, Finish(w, row, outcome), order' = order
    PROVE  Ledger!Turn(e, "processing", outcome)
<1>1. row'[e].status = outcome /\ \A f \in Events \ {e} : row'[f] = row[f]
  BY DEF Finish, TypeOK, Row
<1>2. UNCHANGED <<Calling, Heard>>
  BY CallerStays, RecordTypes
<1> QED
  BY <1>1, <1>2, OneTurn DEF HoldsClaim

\* A creator calls exactly those that wait, while nobody else calls.
LEMMA CallTurn ==
    ASSUME IInv, NEW w \in Workers, WakeParked(w)
    PROVE  \E e \in Events : Ledger!Call(e)
<1> DEFINE e == worker[w].event
           woken == {f \in Events : Waits(f)}
<1>1. /\ TypeOK /\ worker[w].step = "commit" /\ e \in Creators /\ UNCHANGED <<row, order>>
      /\ OrderIsFree
      /\ worker' = [worker EXCEPT ![w] = [@ EXCEPT !.step = "woken", !.woken = woken]]
  BY DEF WakeParked, IInv
<1>2. e \in Events /\ row[e].status = "processing"
  BY <1>1 DEF IInv, TypeOK, ClaimIsSecure, HoldsClaim
<1>3. Calling = {}
  BY <1>1 DEF OrderIsFree, Waking, Calling
<1> HIDE DEF woken
<1>4. /\ worker'[w].step = "woken" /\ worker'[w].event = e /\ worker'[w].woken = woken
      /\ \A v \in Workers \ {w} : worker'[v] = worker[v]
  BY <1>1 DEF TypeOK, WorkerState
<1>5. Waking' = {w}
  BY <1>1, <1>4 DEF OrderIsFree, Waking
<1>6. Calling' = {e} /\ Heard' = woken
  BY <1>4, <1>5 DEF Calling, Heard
<1>7. woken = {f \in Events \ Misaddressed : [g \in Events |-> row[g].status][f] = "parked"}
  BY DEF woken, Waits
<1> QED
  BY <1>1, <1>2, <1>3, <1>6, <1>7 DEF Ledger!Call

\* Its commit wakes those it called.
LEMMA CreationTurn ==
    ASSUME IInv, NEW w \in Workers, CommitCreation(w)
    PROVE  \E e \in Events : Ledger!Create(e)
<1> DEFINE e == worker[w].event
           rows == Woken(row, worker[w].woken)
<1>1. /\ worker[w].step = "woken" /\ e \in Events /\ e \in Creators
      /\ HoldsClaim(w, e) /\ order' = Stored[e]
      /\ worker' = [worker EXCEPT ![w] = IdleWorker]
  BY DEF CommitCreation, ClaimIsSecure, TypeOK, IInv
<1>2. order' # 0
  BY <1>1, VersionAssumption
<1>3. row' = [rows EXCEPT ![e] =
               [@ EXCEPT !.status = "processed", !.available = "now", !.lockedBy = Null]]
  BY <1>1 DEF CommitCreation, Finish
<1>4. rows \in [Events -> Row] /\ row \in [Events -> Row]
  BY WokenType DEF IInv, TypeOK
<1>5. \A f \in Events : rows[f] = IF f \in worker[w].woken
                                 THEN [row[f] EXCEPT !.status = "received", !.available = "now",
                                                     !.lockedBy = Null]
                                 ELSE row[f]
  BY DEF Woken
<1>6. e \in Calling /\ Heard = worker[w].woken
  BY <1>1, Caller
<1>7. Calling' = {} /\ Heard' = {}
  BY <1>1, CallerLeaves, RecordTypes
<1> HIDE DEF rows
<1>8. row'[e].status = "processed"
  BY <1>1, <1>3, <1>4 DEF Row
<1>9. ASSUME NEW f \in Events, f # e
      PROVE  row'[f].status = IF f \in Heard THEN "received" ELSE row[f].status
  <2>1. row'[f] = rows[f]
    BY <1>3, <1>4, <1>9
  <2> QED
    BY <1>4, <1>5, <1>6, <2>1 DEF Row
<1>10. \A f \in Events :
         row'[f].status = IF f = e THEN "processed"
                          ELSE IF f \in Heard THEN "received"
                          ELSE [g \in Events |-> row[g].status][f]
  BY <1>8, <1>9
<1> HIDE DEF e
<1> QED
  BY <1>1, <1>2, <1>6, <1>7, <1>10 DEF Ledger!Create

\* A rollback takes the call back.
LEMMA RetractTurn ==
    ASSUME IInv, NEW w \in Workers, worker[w].step = "woken", UNCHANGED <<row, order>>,
           NEW local, worker' = [worker EXCEPT ![w] = local], local.step # "woken"
    PROVE  \E e \in Events : Ledger!Retract(e)
<1>1. worker[w].event \in Events /\ worker[w].event \in Calling
  BY Caller DEF IInv, TypeOK
<1>2. Calling' = {} /\ Heard' = {}
  BY CallerLeaves
<1> QED
  BY <1>1, <1>2 DEF Ledger!Retract

LEMMA LedgerInit == Init => Ledger!LInit
<1> SUFFICES ASSUME Init PROVE Ledger!LInit
  OBVIOUS
<1>1. Waking = {}
  BY DEF Init, Waking, IdleWorker
<1>2. Calling = {} /\ Heard = {}
  BY <1>1 DEF Calling, Heard
<1> QED
  BY <1>2 DEF Init, NoRow, Ledger!LInit

LEMMA LedgerStep ==
    IInv /\ LedgerInv /\ GatedInv /\ [Next]_vars => [Ledger!LNext]_(Ledger!lvars)
<1> SUFFICES ASSUME IInv, LedgerInv, GatedInv, [Next]_vars
             PROVE  [Ledger!LNext]_(Ledger!lvars)
  OBVIOUS
<1>0. TypeOK /\ ClaimIsSecure
  BY DEF IInv
<1>a. ASSUME NEW w \in Workers, worker[w].step # "idle"
      PROVE  worker[w].event \in Events /\ HoldsClaim(w, worker[w].event)
  BY <1>0, <1>a DEF TypeOK, ClaimIsSecure
<1>b. ASSUME \A e \in Events : row'[e].status = row[e].status, order' = order,
             UNCHANGED <<Calling, Heard>>
      PROVE  UNCHANGED Ledger!lvars
  BY <1>b DEF Ledger!lvars
<1>c. UNCHANGED worker => UNCHANGED <<Calling, Heard>>
  BY CallersStay
<1>1. ASSUME NEW r \in Receivers, IngestInserts(r) PROVE [Ledger!LNext]_(Ledger!lvars)
  <2>0. UNCHANGED <<order, Calling, Heard>>
    BY <1>1, <1>c DEF IngestInserts
  <2>1. PICK e \in Events, verdict \in {"received", "parked", "ignored"} :
          e = receiver[r].event /\ verdict = receiver[r].verdict
    BY <1>0, <1>1 DEF IngestInserts, TypeOK, ReceiverState
  <2>2. CASE Insertable(e)
    <3>1. /\ row[e].status = "absent" /\ row'[e].status = verdict
          /\ \A f \in Events \ {e} : row'[f] = row[f]
      BY <1>0, <1>1, <2>1, <2>2 DEF IngestInserts, Insertable, Recorded, TypeOK, NoRow
    <3>2. Ledger!Turn(e, "absent", verdict)
      BY <2>0, <2>1, <3>1, OneTurn
    <3>3. verdict = "parked" => e \notin Creators
      BY <2>1, EventsAssumption DEF GatedInv
    <3> QED
      BY <2>1, <3>2, <3>3 DEF Ledger!LNext, Ledger!Record
  <2>3. CASE ~Insertable(e)
    BY <1>1, <1>b, <2>0, <2>1, <2>3 DEF IngestInserts
  <2> QED
    BY <2>2, <2>3
<1>2. ASSUME NEW w \in Workers, ClaimNext(w) PROVE [Ledger!LNext]_(Ledger!lvars)
  <2>1. PICK e \in Events :
          /\ row[e].status = "received"
          /\ row' = [row EXCEPT ![e] =
               [@ EXCEPT !.status = "processing", !.lockedBy = w,
                         !.attempt = row[e].attempt + 1]]
          /\ worker' = [worker EXCEPT ![w] =
               [IdleWorker EXCEPT !.step = "load", !.event = e]]
          /\ worker[w].step = "idle"
    BY <1>2 DEF ClaimNext, Claimable
  <2> DEFINE n == row[e].attempt + 1
  <2>2. row'[e].status = "processing"
    <3>1. row' = [row EXCEPT ![e] =
                   [@ EXCEPT !.status = "processing", !.lockedBy = w, !.attempt = n]]
      BY <2>1
    <3> HIDE DEF n
    <3> QED
      BY <1>0, <3>1 DEF TypeOK, Row
  <2>3. \A f \in Events \ {e} : row'[f] = row[f]
    BY <1>0, <2>1 DEF TypeOK
  <2>4. UNCHANGED <<Calling, Heard>>
    <3>1. [IdleWorker EXCEPT !.step = "load", !.event = e].step = "load"
      BY DEF IdleWorker
    <3> QED
      BY <1>0, <2>1, <3>1, CallerStays
  <2>5. Ledger!Turn(e, "received", "processing")
    BY <1>2, <2>1, <2>2, <2>3, <2>4, OneTurn DEF ClaimNext
  <2> QED
    BY <2>5 DEF Ledger!LNext, Ledger!Claim
<1>3. ASSUME NEW w \in Workers, WakeParked(w) PROVE [Ledger!LNext]_(Ledger!lvars)
  BY <1>3, CallTurn DEF Ledger!LNext
<1>4. ASSUME NEW w \in Workers, CommitCreation(w) PROVE [Ledger!LNext]_(Ledger!lvars)
  BY <1>4, CreationTurn DEF Ledger!LNext
<1>5. ASSUME NEW w \in Workers, CommitIgnored(w) \/ CommitUnhandled(w)
      PROVE  [Ledger!LNext]_(Ledger!lvars)
  <2>1. PICK e \in Events : e = worker[w].event /\ HoldsClaim(w, e)
    BY <1>5, <1>a DEF CommitIgnored, CommitUnhandled
  <2>2. Ledger!Turn(e, "processing", "ignored")
    BY <1>0, <1>5, <2>1, OutcomeTurn DEF CommitIgnored, CommitUnhandled, Statuses
  <2>3. order # 0 \/ e \in Unhandled
    BY <1>5, <2>1 DEF CommitIgnored, CommitUnhandled, Fresh, LedgerInv
  <2> QED
    BY <2>1, <2>2, <2>3 DEF Ledger!LNext, Ledger!Ignore
<1>6. ASSUME NEW w \in Workers, CommitParked(w) PROVE [Ledger!LNext]_(Ledger!lvars)
  <2>1. PICK e \in Events : e = worker[w].event /\ HoldsClaim(w, e)
    BY <1>6, <1>a DEF CommitParked
  <2>2. Ledger!Turn(e, "processing", "parked")
    BY <1>0, <1>6, <2>1, OutcomeTurn DEF CommitParked, Statuses
  <2> QED
    BY <1>6, <2>1, <2>2 DEF CommitParked, Ledger!LNext, Ledger!Park
<1>7. ASSUME NEW w \in Workers, CommitDependent(w) PROVE [Ledger!LNext]_(Ledger!lvars)
  <2>1. PICK e \in Events : e = worker[w].event /\ HoldsClaim(w, e)
    BY <1>7, <1>a DEF CommitDependent
  <2>2. \/ Ledger!Turn(e, "processing", "processed")
        \/ Ledger!Turn(e, "processing", "ignored")
    BY <1>0, <1>7, <2>1, OutcomeTurn DEF CommitDependent, Statuses
  <2>3. order # 0 /\ e \notin Creators \cup Unhandled
    BY <1>7, <2>1 DEF CommitDependent, LedgerInv
  <2> QED
    BY <2>1, <2>2, <2>3 DEF Ledger!LNext, Ledger!Apply, Ledger!Ignore
<1>8. ASSUME NEW w \in Workers, RecordFailureWrites(w) PROVE [Ledger!LNext]_(Ledger!lvars)
  <2>1. PICK e \in Events : e = worker[w].event /\ HoldsClaim(w, e)
    BY <1>8, <1>a DEF RecordFailureWrites
  <2>2. row' = [row EXCEPT ![e] = [@ EXCEPT !.status = FailureStatus(w),
                                            !.available = "later", !.lockedBy = Null]]
    BY <1>8, <2>1 DEF RecordFailureWrites
  <2>3. PICK to \in {"received", "dead_letter"} : to = FailureStatus(w)
    BY <1>0 DEF FailureStatus, TypeOK, WorkerState
  <2>4. row'[e].status = to /\ \A f \in Events \ {e} : row'[f] = row[f]
    BY <1>0, <2>1, <2>2, <2>3 DEF TypeOK, Row
  <2>5. UNCHANGED <<order, Calling, Heard>>
    BY <1>0, <1>8, CallerStays, RecordTypes DEF RecordFailureWrites
  <2>6. Ledger!Turn(e, "processing", to)
    BY <2>1, <2>4, <2>5, OneTurn DEF HoldsClaim
  <2> QED
    BY <2>1, <2>3, <2>6 DEF Ledger!LNext, Ledger!GiveBack, Ledger!Bury
<1>9. ASSUME NEW e \in Events, BecomesDue(e) PROVE [Ledger!LNext]_(Ledger!lvars)
  <2>1. \A f \in Events : row'[f].status = row[f].status
    BY <1>0, <1>9 DEF BecomesDue, TypeOK, Row
  <2> QED
    BY <1>9, <1>b, <1>c, <2>1 DEF BecomesDue
<1>10. ASSUME NEW w \in Workers, NEW local, worker' = [worker EXCEPT ![w] = local],
              local.step # "woken", UNCHANGED <<row, order>>
       PROVE  [Ledger!LNext]_(Ledger!lvars)
  <2>1. CASE worker[w].step = "woken"
    <3>1. \E e \in Events : Ledger!Retract(e)
      BY <1>10, <2>1, RetractTurn
    <3> QED
      BY <3>1 DEF Ledger!LNext
  <2>2. CASE worker[w].step # "woken"
    <3>1. UNCHANGED <<Calling, Heard>>
      BY <1>0, <1>10, <2>2, CallerStays
    <3> QED
      BY <1>10, <1>b, <3>1
  <2> QED
    BY <2>1, <2>2
<1>11. ASSUME NEW w \in Workers,
              \/ Load(w) \/ CreationCollides(w) \/ TransactionThrows(w)
              \/ RecordFailureReads(w) \/ Crash(w)
       PROVE  [Ledger!LNext]_(Ledger!lvars)
  <2> DEFINE loaded == [worker[w] EXCEPT !.step = "commit", !.known = order]
             failed == [worker[w] EXCEPT !.step = "fail"]
             thrown == [worker[w] EXCEPT !.step = "fail", !.woken = {}]
             failing == [worker[w] EXCEPT !.step = "failing",
                           !.verdict = IF AttemptsExhausted(worker[w].event)
                                       THEN "dead_letter" ELSE "received"]
  <2>1. /\ loaded.step # "woken" /\ failed.step # "woken" /\ thrown.step # "woken"
        /\ failing.step # "woken" /\ IdleWorker.step # "woken"
    BY <1>0, RecordTypes DEF TypeOK, WorkerState
  <2>3. HoldsClaim(w, worker[w].event)
    BY <1>11, <1>a DEF Load, CreationCollides, TransactionThrows, RecordFailureReads, Crash
  <2>4. \/ worker' = [worker EXCEPT ![w] = loaded]
        \/ worker' = [worker EXCEPT ![w] = failed]
        \/ worker' = [worker EXCEPT ![w] = thrown]
        \/ worker' = [worker EXCEPT ![w] = failing]
        \/ worker' = [worker EXCEPT ![w] = IdleWorker]
    BY <1>0, <1>11, <2>3
       DEF Load, CreationCollides, TransactionThrows, RecordFailureReads, Crash, TypeOK
  <2>2. UNCHANGED <<row, order>>
    BY <1>11 DEF Load, CreationCollides, TransactionThrows, RecordFailureReads, Crash
  <2> HIDE DEF loaded, failed, thrown, failing
  <2> QED
    BY <1>10, <2>1, <2>2, <2>4
<1>12. CASE UNCHANGED <<row, order, worker>>
  BY <1>b, <1>c, <1>12
<1> QED
  BY <1>1, <1>2, <1>3, <1>4, <1>5, <1>6, <1>7, <1>8, <1>9, <1>11, <1>12
     DEF Next, FinishIngest, Process, vars, IngestReadsVersions, IngestReadsPrerequisite

\* Every behaviour of requests, workers, failed transactions and crashes is one that
\* EventLedger allows: nothing but a creator takes effect without an order, and a
\* creator's transaction wakes those that waited when it called, nobody who is
\* parked between the call and its commit, and nobody at all if it is rolled back.
THEOREM InboxImplementsLedger == Spec => ImplementsLedger
BY IInvInit, IInvStep, LedgerInvInit, LedgerInvStep, SerialInit, GatedStep, LedgerInit,
   LedgerStep, PTL
   DEF Spec, ImplementsLedger, Ledger!LSpec

\* Whatever is delivered again, rolled back or claimed twice, the outcome of an event
\* stands.
OutcomesAreFinal ==
    [][\A e \in Events : row[e].status \in {"processed", "ignored", "dead_letter"}
                           => row'[e].status = row[e].status]_row

\* No request, worker, retry or wake-up takes an event up again that was processed,
\* ignored or given up.
THEOREM OutcomesAreFinalCorrect == Spec => OutcomesAreFinal
<1>1. IInv /\ [Next]_vars =>
        [\A e \in Events : row[e].status \in {"processed", "ignored", "dead_letter"}
                              => row'[e].status = row[e].status]_row
  <2> SUFFICES ASSUME IInv, [Next]_vars, NEW e \in Events,
                      row[e].status \in {"processed", "ignored", "dead_letter"}
               PROVE  row'[e].status = row[e].status
    OBVIOUS
  <2>1. Moved(e)
    BY RowMoves
  <2> QED
    BY <2>1 DEF Moved, Untouched, Inserted, Claimed, Finished, WokenUp, HoldsClaim
<1> QED
  BY <1>1, IInvInit, IInvStep, PTL DEF Spec, OutcomesAreFinal
=============================================================================
