---------------------------- MODULE OutboxProofs ----------------------------
(***************************************************************************)
(* Theorems about the outbox for any sets of messages and workers, any     *)
(* attempt limit and any number of faults and manual retries.              *)
(***************************************************************************)
EXTENDS Outbox, TLAPS

-----------------------------------------------------------------------------
(* Type correctness *)

\* A row given up by its dispatcher, in whatever status, is a row.
LEMMA ReleasedRowType ==
    ASSUME NEW entry \in Row, NEW status \in Statuses
    PROVE  [entry EXCEPT !.status = status, !.available = "later",
                         !.lockedBy = Null, !.lease = "none"] \in Row
BY DEF Row

LEMMA TypeInit == Init => TypeOK
<1> SUFFICES ASSUME Init PROVE TypeOK
  OBVIOUS
<1>1. NoRow \in Row
  BY DEF Row, NoRow, Statuses
<1>2. IdleWorker \in WorkerState
  BY NullAssumption DEF WorkerState, Locals, IdleWorker, Steps
<1> QED
  BY <1>1, <1>2 DEF Init, TypeOK

LEMMA TypeStep == TypeOK /\ [Next]_vars => TypeOK'
<1> SUFFICES ASSUME TypeOK, [Next]_vars PROVE TypeOK'
  OBVIOUS
<1> USE DEF TypeOK
<1>1. ASSUME NEW m \in Messages, Append(m) PROVE TypeOK'
  <2>1. PICK available \in {"now", "later"} :
          row' = [row EXCEPT ![m] = [NoRow EXCEPT !.status = "pending",
                                                  !.available = available]]
    BY <1>1 DEF Append
  <2>2. [NoRow EXCEPT !.status = "pending", !.available = available] \in Row
    BY DEF NoRow, Row, Statuses
  <2> QED
    BY <1>1, <2>1, <2>2 DEF Append
<1>2. ASSUME NEW m \in Messages, RetryDeadLetter(m) PROVE TypeOK'
  <2>1. PICK available \in {"now", "later"} :
          row' = [row EXCEPT ![m] =
                   [@ EXCEPT !.status = "pending", !.available = available,
                             !.lockedBy = Null, !.lease = "none"]]
    BY <1>2 DEF RetryDeadLetter
  <2>2. [row[m] EXCEPT !.status = "pending", !.available = available,
                       !.lockedBy = Null, !.lease = "none"] \in Row
    BY DEF Row, Statuses
  <2> QED
    BY <1>2, <2>1, <2>2 DEF RetryDeadLetter
<1>3. ASSUME NEW m \in Messages, BecomesDue(m) PROVE TypeOK'
  <2>1. [row[m] EXCEPT !.available = "now"] \in Row
    BY DEF Row
  <2> QED
    BY <1>3, <2>1 DEF BecomesDue
<1>4. ASSUME NEW m \in Messages, LeaseExpires(m) \/ LeaseOutlived(m) PROVE TypeOK'
  <2>1. [row[m] EXCEPT !.lease = "expired"] \in Row
    BY DEF Row
  <2> QED
    BY <1>4, <2>1 DEF LeaseExpires, LeaseOutlived
<1>5. ASSUME NEW w \in Workers, ClaimNext(w) PROVE TypeOK'
  <2>1. PICK m \in Messages :
          /\ row' = [row EXCEPT ![m] =
               [@ EXCEPT !.status = "dispatching", !.lockedBy = w, !.lease = "held",
                         !.attempt = row[m].attempt + 1]]
          /\ worker' = [worker EXCEPT ![w] =
               [IdleWorker EXCEPT !.step = "deliver", !.msg = m,
                                  !.attempt = row[m].attempt + 1]]
    BY <1>5 DEF ClaimNext
  <2> DEFINE n == row[m].attempt + 1
  <2>2. n \in Nat
    BY DEF Row
  <2>3. [row[m] EXCEPT !.status = "dispatching", !.lockedBy = w, !.lease = "held",
                       !.attempt = n] \in Row
    <3> HIDE DEF n
    <3> QED
      BY <2>2 DEF Row, Statuses
  <2>4. [IdleWorker EXCEPT !.step = "deliver", !.msg = m, !.attempt = n] \in WorkerState
    <3> HIDE DEF n
    <3> QED
      BY <2>2 DEF IdleWorker, WorkerState, Locals, Steps
  <2> QED
    BY <1>5, <2>1, <2>3, <2>4 DEF ClaimNext
<1>6. ASSUME NEW w \in Workers, DeliverSucceeds(w) PROVE TypeOK'
  <2> DEFINE m == worker[w].msg
  <2>1. m \in Messages
    BY <1>6 DEF DeliverSucceeds, WorkerState
  <2>2. applied' \in [Messages -> Nat]
    BY <1>6, <2>1 DEF DeliverSucceeds, RemoteEffect
  <2>3. PICK kind \in ReceiptKinds, effect \in {"fresh", "duplicate"} :
          worker' = [worker EXCEPT ![w] =
            [@ EXCEPT !.step = AfterDelivery(kind), !.kind = kind, !.effect = effect]]
    BY <1>6 DEF DeliverSucceeds
  <2>4. /\ kind \in {"none", "match", "mismatch"}
        /\ AfterDelivery(kind) \in {"confirm", "receipt"}
    BY ReceiptAssumption DEF AfterDelivery
  <2>5. [worker[w] EXCEPT !.step = AfterDelivery(kind), !.kind = kind, !.effect = effect]
          \in WorkerState
    <3> DEFINE s == AfterDelivery(kind)
    <3> HIDE DEF s
    <3>1. [worker[w] EXCEPT !.step = s, !.kind = kind, !.effect = effect] \in Locals
      <4>1. s \in Steps
        BY <2>4 DEF s, Steps
      <4>2. worker[w] \in Locals
        BY DEF WorkerState
      <4> QED
        BY <2>4, <4>1, <4>2 DEF Locals
    <3>2. s # "failing" /\ s # "idle"
      BY <2>4 DEF s
    <3> QED
      BY <2>1, <3>1, <3>2 DEF s, WorkerState, Locals
  <2> QED
    BY <1>6, <2>2, <2>3, <2>5 DEF DeliverSucceeds
<1>7. ASSUME NEW w \in Workers, DeliverFails(w) PROVE TypeOK'
  <2>1. worker[w].msg \in Messages
    BY <1>7 DEF DeliverFails, WorkerState
  <2>2. applied' \in [Messages -> Nat]
    BY <1>7, <2>1 DEF DeliverFails, RemoteEffect
  <2>3. [worker[w] EXCEPT !.step = "fail"] \in WorkerState
    BY <2>1 DEF WorkerState, Locals, Steps
  <2> QED
    BY <1>7, <2>2, <2>3 DEF DeliverFails
<1>8. ASSUME NEW w \in Workers, RecordReceiptReads(w) \/ RecordReceiptWrites(w) PROVE TypeOK'
  <2> DEFINE m == worker[w].msg
             a == row[m].attempt
  <2>1. /\ m \in Messages /\ a \in Nat /\ worker[w] \in Locals
        /\ worker[w].step \in {"receipt", "storing"}
    BY <1>8 DEF RecordReceiptReads, RecordReceiptWrites, WorkerState, Row
  <2>2. CASE RecordReceiptReads(w)
    <3>1. [worker[w] EXCEPT !.step = "confirm"] \in WorkerState
      BY <2>1 DEF WorkerState, Locals, Steps
    <3>2. [worker[w] EXCEPT !.step = "storing", !.counted = a] \in WorkerState
      <4> HIDE DEF a
      <4> QED
        BY <2>1 DEF WorkerState, Locals, Steps
    <3> QED
      BY <2>2, <3>1, <3>2 DEF RecordReceiptReads
  <2>3. CASE RecordReceiptWrites(w)
    <3>1. [msg |-> m, attempt |-> worker[w].counted, effect |-> worker[w].effect] \in Receipt
      BY <2>1 DEF Locals, Receipt
    <3>2. [worker[w] EXCEPT !.step = "confirm", !.counted = 0] \in WorkerState
      BY <2>1 DEF WorkerState, Locals, Steps
    <3> QED
      BY <2>3, <3>1, <3>2 DEF RecordReceiptWrites
  <2> QED
    BY <1>8, <2>2, <2>3
<1>9. IdleWorker \in WorkerState
  BY NullAssumption DEF WorkerState, Locals, IdleWorker, Steps
<1>10. ASSUME NEW w \in Workers, RecordSent(w) PROVE TypeOK'
  <2> DEFINE m == worker[w].msg
  <2>1. m \in Messages
    BY <1>10 DEF RecordSent, WorkerState
  <2>2. [row[m] EXCEPT !.status = "sent", !.lockedBy = Null, !.lease = "none"] \in Row
    BY <2>1 DEF Row, Statuses
  <2> QED
    BY <1>9, <1>10, <2>1, <2>2 DEF RecordSent
<1>11. ASSUME NEW w \in Workers, RecordingThrows(w) PROVE TypeOK'
  <2>1. [worker[w] EXCEPT !.step = "fail", !.counted = 0] \in WorkerState
    BY <1>11 DEF RecordingThrows, WorkerState, Locals, Steps
  <2> QED
    BY <1>11, <2>1 DEF RecordingThrows
<1>12. ASSUME NEW w \in Workers, RecordFailureReads(w) PROVE TypeOK'
  <2>1. CASE HoldsLease(w, worker[w].msg)
    <3>1. PICK verdict \in {"retry_wait", "dead_letter"} :
            worker' = [worker EXCEPT ![w] = [@ EXCEPT !.step = "failing", !.verdict = verdict]]
      BY <1>12, <2>1 DEF RecordFailureReads
    <3>2. [worker[w] EXCEPT !.step = "failing", !.verdict = verdict] \in WorkerState
      BY <1>12 DEF RecordFailureReads, WorkerState, Locals, Steps
    <3> QED
      BY <1>12, <3>1, <3>2 DEF RecordFailureReads
  <2>2. CASE ~HoldsLease(w, worker[w].msg)
    BY <1>9, <1>12, <2>2 DEF RecordFailureReads
  <2> QED
    BY <2>1, <2>2
<1>13. ASSUME NEW w \in Workers, RecordFailureWrites(w) PROVE TypeOK'
  <2> DEFINE m == worker[w].msg
             status == FailureStatus(w)
  <2>1. m \in Messages /\ row[m] \in Row /\ status \in Statuses
    BY <1>13 DEF RecordFailureWrites, WorkerState, Locals, FailureStatus, Statuses
  <2>2. [row[m] EXCEPT !.status = status, !.available = "later",
                       !.lockedBy = Null, !.lease = "none"] \in Row
    BY <2>1, ReleasedRowType
  <2> QED
    BY <1>9, <1>13, <2>1, <2>2 DEF RecordFailureWrites
<1>14. ASSUME NEW w \in Workers, Crash(w) PROVE TypeOK'
  BY <1>9, <1>14 DEF Crash
<1>15. CASE UNCHANGED vars
  BY <1>15 DEF vars
<1> QED
  BY <1>1, <1>2, <1>3, <1>4, <1>5, <1>6, <1>7, <1>8, <1>10, <1>11, <1>12, <1>13,
     <1>14, <1>15 DEF Next, Dispatch

\* The rows, the receipts and the dispatchers' locals keep their types in every
\* reachable state.
THEOREM TypeCorrect == Spec => []TypeOK
BY TypeInit, TypeStep, PTL DEF Spec

-----------------------------------------------------------------------------
(* Leases, effects and the order between them *)

\* A worker inside dispatchNext works on a message that was appended.
ClaimsExist ==
    \A w \in Workers : worker[w].step # "idle" => row[worker[w].msg].status # "absent"

\* A worker past a resolved deliver works on a message whose effect is done.
EffectKnown ==
    \A w \in Workers :
      worker[w].step \in {"receipt", "storing", "confirm"} => applied[worker[w].msg] = 1

\* The inductive invariant: recordSent relies on EffectKnown, Delivery's Apply on
\* ClaimsExist, and the fence holds because a lease changes hands only in
\* claimNext, which raises the attempt and names the new holder at once.
IInv == TypeOK /\ ClaimsExist /\ EffectKnown /\ LeaseFence /\ SentAfterOneEffect

LEMMA IInvInit == Init => IInv
<1> SUFFICES ASSUME Init PROVE IInv
  OBVIOUS
<1>1. TypeOK
  BY TypeInit
<1>2. \A w \in Workers : worker[w].step = "idle"
  BY DEF Init, IdleWorker
<1>3. \A m \in Messages : row[m].status = "absent" /\ applied[m] = 0
  BY DEF Init, NoRow
<1> QED
  BY <1>1, <1>2, <1>3
     DEF IInv, ClaimsExist, EffectKnown, LeaseFence, SentAfterOneEffect

LEMMA IInvStep == IInv /\ [Next]_vars => IInv'
<1> SUFFICES ASSUME IInv, [Next]_vars PROVE IInv'
  OBVIOUS
<1>0. TypeOK /\ TypeOK'
  BY TypeStep DEF IInv
<1> DEFINE Rest == ClaimsExist /\ EffectKnown /\ LeaseFence /\ SentAfterOneEffect
<1> USE <1>0 DEF IInv, TypeOK, ClaimsExist, EffectKnown, LeaseFence, HoldsLease, SentAfterOneEffect
<1>1. ASSUME NEW m \in Messages, Append(m) PROVE Rest'
  <2>1. /\ \A n \in Messages \ {m} : row'[n] = row[n]
        /\ row[m].status = "absent" /\ row'[m].status = "pending"
    BY <1>1 DEF Append, NoRow, Row
  <2>2. worker' = worker /\ applied' = applied
    BY <1>1 DEF Append
  <2> QED
    BY <2>1, <2>2 DEF WorkerState
<1>2. ASSUME NEW m \in Messages, RetryDeadLetter(m) PROVE Rest'
  <2>1. /\ \A n \in Messages \ {m} : row'[n] = row[n]
        /\ row'[m].status = "pending"
    BY <1>2 DEF RetryDeadLetter, Row
  <2>2. worker' = worker /\ applied' = applied
    BY <1>2 DEF RetryDeadLetter
  <2> QED
    BY <2>1, <2>2 DEF WorkerState
<1>3. ASSUME NEW m \in Messages, BecomesDue(m) \/ LeaseExpires(m) \/ LeaseOutlived(m)
      PROVE  Rest'
  <2>1. \A n \in Messages : /\ row'[n].status = row[n].status
                            /\ row'[n].lockedBy = row[n].lockedBy
                            /\ row'[n].attempt = row[n].attempt
    BY <1>3 DEF BecomesDue, LeaseExpires, LeaseOutlived, Row
  <2>2. worker' = worker /\ applied' = applied
    BY <1>3 DEF BecomesDue, LeaseExpires, LeaseOutlived
  <2> QED
    BY <2>1, <2>2 DEF WorkerState
<1>4. ASSUME NEW w \in Workers, ClaimNext(w) PROVE Rest'
  <2>1. PICK m \in Messages :
          /\ row' = [row EXCEPT ![m] =
               [@ EXCEPT !.status = "dispatching", !.lockedBy = w, !.lease = "held",
                         !.attempt = row[m].attempt + 1]]
          /\ worker' = [worker EXCEPT ![w] =
               [IdleWorker EXCEPT !.step = "deliver", !.msg = m,
                                  !.attempt = row[m].attempt + 1]]
    BY <1>4 DEF ClaimNext
  <2>2. /\ \A n \in Messages \ {m} : row'[n] = row[n]
        /\ row'[m].status = "dispatching" /\ row'[m].lockedBy = w
        /\ row'[m].attempt = row[m].attempt + 1
    BY <2>1 DEF Row
  <2>3. /\ \A v \in Workers \ {w} : worker'[v] = worker[v]
        /\ worker'[w].step = "deliver" /\ worker'[w].msg = m
        /\ worker'[w].attempt = row[m].attempt + 1
    BY <2>1 DEF IdleWorker
  <2>4. applied' = applied
    BY <1>4 DEF ClaimNext
  <2> QED
    BY <2>2, <2>3, <2>4 DEF WorkerState
<1>5. ASSUME NEW w \in Workers, DeliverSucceeds(w) \/ DeliverFails(w) PROVE Rest'
  <2> DEFINE m == worker[w].msg
  <2>1. m \in Messages /\ worker[w].step = "deliver"
    BY <1>5 DEF DeliverSucceeds, DeliverFails, WorkerState
  <2>2. row' = row
    BY <1>5 DEF DeliverSucceeds, DeliverFails
  <2>3. /\ \A v \in Workers \ {w} : worker'[v] = worker[v]
        /\ worker'[w].msg = m /\ worker'[w].attempt = worker[w].attempt
    <3>1. worker[w] \in Locals
      BY DEF WorkerState
    <3>2. CASE DeliverSucceeds(w)
      <4>1. PICK kind \in ReceiptKinds, effect \in {"fresh", "duplicate"} :
              worker' = [worker EXCEPT ![w] =
                [@ EXCEPT !.step = AfterDelivery(kind), !.kind = kind, !.effect = effect]]
        BY <3>2 DEF DeliverSucceeds
      <4> QED
        BY <3>1, <4>1 DEF Locals
    <3>3. CASE DeliverFails(w)
      BY <3>1, <3>3 DEF DeliverFails, Locals
    <3> QED
      BY <1>5, <3>2, <3>3
  <2>4. applied' = applied \/ applied' = [applied EXCEPT ![m] = IF @ > 0 THEN @ ELSE @ + 1]
    BY <1>5 DEF DeliverSucceeds, DeliverFails, RemoteEffect, IsDuplicate
  <2>5. \A n \in Messages : applied'[n] <= 1 /\ (applied[n] = 1 => applied'[n] = 1)
    BY <2>1, <2>4
  <2>6. worker'[w].step \in {"receipt", "storing", "confirm"} => applied'[m] = 1
    <3>1. CASE DeliverSucceeds(w)
      BY <2>1, <3>1 DEF DeliverSucceeds, RemoteEffect, IsDuplicate
    <3>2. CASE DeliverFails(w)
      BY <3>2 DEF DeliverFails, WorkerState, Locals
    <3> QED
      BY <1>5, <3>1, <3>2
  <2> QED
    BY <2>1, <2>2, <2>3, <2>4, <2>5, <2>6 DEF WorkerState
<1>6. ASSUME NEW w \in Workers,
             RecordReceiptReads(w) \/ RecordReceiptWrites(w) \/ RecordingThrows(w)
      PROVE  Rest'
  <2>1. row' = row /\ applied' = applied
    BY <1>6 DEF RecordReceiptReads, RecordReceiptWrites, RecordingThrows
  <2>2. /\ \A v \in Workers \ {w} : worker'[v] = worker[v]
        /\ worker'[w].msg = worker[w].msg /\ worker'[w].attempt = worker[w].attempt
        /\ worker[w].step \in {"receipt", "storing", "confirm"}
    <3>1. worker \in [Workers -> WorkerState] /\ worker[w] \in Locals
      BY DEF WorkerState
    <3>2. CASE RecordReceiptReads(w)
      <4>1. PICK a : worker' = [worker EXCEPT ![w] =
                       IF HoldsLease(w, worker[w].msg) /\ worker[w].kind = "match"
                       THEN [@ EXCEPT !.step = "storing", !.counted = a]
                       ELSE [@ EXCEPT !.step = "confirm"]]
        BY <3>2 DEF RecordReceiptReads
      <4>2. worker[w].step = "receipt"
        BY <3>2 DEF RecordReceiptReads
      <4> QED
        BY <3>1, <4>1, <4>2 DEF Locals
    <3>3. CASE RecordReceiptWrites(w) \/ RecordingThrows(w)
      BY <3>1, <3>3 DEF RecordReceiptWrites, RecordingThrows, Locals
    <3> QED
      BY <1>6, <3>2, <3>3
  <2> QED
    BY <2>1, <2>2 DEF WorkerState
<1>7. ASSUME NEW w \in Workers, RecordSent(w) \/ RecordFailureWrites(w) PROVE Rest'
  <2> DEFINE m == worker[w].msg
  <2>1. m \in Messages /\ worker[w].step \in {"confirm", "failing"}
    BY <1>7 DEF RecordSent, RecordFailureWrites, WorkerState
  <2>2. /\ \A v \in Workers \ {w} : worker'[v] = worker[v]
        /\ worker'[w].step = "idle"
        /\ applied' = applied
    BY <1>7 DEF RecordSent, RecordFailureWrites, IdleWorker
  <2>3. /\ \A n \in Messages \ {m} : row'[n] = row[n]
        /\ \/ row'[m] = row[m]
           \/ row'[m].status = "sent" /\ worker[w].step = "confirm"
           \/ row'[m].status \in {"retry_wait", "dead_letter"}
    <3>1. CASE RecordSent(w)
      BY <2>1, <3>1 DEF RecordSent, Row
    <3>2. CASE RecordFailureWrites(w)
      BY <2>1, <3>2 DEF RecordFailureWrites, FailureStatus, WorkerState, Locals, Row
    <3> QED
      BY <1>7, <3>1, <3>2
  <2> QED
    BY <2>1, <2>2, <2>3 DEF WorkerState
<1>8. ASSUME NEW w \in Workers, RecordFailureReads(w) PROVE Rest'
  <2>1. row' = row /\ applied' = applied
    BY <1>8 DEF RecordFailureReads
  <2>2. PICK verdict \in {"retry_wait", "dead_letter"} :
          worker' = [worker EXCEPT ![w] =
            IF HoldsLease(w, worker[w].msg)
            THEN [@ EXCEPT !.step = "failing", !.verdict = verdict]
            ELSE IdleWorker]
    BY <1>8 DEF RecordFailureReads
  <2>3. \A v \in Workers \ {w} : worker'[v] = worker[v]
    BY <2>2
  <2>4. \/ worker'[w].step = "idle"
        \/ /\ worker[w].step = "fail" /\ worker'[w].step = "failing"
           /\ worker'[w].msg = worker[w].msg /\ worker'[w].attempt = worker[w].attempt
    <3> HIDE DEF HoldsLease
    <3>1. worker'[w] = IF HoldsLease(w, worker[w].msg)
                       THEN [worker[w] EXCEPT !.step = "failing", !.verdict = verdict]
                       ELSE IdleWorker
      BY <2>2
    <3>2. worker[w].step = "fail" /\ worker[w] \in Locals
      BY <1>8 DEF RecordFailureReads, WorkerState
    <3> QED
      BY <3>1, <3>2 DEF IdleWorker, Locals
  <2> QED
    BY <2>1, <2>3, <2>4 DEF WorkerState
<1>9. ASSUME NEW w \in Workers, Crash(w) PROVE Rest'
  <2>1. row' = row /\ applied' = applied
    BY <1>9 DEF Crash
  <2>2. \A v \in Workers \ {w} : worker'[v] = worker[v]
    BY <1>9 DEF Crash
  <2>3. worker'[w].step = "idle"
    BY <1>9 DEF Crash, IdleWorker
  <2> QED
    BY <2>1, <2>2, <2>3 DEF WorkerState
<1>10. CASE UNCHANGED vars
  BY <1>10 DEF vars
<1> QED
  BY <1>1, <1>2, <1>3, <1>4, <1>5, <1>6, <1>7, <1>8, <1>9, <1>10 DEF Next, Dispatch

\* Whoever passes the guard on status and worker id records the outcome of the
\* attempt the row is at.
THEOREM LeaseFenceCorrect == Spec => []LeaseFence
BY IInvInit, IInvStep, PTL DEF Spec, IInv

\* Nothing is marked sent before its remote effect, and no effect happens twice.
THEOREM SentAfterOneEffectCorrect == Spec => []SentAfterOneEffect
BY IInvInit, IInvStep, PTL DEF Spec, IInv

-----------------------------------------------------------------------------
(* The outbox implements Delivery *)

LEMMA RefinementInit == Init => Promise!DInit
BY DEF Init, NoRow, Phase, Promise!DInit

LEMMA RefinementStep == IInv /\ [Next]_vars => [Promise!DNext]_(Promise!dvars)
<1> SUFFICES ASSUME IInv, [Next]_vars PROVE [Promise!DNext]_(Promise!dvars)
  OBVIOUS
<1> DEFINE phase == [m \in Messages |-> Phase(row[m])]
           Stutter == phase' = phase /\ applied' = applied
<1> USE DEF IInv, TypeOK, Promise!DNext, Promise!dvars
<1>0. Stutter => [Promise!DNext]_(Promise!dvars)
  OBVIOUS
<1>a. \A r : /\ r.status = "absent" => Phase(r) = "absent"
             /\ r.status \in {"pending", "dispatching", "retry_wait"} => Phase(r) = "queued"
             /\ r.status = "sent" => Phase(r) = "sent"
             /\ r.status = "dead_letter" => Phase(r) = "dead"
  BY DEF Phase
<1>b. ASSUME NEW m \in Messages, \A n \in Messages \ {m} : row'[n] = row[n]
      PROVE  phase' = [phase EXCEPT ![m] = Phase(row'[m])]
  BY <1>b
<1>1. ASSUME NEW m \in Messages, Append(m) PROVE Promise!Enqueue(m)
  <2>1. /\ row[m].status = "absent" /\ row'[m].status = "pending"
        /\ \A n \in Messages \ {m} : row'[n] = row[n]
    BY <1>1 DEF Append, NoRow
  <2>2. phase[m] = "absent" /\ phase' = [phase EXCEPT ![m] = "queued"]
    BY <1>a, <1>b, <2>1
  <2> QED
    BY <1>1, <2>2 DEF Append, Promise!Enqueue
<1>2. ASSUME NEW m \in Messages, RetryDeadLetter(m) PROVE Promise!Revive(m)
  <2>1. /\ row[m].status = "dead_letter" /\ row'[m].status = "pending"
        /\ \A n \in Messages \ {m} : row'[n] = row[n]
    BY <1>2 DEF RetryDeadLetter, Row
  <2>2. phase[m] = "dead" /\ phase' = [phase EXCEPT ![m] = "queued"]
    BY <1>a, <1>b, <2>1
  <2> QED
    BY <1>2, <2>2 DEF RetryDeadLetter, Promise!Revive
<1>3. ASSUME NEW m \in Messages, BecomesDue(m) \/ LeaseExpires(m) \/ LeaseOutlived(m)
      PROVE  Stutter
  <2>1. \A n \in Messages : row'[n].status = row[n].status
    BY <1>3 DEF BecomesDue, LeaseExpires, LeaseOutlived, Row
  <2>2. \A n \in Messages : Phase(row'[n]) = Phase(row[n])
    BY <2>1 DEF Phase
  <2> HIDE DEF Phase
  <2> QED
    BY <1>3, <2>2 DEF BecomesDue, LeaseExpires, LeaseOutlived
<1>4. ASSUME NEW w \in Workers, ClaimNext(w) PROVE Stutter
  <2>1. PICK m \in Messages :
          /\ Claimable(m)
          /\ row' = [row EXCEPT ![m] =
               [@ EXCEPT !.status = "dispatching", !.lockedBy = w, !.lease = "held",
                         !.attempt = row[m].attempt + 1]]
    BY <1>4 DEF ClaimNext
  <2>2. Phase(row[m]) = "queued" /\ Phase(row'[m]) = "queued"
    BY <2>1 DEF Claimable, Phase, Row
  <2>3. \A n \in Messages \ {m} : row'[n] = row[n]
    BY <2>1
  <2> QED
    BY <1>4, <2>2, <2>3 DEF ClaimNext
<1>5. ASSUME NEW w \in Workers, DeliverSucceeds(w) \/ DeliverFails(w)
      PROVE  [Promise!DNext]_(Promise!dvars)
  <2> DEFINE m == worker[w].msg
  <2>1. m \in Messages /\ row[m].status # "absent"
    BY <1>5 DEF DeliverSucceeds, DeliverFails, WorkerState, ClaimsExist
  <2>2. row' = row
    BY <1>5 DEF DeliverSucceeds, DeliverFails
  <2>3. applied[m] \in {0, 1}
    BY <2>1 DEF SentAfterOneEffect
  <2>4. applied' = applied \/ (applied[m] = 0 /\ applied' = [applied EXCEPT ![m] = 1])
    <3>1. applied' = applied \/ applied' = [applied EXCEPT ![m] = IF @ > 0 THEN @ ELSE @ + 1]
      BY <1>5 DEF DeliverSucceeds, DeliverFails, RemoteEffect, IsDuplicate
    <3>2. CASE applied[m] = 0
      BY <2>1, <3>1, <3>2
    <3>3. CASE applied[m] = 1
      BY <2>1, <3>1, <3>3
    <3> QED
      BY <2>3, <3>2, <3>3
  <2>5. phase[m] # "absent" /\ phase' = phase
    BY <2>1, <2>2 DEF Phase, Row, Statuses
  <2> QED
    BY <2>1, <2>4, <2>5 DEF Promise!Apply
<1>6. ASSUME NEW w \in Workers,
             \/ RecordReceiptReads(w) \/ RecordReceiptWrites(w) \/ RecordingThrows(w)
             \/ RecordFailureReads(w) \/ Crash(w)
      PROVE  Stutter
  BY <1>6 DEF RecordReceiptReads, RecordReceiptWrites, RecordingThrows, RecordFailureReads, Crash
<1>7. ASSUME NEW w \in Workers, RecordSent(w) PROVE [Promise!DNext]_(Promise!dvars)
  <2> DEFINE m == worker[w].msg
  <2>1. m \in Messages /\ applied[m] = 1 /\ applied' = applied
    BY <1>7 DEF RecordSent, WorkerState, EffectKnown
  <2>2. CASE HoldsLease(w, m)
    <3>1. row[m].status = "dispatching" /\ row'[m].status = "sent"
      BY <1>7, <2>1, <2>2 DEF RecordSent, Row, HoldsLease
    <3>2. \A n \in Messages \ {m} : row'[n] = row[n]
      BY <1>7 DEF RecordSent
    <3>3. phase[m] = "queued" /\ phase' = [phase EXCEPT ![m] = "sent"]
      BY <1>a, <1>b, <2>1, <3>1, <3>2
    <3> QED
      BY <2>1, <3>3 DEF Promise!Confirm
  <2>3. CASE ~HoldsLease(w, m)
    BY <1>7, <2>1, <2>3 DEF RecordSent
  <2> QED
    BY <2>2, <2>3
<1>8. ASSUME NEW w \in Workers, RecordFailureWrites(w) PROVE [Promise!DNext]_(Promise!dvars)
  <2> DEFINE m == worker[w].msg
  <2>1. m \in Messages /\ applied' = applied
    BY <1>8 DEF RecordFailureWrites, WorkerState
  <2>2. CASE HoldsLease(w, m)
    <3>1. row[m].status = "dispatching" /\ row'[m].status = FailureStatus(w)
      BY <1>8, <2>1, <2>2 DEF RecordFailureWrites, Row, HoldsLease
    <3>2. FailureStatus(w) \in {"retry_wait", "dead_letter"}
      BY <1>8 DEF RecordFailureWrites, FailureStatus, WorkerState, Locals
    <3>3. \A n \in Messages \ {m} : row'[n] = row[n]
      BY <1>8 DEF RecordFailureWrites
    <3>4. phase[m] = "queued"
      BY <1>a, <2>1, <3>1
    <3>5. \/ phase' = [phase EXCEPT ![m] = "queued"]
          \/ phase' = [phase EXCEPT ![m] = "dead"]
      BY <1>a, <1>b, <2>1, <3>1, <3>2, <3>3
    <3> HIDE DEF phase
    <3>6. CASE phase' = [phase EXCEPT ![m] = "queued"]
      <4>1. phase' = phase
        BY <3>4, <3>6 DEF phase
      <4> QED
        BY <1>0, <2>1, <4>1
    <3> QED
      BY <2>1, <3>4, <3>5, <3>6 DEF phase, Promise!GiveUp
  <2>3. CASE ~HoldsLease(w, m)
    BY <1>8, <2>1, <2>3 DEF RecordFailureWrites
  <2> QED
    BY <2>2, <2>3
<1>9. CASE UNCHANGED vars
  BY <1>9 DEF vars
<1> QED
  BY <1>0, <1>1, <1>2, <1>3, <1>4, <1>5, <1>6, <1>7, <1>8, <1>9 DEF Next, Dispatch

\* Every behaviour of workers, leases, retries and crashes is one that Delivery
\* allows: sent is final and after the effect, the effect happens once.
THEOREM OutboxImplementsDelivery == Spec => ImplementsDelivery
BY IInvInit, IInvStep, RefinementInit, RefinementStep, PTL
   DEF Spec, ImplementsDelivery, Promise!DSpec

-----------------------------------------------------------------------------
(* How many attempts a message can be given *)

Budget == MaxAttempts + faults + retries

\* A row that can be claimed, now or once its lease has run out, has an attempt
\* left in the budget; a worker about to write retry_wait saw one left.
Account ==
    /\ \A m \in Messages :
         /\ row[m].attempt <= Budget
         /\ row[m].status \in {"pending", "retry_wait"} => row[m].attempt < Budget
         /\ /\ row[m].status = "dispatching"
            /\ row[m].lease = "expired" \/ ~Attended(m)
            => row[m].attempt < Budget
    /\ \A w \in Workers :
         /\ worker[w].step = "failing" /\ worker[w].verdict = "retry_wait"
         /\ HoldsLease(w, worker[w].msg)
         => row[worker[w].msg].attempt < MaxAttempts

AInv == TypeOK /\ Account

LEMMA AInvInit == Init => AInv
<1> SUFFICES ASSUME Init PROVE AInv
  OBVIOUS
<1>1. Budget = MaxAttempts
  BY MaxAttemptsAssumption DEF Init, Budget
<1>2. \A m \in Messages : row[m].status = "absent" /\ row[m].attempt = 0
  BY DEF Init, NoRow
<1>3. \A w \in Workers : worker[w].step = "idle"
  BY DEF Init, IdleWorker
<1> QED
  BY <1>1, <1>2, <1>3, TypeInit, MaxAttemptsAssumption DEF AInv, Account

LEMMA AInvStep == AInv /\ [Next]_vars => AInv'
<1> SUFFICES ASSUME AInv, [Next]_vars PROVE AInv'
  OBVIOUS
<1>0. TypeOK /\ TypeOK'
  BY TypeStep DEF AInv
<1>a. Budget \in Nat /\ Budget' \in Nat /\ MaxAttempts \in Nat /\ MaxAttempts >= 1
  <2>1. MaxAttempts \in Nat /\ MaxAttempts >= 1
    BY MaxAttemptsAssumption
  <2>2. faults \in Nat /\ retries \in Nat /\ faults' \in Nat /\ retries' \in Nat
    BY <1>0 DEF TypeOK
  <2>3. Budget' = MaxAttempts + faults' + retries'
    BY DEF Budget
  <2>4. Budget = MaxAttempts + faults + retries
    BY DEF Budget
  <2>5. \A a, b, c \in Nat : a + b + c \in Nat
    OBVIOUS
  <2> QED
    BY <2>1, <2>2, <2>3, <2>4, <2>5, Zenon
<1>b. \A m \in Messages : row[m] \in Row /\ row'[m] \in Row /\ row[m].attempt \in Nat
  BY <1>0 DEF TypeOK, Row
<1>c. \A w \in Workers : /\ worker[w] \in Locals
                         /\ worker[w].step # "idle" <=> worker[w].msg \in Messages
  BY <1>0 DEF TypeOK, WorkerState
<1> USE <1>a, <1>b, <1>c DEF AInv, Account, HoldsLease, Attended
<1>1. ASSUME NEW m \in Messages, Append(m) PROVE Account'
  <2>1. /\ \A n \in Messages \ {m} : row'[n] = row[n]
        /\ row'[m].status = "pending" /\ row'[m].attempt = 0
    BY <1>0, <1>1 DEF Append, NoRow, TypeOK
  <2>2. worker' = worker /\ Budget' = Budget
    BY <1>1 DEF Append, Budget
  <2> QED
    BY <2>1, <2>2, MaxAttemptsAssumption DEF Budget, TypeOK
<1>2. ASSUME NEW m \in Messages, RetryDeadLetter(m) PROVE Account'
  <2>1. /\ \A n \in Messages \ {m} : row'[n] = row[n]
        /\ row'[m].status = "pending" /\ row'[m].attempt = row[m].attempt
    BY <1>0, <1>2 DEF RetryDeadLetter, TypeOK, Row
  <2>2. worker' = worker /\ Budget' = Budget + 1
    BY <1>0, <1>2 DEF RetryDeadLetter, Budget, TypeOK
  <2> QED
    BY <2>1, <2>2
<1>3. ASSUME NEW m \in Messages, BecomesDue(m) PROVE Account'
  <2>1. \A n \in Messages : /\ row'[n].status = row[n].status
                            /\ row'[n].lockedBy = row[n].lockedBy
                            /\ row'[n].attempt = row[n].attempt
                            /\ row'[n].lease = row[n].lease
    BY <1>0, <1>3 DEF BecomesDue, TypeOK, Row
  <2>2. worker' = worker /\ Budget' = Budget
    BY <1>3 DEF BecomesDue, Budget
  <2> QED
    BY <2>1, <2>2
<1>4. ASSUME NEW m \in Messages, LeaseExpires(m) \/ LeaseOutlived(m) PROVE Account'
  <2>1. \A n \in Messages : /\ row'[n].status = row[n].status
                            /\ row'[n].lockedBy = row[n].lockedBy
                            /\ row'[n].attempt = row[n].attempt
                            /\ n # m => row'[n].lease = row[n].lease
    BY <1>0, <1>4 DEF LeaseExpires, LeaseOutlived, TypeOK, Row
  <2>2. /\ worker' = worker
        /\ \/ Budget' = Budget /\ ~Attended(m)
           \/ Budget' = Budget + 1
    BY <1>0, <1>4 DEF LeaseExpires, LeaseOutlived, Budget, TypeOK
  <2> QED
    BY <2>1, <2>2
<1>5. ASSUME NEW w \in Workers, ClaimNext(w) PROVE Account'
  <2>1. PICK m \in Messages :
          /\ Claimable(m)
          /\ row' = [row EXCEPT ![m] =
               [@ EXCEPT !.status = "dispatching", !.lockedBy = w, !.lease = "held",
                         !.attempt = row[m].attempt + 1]]
          /\ worker' = [worker EXCEPT ![w] =
               [IdleWorker EXCEPT !.step = "deliver", !.msg = m,
                                  !.attempt = row[m].attempt + 1]]
    BY <1>5 DEF ClaimNext
  <2>2. /\ \A n \in Messages \ {m} : row'[n] = row[n]
        /\ row'[m].status = "dispatching" /\ row'[m].lockedBy = w /\ row'[m].lease = "held"
        /\ row'[m].attempt = row[m].attempt + 1
    BY <1>0, <2>1 DEF TypeOK, Row
  <2>3. /\ \A v \in Workers \ {w} : worker'[v] = worker[v]
        /\ worker'[w].step = "deliver" /\ worker'[w].msg = m
        /\ worker[w].msg \notin Messages
    BY <1>0, <1>5, <2>1 DEF ClaimNext, TypeOK, IdleWorker
  <2>4. Budget' = Budget /\ row[m].attempt < Budget
    BY <1>5, <2>1 DEF ClaimNext, Claimable, Budget
  <2>5. \A n \in Messages \ {m} : Attended(n) => Attended(n)'
    BY <2>2, <2>3
  <2>6. Attended(m)'
    BY <2>2, <2>3
  <2> QED
    BY <2>2, <2>3, <2>4, <2>5, <2>6
<1>6. ASSUME NEW w \in Workers,
             \/ DeliverSucceeds(w) \/ DeliverFails(w) \/ RecordingThrows(w)
             \/ RecordReceiptReads(w) \/ RecordReceiptWrites(w)
      PROVE  Account'
  <2>1. row' = row /\ Budget' = Budget
    BY <1>6 DEF DeliverSucceeds, DeliverFails, RecordReceiptReads, RecordReceiptWrites,
       RecordingThrows, Budget
  <2>2. /\ \A v \in Workers \ {w} : worker'[v] = worker[v]
        /\ worker'[w].msg = worker[w].msg /\ worker'[w].step # "failing"
    <3>1. CASE DeliverSucceeds(w)
      <4>1. PICK kind \in ReceiptKinds, effect \in {"fresh", "duplicate"} :
              worker' = [worker EXCEPT ![w] =
                [@ EXCEPT !.step = AfterDelivery(kind), !.kind = kind, !.effect = effect]]
        BY <3>1 DEF DeliverSucceeds
      <4>2. AfterDelivery(kind) # "failing"
        BY DEF AfterDelivery
      <4> QED
        BY <1>0, <4>1, <4>2 DEF Locals, TypeOK
    <3>2. CASE RecordReceiptReads(w)
      <4>1. PICK a : worker' = [worker EXCEPT ![w] =
                       IF HoldsLease(w, worker[w].msg) /\ worker[w].kind = "match"
                       THEN [@ EXCEPT !.step = "storing", !.counted = a]
                       ELSE [@ EXCEPT !.step = "confirm"]]
        BY <3>2 DEF RecordReceiptReads
      <4> QED
        BY <1>0, <4>1 DEF Locals, TypeOK
    <3>3. CASE ~DeliverSucceeds(w) /\ ~RecordReceiptReads(w)
      BY <1>0, <1>6, <3>3 DEF DeliverFails, RecordReceiptWrites, RecordingThrows, Locals, TypeOK
    <3> QED
      BY <3>1, <3>2, <3>3
  <2> QED
    BY <2>1, <2>2
<1>7. ASSUME NEW w \in Workers, RecordSent(w) \/ RecordFailureWrites(w) PROVE Account'
  <2> DEFINE m == worker[w].msg
  <2>1. m \in Messages /\ Budget' = Budget
    BY <1>7 DEF RecordSent, RecordFailureWrites, Budget
  <2>2. /\ \A v \in Workers \ {w} : worker'[v] = worker[v]
        /\ worker'[w].step = "idle"
        /\ \A n \in Messages \ {m} : row'[n] = row[n]
    BY <1>0, <1>7 DEF RecordSent, RecordFailureWrites, IdleWorker, TypeOK
  <2>3. /\ row'[m].attempt = row[m].attempt
        /\ \/ row'[m] = row[m] /\ ~HoldsLease(w, m)
           \/ row'[m].status \in {"sent", "dead_letter"}
           \/ row'[m].status = "retry_wait" /\ row[m].attempt < MaxAttempts
    <3>1. CASE RecordSent(w)
      BY <1>0, <2>1, <3>1 DEF RecordSent, Row, TypeOK
    <3>2. CASE RecordFailureWrites(w)
      <4>1. FailureStatus(w) \in {"retry_wait", "dead_letter"}
        BY <1>0, <3>2 DEF RecordFailureWrites, FailureStatus, WorkerState, Locals, TypeOK
      <4>2. CASE HoldsLease(w, m)
        <5>1. row'[m].status = FailureStatus(w) /\ row'[m].attempt = row[m].attempt
          BY <1>0, <2>1, <3>2, <4>2 DEF RecordFailureWrites, Row, TypeOK
        <5>2. FailureStatus(w) = "retry_wait" => row[m].attempt < MaxAttempts
          BY <3>2, <4>2 DEF RecordFailureWrites, FailureStatus
        <5> QED
          BY <4>1, <5>1, <5>2
      <4>3. CASE ~HoldsLease(w, m)
        BY <3>2, <4>3 DEF RecordFailureWrites
      <4> QED
        BY <4>2, <4>3
    <3> QED
      BY <1>7, <3>1, <3>2
  <2>4. \A n \in Messages :
          row'[n] = row[n] /\ ~(n = m /\ HoldsLease(w, m)) => (Attended(n) => Attended(n)')
    BY <2>2
  <2>5. MaxAttempts <= Budget
    BY <1>0 DEF Budget, TypeOK
  <2> QED
    BY <2>1, <2>2, <2>3, <2>4, <2>5
<1>8. ASSUME NEW w \in Workers, RecordFailureReads(w) PROVE Account'
  <2> DEFINE m == worker[w].msg
  <2>1. m \in Messages /\ row' = row /\ Budget' = Budget
    BY <1>8 DEF RecordFailureReads, Budget
  <2>2. CASE HoldsLease(w, m)
    <3>1. /\ \A v \in Workers \ {w} : worker'[v] = worker[v]
          /\ worker'[w].msg = m
          /\ worker'[w].verdict = IF AttemptsExhausted(m) THEN "dead_letter" ELSE "retry_wait"
      BY <1>0, <1>8, <2>2 DEF RecordFailureReads, Locals, TypeOK
    <3>2. worker'[w].verdict = "retry_wait" => row[m].attempt < MaxAttempts
      BY <2>1, <3>1 DEF AttemptsExhausted
    <3> QED
      BY <2>1, <3>1, <3>2
  <2>3. CASE ~HoldsLease(w, m)
    <3>1. /\ \A v \in Workers \ {w} : worker'[v] = worker[v]
          /\ worker'[w].step = "idle"
      BY <1>0, <1>8, <2>3 DEF RecordFailureReads, IdleWorker, TypeOK
    <3>2. \A n \in Messages : Attended(n) => Attended(n)'
      BY <2>1, <2>3, <3>1
    <3> QED
      BY <2>1, <3>1, <3>2
  <2> QED
    BY <2>2, <2>3
<1>9. ASSUME NEW w \in Workers, Crash(w) PROVE Account'
  <2>1. row' = row /\ Budget' = Budget + 1
    BY <1>0, <1>9 DEF Crash, Budget, TypeOK
  <2>2. /\ \A v \in Workers \ {w} : worker'[v] = worker[v]
        /\ worker'[w].step = "idle"
    BY <1>0, <1>9 DEF Crash, IdleWorker, TypeOK
  <2> QED
    BY <2>1, <2>2
<1>10. ASSUME UNCHANGED vars PROVE Account'
  <2>1. row' = row /\ worker' = worker /\ Budget' = Budget
    BY <1>10 DEF vars, Budget
  <2> QED
    BY <2>1
<1> QED
  BY <1>0, <1>1, <1>2, <1>3, <1>4, <1>5, <1>6, <1>7, <1>8, <1>9, <1>10 DEF Next, Dispatch

\* Every attempt beyond outboxMaxAttempts is paid for by a crash, by a lease that
\* ran out under a live worker, or by an operator's retry.
THEOREM AttemptsPaidForCorrect == Spec => []AttemptsPaidFor
<1>1. AInv => AttemptsPaidFor
  BY DEF AInv, Account, AttemptsPaidFor, Budget
<1> QED
  BY <1>1, AInvInit, AInvStep, PTL DEF Spec

-----------------------------------------------------------------------------
(* The receipts *)

\* No claim is ahead of its row.
NotAhead ==
    \A w \in Workers :
      worker[w].step # "idle" => worker[w].attempt <= row[worker[w].msg].attempt

\* A worker whose receipt, not stored yet, says that its own call caused the effect.
CausedIt(w) == worker[w].step \in {"receipt", "storing"} /\ worker[w].effect = "fresh"

\* Such a worker precedes every receipt.
FreshIsFirst ==
    \A w \in Workers :
      CausedIt(w) =>
        \A r \in receipts : r.msg = worker[w].msg => worker[w].attempt <= r.attempt

\* A worker about to store a receipt, which may have lost its lease since it read the
\* attempt count, read that of its claim, and is preceded by whoever caused the effect.
CountedLast ==
    \A w \in Workers :
      worker[w].step = "storing" =>
        /\ worker[w].counted = worker[w].attempt
        /\ \A r \in receipts :
             r.msg = worker[w].msg /\ r.effect = "fresh" => r.attempt <= worker[w].counted
        /\ \A v \in Workers :
             CausedIt(v) /\ worker[v].msg = worker[w].msg =>
               worker[v].attempt <= worker[w].counted

\* A row that is not there was never attempted.
AbsentIsNew == \A m \in Messages : row[m].status = "absent" => row[m].attempt = 0

Evidence == ReceiptsAreEvidence /\ NotAhead /\ FreshIsFirst /\ CountedLast /\ AbsentIsNew

LEMMA EvidenceInit == Init => Evidence
BY DEF Init, Evidence, ReceiptsAreEvidence, NotAhead, FreshIsFirst, CountedLast, CausedIt,
   AbsentIsNew, IdleWorker, NoRow

\* What a step does to a row: attempts are counted up, by a claim alone, and a
\* message stays sent.
RowMoved(m) ==
    /\ row[m].attempt <= row'[m].attempt
    /\ row'[m].status = "absent" => row'[m].attempt = 0
    /\ row[m].status = "sent" => row'[m].status = "sent" /\ row'[m].attempt = row[m].attempt

LEMMA RowsMove == TypeOK /\ AbsentIsNew /\ [Next]_vars => \A m \in Messages : RowMoved(m)
<1> SUFFICES ASSUME TypeOK, AbsentIsNew, [Next]_vars, NEW m \in Messages PROVE RowMoved(m)
  OBVIOUS
<1>0. row \in [Messages -> Row] /\ row[m].attempt \in Nat
      /\ (row[m].status = "absent" => row[m].attempt = 0)
  BY DEF TypeOK, Row, AbsentIsNew
<1> USE <1>0 DEF RowMoved
<1>1. ASSUME NEW n \in Messages, Append(n) PROVE RowMoved(m)
  <2>1. PICK available \in {"now", "later"} :
          row' = [row EXCEPT ![n] = [NoRow EXCEPT !.status = "pending",
                                                  !.available = available]]
    BY <1>1 DEF Append
  <2> QED
    BY <1>1, <2>1 DEF Append, NoRow, Row
<1>2. ASSUME NEW n \in Messages,
             RetryDeadLetter(n) \/ BecomesDue(n) \/ LeaseExpires(n) \/ LeaseOutlived(n)
      PROVE  RowMoved(m)
  <2>1. CASE RetryDeadLetter(n)
    BY <2>1 DEF RetryDeadLetter, Row
  <2>2. CASE BecomesDue(n) \/ LeaseExpires(n) \/ LeaseOutlived(n)
    BY <2>2 DEF BecomesDue, LeaseExpires, LeaseOutlived, Row
  <2> QED
    BY <1>2, <2>1, <2>2
<1>3. ASSUME NEW w \in Workers, ClaimNext(w) PROVE RowMoved(m)
  <2>1. PICK n \in Messages :
          /\ Claimable(n)
          /\ row' = [row EXCEPT ![n] =
               [@ EXCEPT !.status = "dispatching", !.lockedBy = w, !.lease = "held",
                         !.attempt = row[n].attempt + 1]]
    BY <1>3 DEF ClaimNext
  <2> QED
    BY <2>1 DEF Claimable, Row
<1>4. ASSUME NEW w \in Workers, RecordSent(w) \/ RecordFailureWrites(w) PROVE RowMoved(m)
  <2> DEFINE n == worker[w].msg
  <2>1. CASE row' = row
    BY <2>1
  <2>2. CASE row' # row /\ RecordSent(w)
    <3>1. row' = [row EXCEPT ![n] =
                   [@ EXCEPT !.status = "sent", !.lockedBy = Null, !.lease = "none"]]
          /\ row[n].status = "dispatching"
      BY <2>2 DEF RecordSent, HoldsLease
    <3> HIDE DEF n
    <3> QED
      BY <3>1 DEF Row
  <2>3. CASE row' # row /\ RecordFailureWrites(w)
    <3> DEFINE v == worker[w].verdict
    <3>1. row' = [row EXCEPT ![n] =
                   [@ EXCEPT !.status = v, !.available = "later",
                             !.lockedBy = Null, !.lease = "none"]]
          /\ row[n].status = "dispatching"
      BY <2>3 DEF RecordFailureWrites, HoldsLease, FailureStatus
    <3>2. v # "absent"
      BY DEF TypeOK, WorkerState, Locals
    <3> HIDE DEF n, v
    <3> QED
      BY <3>1, <3>2 DEF Row
  <2> QED
    BY <1>4, <2>1, <2>2, <2>3
<1>5. CASE UNCHANGED row
  BY <1>5
<1> QED
  BY <1>1, <1>2, <1>3, <1>4, <1>5
     DEF Next, Dispatch, vars, DeliverSucceeds, DeliverFails, RecordReceiptReads,
         RecordReceiptWrites, RecordingThrows, RecordFailureReads, Crash

\* What a step of a worker that is neither claiming, delivering nor storing a
\* receipt does to it.
WorkerMoved(w) ==
    \/ worker'[w] = worker[w]
    \/ worker'[w].step = "idle"
    \/ /\ worker[w].step # "idle" /\ worker'[w].step \in {"fail", "failing"}
       /\ worker'[w].msg = worker[w].msg /\ worker'[w].attempt = worker[w].attempt

LEMMA WorkersMove ==
    TypeOK /\ [Next]_vars =>
      \/ \E w \in Workers : \/ ClaimNext(w) \/ DeliverSucceeds(w)
                            \/ RecordReceiptReads(w) \/ RecordReceiptWrites(w)
      \/ /\ \A w \in Workers : WorkerMoved(w)
         /\ UNCHANGED receipts
         /\ \A m \in Messages : applied[m] <= applied'[m]
<1> SUFFICES ASSUME TypeOK, [Next]_vars,
                    \A w \in Workers : /\ ~ClaimNext(w) /\ ~DeliverSucceeds(w)
                                        /\ ~RecordReceiptReads(w) /\ ~RecordReceiptWrites(w)
             PROVE  /\ \A w \in Workers : WorkerMoved(w)
                    /\ UNCHANGED receipts
                    /\ \A m \in Messages : applied[m] <= applied'[m]
  OBVIOUS
<1>0. worker \in [Workers -> WorkerState] /\ applied \in [Messages -> Nat]
  BY DEF TypeOK
<1>1. UNCHANGED receipts
  BY DEF Next, Dispatch, vars, Append, RetryDeadLetter, BecomesDue, LeaseExpires,
         LeaseOutlived, DeliverFails, RecordSent, RecordingThrows, RecordFailureReads,
         RecordFailureWrites, Crash
<1>2. \A m \in Messages : applied[m] <= applied'[m]
  <2>1. ASSUME NEW w \in Workers, DeliverFails(w)
        PROVE  \A m \in Messages : applied[m] <= applied'[m]
    BY <1>0, <2>1 DEF DeliverFails, RemoteEffect, IsDuplicate
  <2>2. CASE UNCHANGED applied
    BY <1>0, <2>2
  <2>3. UNCHANGED applied \/ \E w \in Workers : DeliverFails(w)
    BY DEF Next, Dispatch, vars, Append, RetryDeadLetter, BecomesDue, LeaseExpires,
           LeaseOutlived, RecordSent, RecordingThrows, RecordFailureReads,
           RecordFailureWrites, Crash
  <2> QED
    BY <2>1, <2>2, <2>3
<1>3. ASSUME NEW w \in Workers, worker'[w] # worker[w] PROVE WorkerMoved(w)
  <2>1. \/ DeliverFails(w) \/ RecordSent(w) \/ RecordingThrows(w)
        \/ RecordFailureReads(w) \/ RecordFailureWrites(w) \/ Crash(w)
    <3>1. PICK v \in Workers : \/ DeliverFails(v) \/ RecordSent(v) \/ RecordingThrows(v)
                               \/ RecordFailureReads(v) \/ RecordFailureWrites(v) \/ Crash(v)
      BY <1>3 DEF Next, Dispatch, vars, Append, RetryDeadLetter, BecomesDue, LeaseExpires,
           LeaseOutlived
    <3>2. \A u \in Workers \ {v} : worker'[u] = worker[u]
      BY <1>0, <3>1 DEF DeliverFails, RecordSent, RecordingThrows, RecordFailureReads,
           RecordFailureWrites, Crash
    <3> QED
      BY <1>3, <3>1, <3>2
  <2>2. CASE DeliverFails(w) \/ RecordingThrows(w)
    <3>1. /\ \/ worker' = [worker EXCEPT ![w] = [@ EXCEPT !.step = "fail"]]
             \/ worker' = [worker EXCEPT ![w] = [@ EXCEPT !.step = "fail", !.counted = 0]]
          /\ worker[w].step # "idle" /\ worker[w] \in Locals
      BY <1>0, <2>2 DEF DeliverFails, RecordingThrows, WorkerState
    <3> QED
      BY <1>0, <3>1 DEF WorkerMoved, Locals
  <2>3. CASE RecordFailureReads(w)
    <3>1. PICK verdict \in {"retry_wait", "dead_letter"} :
            worker' = [worker EXCEPT ![w] =
              IF HoldsLease(w, worker[w].msg)
              THEN [@ EXCEPT !.step = "failing", !.verdict = verdict]
              ELSE IdleWorker]
      BY <2>3 DEF RecordFailureReads
    <3>2. worker[w].step = "fail" /\ worker[w] \in Locals
      BY <1>0, <2>3 DEF RecordFailureReads, WorkerState
    <3> QED
      BY <1>0, <3>1, <3>2 DEF WorkerMoved, Locals, IdleWorker
  <2>4. CASE RecordSent(w) \/ RecordFailureWrites(w) \/ Crash(w)
    BY <1>0, <2>4 DEF RecordSent, RecordFailureWrites, Crash, WorkerMoved, IdleWorker
  <2> QED
    BY <2>1, <2>2, <2>3, <2>4
<1>4. \A w \in Workers : WorkerMoved(w)
  BY <1>3 DEF WorkerMoved
<1> QED
  BY <1>1, <1>2, <1>4

LEMMA EvidenceStep == IInv /\ Evidence /\ [Next]_vars => Evidence'
<1> SUFFICES ASSUME IInv, Evidence, [Next]_vars PROVE Evidence'
  OBVIOUS
<1>0. /\ TypeOK /\ LeaseFence /\ EffectKnown
      /\ TypeOK'
      /\ \A m \in Messages : RowMoved(m)
  BY RowsMove, TypeStep DEF IInv, Evidence
<1>a. AbsentIsNew'
  BY <1>0 DEF RowMoved, AbsentIsNew
<1>b. /\ \A m \in Messages : /\ row[m].attempt \in Nat /\ row'[m].attempt \in Nat
                             /\ applied[m] \in Nat /\ applied'[m] \in Nat
      /\ \A w \in Workers : /\ worker[w].attempt \in Nat /\ worker'[w].attempt \in Nat
                            /\ worker[w].step # "idle" => worker[w].msg \in Messages
      /\ \A r \in receipts : r.msg \in Messages /\ r.attempt \in Nat
  BY <1>0 DEF TypeOK, Row, WorkerState, Locals, Receipt
<1>1. CASE /\ \A w \in Workers : WorkerMoved(w)
           /\ UNCHANGED receipts
           /\ \A m \in Messages : applied[m] <= applied'[m]
  <2>1. ReceiptsAreEvidence'
    <3>1. \A r \in receipts : /\ applied'[r.msg] > 0
                              /\ r.attempt <= row'[r.msg].attempt
      BY <1>0, <1>1, <1>b DEF Evidence, ReceiptsAreEvidence, RowMoved
    <3> QED
      BY <1>1, <3>1 DEF Evidence, ReceiptsAreEvidence
  <2>2. NotAhead'
    BY <1>0, <1>1, <1>b DEF Evidence, NotAhead, RowMoved, WorkerMoved
  <2>3. \A w \in Workers :
          worker'[w].step \in {"receipt", "storing"} => worker'[w] = worker[w]
    BY <1>1 DEF WorkerMoved
  <2>4. FreshIsFirst'
    BY <1>1, <2>3 DEF Evidence, FreshIsFirst, CausedIt
  <2>5. CountedLast'
    BY <1>1, <2>3 DEF Evidence, CountedLast, CausedIt
  <2> QED
    BY <1>a, <2>1, <2>2, <2>4, <2>5 DEF Evidence
<1>2. ASSUME NEW w \in Workers, ClaimNext(w) PROVE Evidence'
  <2>1. PICK m \in Messages :
          /\ row' = [row EXCEPT ![m] =
               [@ EXCEPT !.status = "dispatching", !.lockedBy = w, !.lease = "held",
                         !.attempt = row[m].attempt + 1]]
          /\ worker' = [worker EXCEPT ![w] =
               [IdleWorker EXCEPT !.step = "deliver", !.msg = m,
                                  !.attempt = row[m].attempt + 1]]
    BY <1>2 DEF ClaimNext
  <2>2. /\ row'[m].attempt = row[m].attempt + 1
        /\ \A v \in Workers \ {w} : worker'[v] = worker[v]
        /\ worker'[w].step = "deliver" /\ worker'[w].msg = m
        /\ worker'[w].attempt = row[m].attempt + 1
    BY <1>0, <2>1 DEF TypeOK, Row, IdleWorker
  <2>3. UNCHANGED <<receipts, applied>>
    BY <1>2 DEF ClaimNext
  <2>4. ReceiptsAreEvidence'
    <3>1. \A r \in receipts : r.attempt <= row'[r.msg].attempt
      BY <1>0, <1>b DEF Evidence, ReceiptsAreEvidence, RowMoved
    <3> QED
      BY <2>3, <3>1 DEF Evidence, ReceiptsAreEvidence
  <2>5. NotAhead'
    BY <1>0, <1>b, <2>2 DEF Evidence, NotAhead, RowMoved
  <2>6. FreshIsFirst' /\ CountedLast'
    BY <2>2, <2>3 DEF Evidence, FreshIsFirst, CountedLast, CausedIt
  <2> QED
    BY <1>a, <2>4, <2>5, <2>6 DEF Evidence
<1>3. ASSUME NEW w \in Workers, DeliverSucceeds(w) PROVE Evidence'
  <2> DEFINE m == worker[w].msg
  <2>1. m \in Messages /\ worker[w].step = "deliver" /\ UNCHANGED <<row, receipts>>
    BY <1>3, <1>b DEF DeliverSucceeds
  <2>2. applied' = [applied EXCEPT ![m] = IF applied[m] > 0 THEN @ ELSE @ + 1]
    BY <1>3 DEF DeliverSucceeds, RemoteEffect, IsDuplicate
  <2>3. PICK kind \in ReceiptKinds, effect \in {"fresh", "duplicate"} :
          /\ effect = IF applied[m] > 0 THEN "duplicate" ELSE "fresh"
          /\ worker' = [worker EXCEPT ![w] =
               [@ EXCEPT !.step = AfterDelivery(kind), !.kind = kind, !.effect = effect]]
    BY <1>3 DEF DeliverSucceeds, IsDuplicate
  <2>4. /\ \A v \in Workers \ {w} : worker'[v] = worker[v]
        /\ worker'[w].msg = m /\ worker'[w].attempt = worker[w].attempt
        /\ worker'[w].effect = effect /\ worker'[w].step # "storing"
    <3>1. worker[w] \in Locals
      BY <1>0 DEF TypeOK, WorkerState
    <3>2. AfterDelivery(kind) # "storing"
      BY DEF AfterDelivery
    <3> QED
      BY <1>0, <2>3, <3>1, <3>2 DEF TypeOK, Locals
  <2>5. \A n \in Messages : applied[n] <= applied'[n]
    BY <1>0, <2>2 DEF TypeOK
  <2>6. ReceiptsAreEvidence'
    <3>1. \A r \in receipts : applied'[r.msg] > 0
      BY <1>b, <2>5 DEF Evidence, ReceiptsAreEvidence
    <3> QED
      BY <2>1, <3>1 DEF Evidence, ReceiptsAreEvidence
  <2>7. NotAhead'
    BY <2>1, <2>4 DEF Evidence, NotAhead
  <2>8. FreshIsFirst'
    <3>1. effect = "fresh" => \A r \in receipts : r.msg # m
      BY <2>3 DEF Evidence, ReceiptsAreEvidence
    <3> QED
      BY <2>1, <2>4, <3>1 DEF Evidence, FreshIsFirst, CausedIt
  <2>9. CountedLast'
    <3>1. \A v \in Workers : worker'[v].step = "storing" => v # w /\ worker'[v] = worker[v]
      BY <2>4
    <3>2. effect = "fresh" => \A v \in Workers : worker[v].step = "storing" => worker[v].msg # m
      <4>1. ASSUME NEW v \in Workers, worker[v].step = "storing", worker[v].msg = m
            PROVE  applied[m] = 1
        BY <1>0, <4>1 DEF EffectKnown
      <4>2. effect = "fresh" => ~(applied[m] > 0)
        BY <2>3
      <4> HIDE DEF m
      <4> QED
        BY <4>1, <4>2
    <3>3. \A v \in Workers : v # w /\ CausedIt(v)' => CausedIt(v) /\ worker'[v] = worker[v]
      BY <2>4 DEF CausedIt
    <3>4. CausedIt(w)' => effect = "fresh"
      BY <2>4 DEF CausedIt
    <3> QED
      BY <2>1, <2>4, <3>1, <3>2, <3>3, <3>4 DEF Evidence, CountedLast
  <2> QED
    BY <1>a, <2>6, <2>7, <2>8, <2>9 DEF Evidence
<1>4. ASSUME NEW w \in Workers, RecordReceiptReads(w) PROVE Evidence'
  <2> DEFINE m == worker[w].msg
             a == row[m].attempt
  <2>1. /\ m \in Messages /\ worker[w].step = "receipt" /\ a \in Nat
        /\ UNCHANGED <<row, applied, receipts>>
    BY <1>4, <1>b DEF RecordReceiptReads
  <2>2. /\ \A v \in Workers \ {w} : worker'[v] = worker[v]
        /\ worker'[w].msg = m /\ worker'[w].attempt = worker[w].attempt
        /\ worker'[w].effect = worker[w].effect
        /\ \/ worker'[w].step = "confirm"
           \/ worker'[w].step = "storing" /\ HoldsLease(w, m) /\ worker'[w].counted = a
    <3>1. worker[w] \in Locals /\ worker \in [Workers -> WorkerState]
      BY <1>0 DEF TypeOK, WorkerState
    <3>2. worker' = [worker EXCEPT ![w] =
                       IF HoldsLease(w, m) /\ worker[w].kind = "match"
                       THEN [@ EXCEPT !.step = "storing", !.counted = a]
                       ELSE [@ EXCEPT !.step = "confirm"]]
      BY <1>4 DEF RecordReceiptReads
    <3> HIDE DEF a, m
    <3>3. \A v \in Workers \ {w} : worker'[v] = worker[v]
      BY <3>1, <3>2
    <3>4. CASE HoldsLease(w, m) /\ worker[w].kind = "match"
      <4>1. worker'[w] = [worker[w] EXCEPT !.step = "storing", !.counted = a]
        BY <3>1, <3>2, <3>4
      <4> QED
        BY <3>1, <3>3, <3>4, <4>1 DEF Locals, m
    <3>5. CASE ~(HoldsLease(w, m) /\ worker[w].kind = "match")
      <4>1. worker'[w] = [worker[w] EXCEPT !.step = "confirm"]
        BY <3>1, <3>2, <3>5
      <4> QED
        BY <3>1, <3>3, <4>1 DEF Locals, m
    <3> QED
      BY <3>4, <3>5
  <2>3. ReceiptsAreEvidence' /\ NotAhead'
    BY <2>1, <2>2 DEF Evidence, ReceiptsAreEvidence, NotAhead
  <2>4. \A v \in Workers : CausedIt(v)' => CausedIt(v)
    BY <2>1, <2>2 DEF CausedIt
  <2>5. FreshIsFirst'
    BY <2>1, <2>2, <2>4 DEF Evidence, FreshIsFirst
  <2>6. CountedLast'
    <3> SUFFICES ASSUME NEW u \in Workers, worker'[u].step = "storing"
                 PROVE  /\ worker'[u].counted = worker'[u].attempt
                        /\ \A r \in receipts : r.msg = worker'[u].msg /\ r.effect = "fresh" =>
                             r.attempt <= worker'[u].counted
                        /\ \A v \in Workers : CausedIt(v) /\ worker[v].msg = worker'[u].msg =>
                             worker[v].attempt <= worker'[u].counted
      BY <2>1, <2>2, <2>4 DEF CountedLast
    <3>1. CASE u # w
      BY <2>2, <3>1 DEF Evidence, CountedLast
    <3>2. CASE u = w
      <4>1. worker'[w].counted = a /\ worker[w].attempt = a
        BY <1>0, <2>1, <2>2, <3>2 DEF LeaseFence
      <4>2. \A r \in receipts : r.msg = m => r.attempt <= a
        BY DEF Evidence, ReceiptsAreEvidence
      <4>3. \A v \in Workers : CausedIt(v) /\ worker[v].msg = m => worker[v].attempt <= a
        BY DEF Evidence, NotAhead, CausedIt
      <4> HIDE DEF a, m
      <4> QED
        BY <2>2, <3>2, <4>1, <4>2, <4>3
    <3> QED
      BY <3>1, <3>2
  <2> QED
    BY <1>a, <2>3, <2>5, <2>6 DEF Evidence
<1>5. ASSUME NEW w \in Workers, RecordReceiptWrites(w) PROVE Evidence'
  <2> DEFINE m == worker[w].msg
             a == worker[w].counted
             new == [msg |-> m, attempt |-> a, effect |-> worker[w].effect]
  <2>1. m \in Messages /\ worker[w].step = "storing" /\ UNCHANGED <<row, applied>>
    BY <1>5, <1>b DEF RecordReceiptWrites
  <2>2. /\ \A v \in Workers \ {w} : worker'[v] = worker[v]
        /\ worker'[w].msg = m /\ worker'[w].attempt = worker[w].attempt
        /\ worker'[w].step = "confirm"
    <3>1. worker[w] \in Locals
      BY <1>0 DEF TypeOK, WorkerState
    <3> QED
      BY <1>0, <1>5, <3>1 DEF RecordReceiptWrites, TypeOK, Locals
  <2>3. NotAhead'
    BY <2>1, <2>2 DEF Evidence, NotAhead
  <2>4. \A v \in Workers : CausedIt(v)' => v # w /\ CausedIt(v) /\ worker'[v] = worker[v]
    BY <2>2 DEF CausedIt
  <2>5. /\ worker[w].attempt = a /\ applied[m] > 0 /\ a \in Nat /\ a <= row[m].attempt
        /\ \A r \in receipts : r.msg = m /\ r.effect = "fresh" => r.attempt <= a
        /\ \A v \in Workers : CausedIt(v) /\ worker[v].msg = m => worker[v].attempt <= a
    BY <1>0, <1>b, <2>1 DEF EffectKnown, Evidence, NotAhead, CountedLast
  <2>6. CASE UNCHANGED receipts
    <3>1. FreshIsFirst' /\ CountedLast'
      BY <2>2, <2>4, <2>6 DEF Evidence, FreshIsFirst, CountedLast
    <3> QED
      BY <1>a, <2>1, <2>3, <2>6, <3>1 DEF Evidence, ReceiptsAreEvidence
  <2>7. CASE receipts' # receipts
    <3>1. /\ receipts' = receipts \cup {new}
          /\ \A r \in receipts : r.msg = m => r.attempt # a
      BY <1>5, <2>7 DEF RecordReceiptWrites
    <3>2. new.msg = m /\ new.attempt = a /\ new.effect = worker[w].effect
      OBVIOUS
    <3>3. \A r \in receipts : r.msg = m =>
            /\ r.attempt # a
            /\ r.effect = "fresh" => r.attempt < a
            /\ new.effect = "fresh" => a < r.attempt
      <4> SUFFICES ASSUME NEW r \in receipts, r.msg = m
                   PROVE  /\ r.attempt # a
                          /\ r.effect = "fresh" => r.attempt < a
                          /\ new.effect = "fresh" => a < r.attempt
        OBVIOUS
      <4>1. r.attempt # a /\ r.attempt \in Nat
        BY <1>b, <3>1
      <4>2. worker[w].effect = "fresh" => a <= r.attempt
        BY <2>1, <2>5 DEF Evidence, FreshIsFirst, CausedIt
      <4>3. r.effect = "fresh" => r.attempt <= a
        BY <2>5
      <4> HIDE DEF a, new
      <4> QED
        BY <2>5, <3>2, <4>1, <4>2, <4>3
    <3> HIDE DEF new, a, m
    <3>4. ReceiptsAreEvidence'
      <4>1. \A r \in receipts' : applied'[r.msg] > 0 /\ r.attempt <= row'[r.msg].attempt
        BY <2>1, <2>5, <3>1, <3>2 DEF Evidence, ReceiptsAreEvidence
      <4>2. ASSUME NEW r \in receipts', NEW s \in receipts', s.msg = r.msg, s # r
            PROVE  s.attempt # r.attempt /\ (r.effect = "fresh" => r.attempt < s.attempt)
        <5>1. CASE r \in receipts /\ s \in receipts
          BY <4>2, <5>1 DEF Evidence, ReceiptsAreEvidence
        <5>2. CASE r = new /\ s \in receipts
          BY <3>2, <3>3, <4>2, <5>2
        <5>3. CASE r \in receipts /\ s = new
          BY <3>2, <3>3, <4>2, <5>3
        <5> QED
          BY <3>1, <4>2, <5>1, <5>2, <5>3
      <4> QED
        BY <4>1, <4>2 DEF ReceiptsAreEvidence
    <3>5. FreshIsFirst'
      <4> SUFFICES ASSUME NEW v \in Workers, CausedIt(v), worker'[v] = worker[v],
                          NEW r \in receipts', r.msg = worker[v].msg
                   PROVE  worker[v].attempt <= r.attempt
        BY <2>4 DEF FreshIsFirst
      <4>1. CASE r \in receipts
        BY <4>1 DEF Evidence, FreshIsFirst
      <4>2. CASE r = new
        BY <2>5, <3>2, <4>2
      <4> QED
        BY <3>1, <4>1, <4>2
    <3>6. CountedLast'
      <4> SUFFICES ASSUME NEW u \in Workers, worker'[u].step = "storing"
                   PROVE  /\ worker'[u].counted = worker'[u].attempt
                          /\ \A r \in receipts' :
                               r.msg = worker'[u].msg /\ r.effect = "fresh" =>
                                 r.attempt <= worker'[u].counted
                          /\ \A v \in Workers :
                               CausedIt(v)' /\ worker'[v].msg = worker'[u].msg =>
                                 worker'[v].attempt <= worker'[u].counted
        BY DEF CountedLast
      <4>1. u # w /\ worker'[u] = worker[u]
        BY <2>2
      <4>2. new.effect = "fresh" /\ worker[u].msg = m => a <= worker[u].counted
        BY <2>1, <2>5, <3>2, <4>1 DEF Evidence, CountedLast, CausedIt, m
      <4> QED
        BY <2>4, <3>1, <3>2, <4>1, <4>2 DEF Evidence, CountedLast
    <3> QED
      BY <1>a, <2>3, <3>4, <3>5, <3>6 DEF Evidence
  <2> QED
    BY <2>6, <2>7
<1> QED
  BY <1>0, <1>1, <1>2, <1>3, <1>4, <1>5, WorkersMove

\* With an adapter that always answers with a receipt for its key: a worker that
\* goes on to confirm has stored its receipt, or has lost the lease.
ReceiptStored ==
    ReceiptKinds = {"match"} =>
      \A w \in Workers :
        /\ worker[w].step = "receipt" => worker[w].kind = "match"
        /\ worker[w].step = "confirm" /\ HoldsLease(w, worker[w].msg) =>
             \E r \in receipts : /\ r.msg = worker[w].msg
                                 /\ r.attempt = row[worker[w].msg].attempt

LEMMA StoredInit == Init => ReceiptStored /\ SentHasReceipt
BY DEF Init, ReceiptStored, SentHasReceipt, IdleWorker, NoRow

LEMMA StoredStep ==
    IInv /\ Evidence /\ ReceiptStored /\ SentHasReceipt /\ [Next]_vars
      => ReceiptStored' /\ SentHasReceipt'
<1> SUFFICES ASSUME IInv, Evidence, ReceiptStored, SentHasReceipt, [Next]_vars,
                    ReceiptKinds = {"match"}
             PROVE  ReceiptStored' /\ SentHasReceipt'
  BY DEF ReceiptStored, SentHasReceipt
<1>0. TypeOK /\ \A m \in Messages : RowMoved(m)
  BY RowsMove DEF IInv, Evidence
<1>1. receipts \subseteq receipts'
  <2>1. ASSUME NEW w \in Workers, \/ ClaimNext(w) \/ DeliverSucceeds(w)
                                 \/ RecordReceiptReads(w) \/ RecordReceiptWrites(w)
        PROVE  receipts \subseteq receipts'
    BY <2>1 DEF ClaimNext, DeliverSucceeds, RecordReceiptReads, RecordReceiptWrites
  <2> QED
    BY <1>0, <2>1, WorkersMove
<1>2. ASSUME NEW m \in Messages, row'[m].status = "sent", row[m].status # "sent"
      PROVE  \E r \in receipts : r.msg = m /\ r.attempt = row'[m].attempt
  <2>1. PICK w \in Workers : RecordSent(w)
    <3>1. ASSUME NEW n \in Messages,
                 Append(n) \/ RetryDeadLetter(n) \/ BecomesDue(n) \/ LeaseExpires(n)
                   \/ LeaseOutlived(n)
          PROVE  FALSE
      <4>1. CASE Append(n)
        <5>1. PICK available \in {"now", "later"} :
                row' = [row EXCEPT ![n] = [NoRow EXCEPT !.status = "pending",
                                                        !.available = available]]
          BY <4>1 DEF Append
        <5> QED
          BY <1>0, <1>2, <5>1 DEF NoRow, TypeOK
      <4>2. CASE RetryDeadLetter(n)
        BY <1>0, <1>2, <4>2 DEF RetryDeadLetter, TypeOK, Row
      <4>3. CASE BecomesDue(n) \/ LeaseExpires(n) \/ LeaseOutlived(n)
        BY <1>0, <1>2, <4>3 DEF BecomesDue, LeaseExpires, LeaseOutlived, TypeOK, Row
      <4> QED
        BY <3>1, <4>1, <4>2, <4>3
    <3>2. ASSUME NEW w \in Workers, ClaimNext(w) PROVE FALSE
      <4>1. PICK n \in Messages :
              row' = [row EXCEPT ![n] =
                [@ EXCEPT !.status = "dispatching", !.lockedBy = w, !.lease = "held",
                          !.attempt = row[n].attempt + 1]]
        BY <3>2 DEF ClaimNext
      <4> QED
        BY <1>0, <1>2, <4>1 DEF TypeOK, Row
    <3>3. ASSUME NEW w \in Workers, RecordFailureWrites(w) PROVE FALSE
      <4> DEFINE v == worker[w].verdict
                 n == worker[w].msg
      <4>1. v # "sent"
        BY <1>0 DEF TypeOK, WorkerState, Locals
      <4>2. row' = row \/ row' = [row EXCEPT ![n] =
                   [@ EXCEPT !.status = v, !.available = "later",
                             !.lockedBy = Null, !.lease = "none"]]
        BY <3>3 DEF RecordFailureWrites, FailureStatus
      <4> HIDE DEF v, n
      <4> QED
        BY <1>0, <1>2, <4>1, <4>2 DEF TypeOK, Row
    <3> QED
      BY <1>2, <3>1, <3>2, <3>3
         DEF Next, Dispatch, vars, DeliverSucceeds, DeliverFails, RecordReceiptReads,
             RecordReceiptWrites, RecordingThrows, RecordFailureReads, Crash
  <2>2. /\ worker[w].step = "confirm" /\ worker[w].msg = m /\ HoldsLease(w, m)
        /\ row'[m].attempt = row[m].attempt
    <3> DEFINE n == worker[w].msg
    <3>1. worker[w].step = "confirm" /\ HoldsLease(w, n)
          /\ row' = [row EXCEPT ![n] =
               [@ EXCEPT !.status = "sent", !.lockedBy = Null, !.lease = "none"]]
      BY <1>2, <2>1 DEF RecordSent
    <3>2. n = m
      BY <1>0, <1>2, <3>1 DEF TypeOK
    <3> QED
      BY <1>0, <3>1, <3>2 DEF TypeOK, Row
  <2> QED
    BY <2>2 DEF ReceiptStored
<1>3. SentHasReceipt'
  BY <1>0, <1>1, <1>2 DEF SentHasReceipt, RowMoved
<1>4. ASSUME NEW w \in Workers, worker'[w].step = "receipt" PROVE worker'[w].kind = "match"
  <2>1. CASE WorkerMoved(w)
    BY <1>4, <2>1 DEF WorkerMoved, ReceiptStored
  <2>2. ASSUME NEW v \in Workers,
               ClaimNext(v) \/ RecordReceiptReads(v) \/ RecordReceiptWrites(v)
        PROVE  worker'[w].kind = "match"
    <3>1. worker'[w] = worker[w] \/ worker'[w].step \in {"deliver", "storing", "confirm"}
      <4>1. worker \in [Workers -> WorkerState] /\ worker[w] \in Locals
        BY <1>0 DEF TypeOK, WorkerState
      <4>2. CASE ClaimNext(v)
        <5>1. PICK n \in Messages :
                worker' = [worker EXCEPT ![v] =
                  [IdleWorker EXCEPT !.step = "deliver", !.msg = n,
                                     !.attempt = row[n].attempt + 1]]
          BY <4>2 DEF ClaimNext
        <5> QED
          BY <4>1, <5>1 DEF IdleWorker
      <4>3. CASE RecordReceiptReads(v)
        <5>1. PICK a : worker' = [worker EXCEPT ![v] =
                         IF HoldsLease(v, worker[v].msg) /\ worker[v].kind = "match"
                         THEN [@ EXCEPT !.step = "storing", !.counted = a]
                         ELSE [@ EXCEPT !.step = "confirm"]]
          BY <4>3 DEF RecordReceiptReads
        <5> QED
          BY <4>1, <5>1 DEF Locals
      <4>4. CASE RecordReceiptWrites(v)
        <5>1. worker' = [worker EXCEPT ![v] = [@ EXCEPT !.step = "confirm", !.counted = 0]]
          BY <4>4 DEF RecordReceiptWrites
        <5> QED
          BY <4>1, <5>1 DEF Locals
      <4> QED
        BY <2>2, <4>2, <4>3, <4>4
    <3> QED
      BY <1>4, <3>1 DEF ReceiptStored
  <2>3. ASSUME NEW v \in Workers, DeliverSucceeds(v) PROVE worker'[w].kind = "match"
    <3>1. PICK effect \in {"fresh", "duplicate"} :
            worker' = [worker EXCEPT ![v] =
              [@ EXCEPT !.step = AfterDelivery("match"), !.kind = "match", !.effect = effect]]
      BY <2>3 DEF DeliverSucceeds
    <3>2. worker'[w] = worker[w] \/ worker'[w].kind = "match"
      BY <1>0, <3>1 DEF TypeOK, WorkerState, Locals
    <3> QED
      BY <1>4, <3>2 DEF ReceiptStored
  <2> QED
    BY <1>0, <2>1, <2>2, <2>3, WorkersMove
<1>5. ASSUME NEW w \in Workers, worker'[w].step = "confirm", HoldsLease(w, worker[w].msg)'
      PROVE  \E r \in receipts' : /\ r.msg = worker'[w].msg
                                  /\ r.attempt = row'[worker'[w].msg].attempt
  <2> DEFINE m == worker'[w].msg
  <2>1. CASE worker'[w] = worker[w] /\ HoldsLease(w, m) /\ row'[m].attempt = row[m].attempt
    BY <1>1, <1>5, <2>1 DEF ReceiptStored
  <2>2. CASE \E v \in Workers : ClaimNext(v)
    <3>1. PICK v \in Workers, n \in Messages :
            /\ worker[v].step = "idle"
            /\ row' = [row EXCEPT ![n] =
                 [@ EXCEPT !.status = "dispatching", !.lockedBy = v, !.lease = "held",
                           !.attempt = row[n].attempt + 1]]
            /\ worker' = [worker EXCEPT ![v] =
                 [IdleWorker EXCEPT !.step = "deliver", !.msg = n,
                                    !.attempt = row[n].attempt + 1]]
      BY <2>2 DEF ClaimNext
    <3>2. v # w /\ worker'[w] = worker[w] /\ m # n /\ m \in Messages
      BY <1>0, <1>5, <3>1 DEF TypeOK, Row, WorkerState, HoldsLease, IdleWorker
    <3> QED
      BY <1>0, <1>5, <2>1, <3>1, <3>2 DEF TypeOK, HoldsLease
  <2>3. CASE \E v \in Workers : DeliverSucceeds(v)
    <3>1. PICK v \in Workers : DeliverSucceeds(v)
      BY <2>3
    <3>2. UNCHANGED row /\ worker[v].step = "deliver"
      BY <3>1 DEF DeliverSucceeds
    <3>3. PICK effect \in {"fresh", "duplicate"} :
            worker' = [worker EXCEPT ![v] =
              [@ EXCEPT !.step = "receipt", !.kind = "match", !.effect = effect]]
      BY <3>1 DEF DeliverSucceeds, AfterDelivery
    <3>4. worker'[w] = worker[w]
      BY <1>0, <1>5, <3>3 DEF TypeOK, WorkerState, Locals
    <3> QED
      BY <1>5, <2>1, <3>2, <3>4 DEF HoldsLease
  <2>4. ASSUME NEW v \in Workers, RecordReceiptReads(v) \/ RecordReceiptWrites(v)
        PROVE  \E r \in receipts' : r.msg = m /\ r.attempt = row'[m].attempt
    <3>1. UNCHANGED row /\ \A u \in Workers \ {v} : worker'[u] = worker[u]
      BY <1>0, <2>4 DEF RecordReceiptReads, RecordReceiptWrites, TypeOK
    <3>2. CASE v # w
      BY <1>5, <2>1, <3>1, <3>2 DEF HoldsLease
    <3>3. worker[w] \in Locals /\ worker \in [Workers -> WorkerState]
      BY <1>0 DEF TypeOK, WorkerState
    <3>4. CASE v = w /\ RecordReceiptReads(w)
      <4>1. PICK a : worker' = [worker EXCEPT ![w] =
                       IF HoldsLease(w, worker[w].msg) /\ worker[w].kind = "match"
                       THEN [@ EXCEPT !.step = "storing", !.counted = a]
                       ELSE [@ EXCEPT !.step = "confirm"]]
        BY <3>4 DEF RecordReceiptReads
      <4>2. m = worker[w].msg
        BY <3>3, <4>1 DEF Locals
      <4>3. HoldsLease(w, worker[w].msg)
        BY <1>5, <3>1, <4>2 DEF HoldsLease
      <4>4. worker[w].step = "receipt" /\ worker[w].kind = "match"
        BY <3>4 DEF RecordReceiptReads, ReceiptStored
      <4>5. worker'[w].step = "storing"
        BY <3>3, <4>1, <4>3, <4>4 DEF Locals
      <4> QED
        BY <1>5, <4>5
    <3>5. CASE v = w /\ RecordReceiptWrites(w)
      <4> DEFINE n == worker[w].msg
                 a == worker[w].counted
                 new == [msg |-> n, attempt |-> a, effect |-> worker[w].effect]
      <4>1. worker' = [worker EXCEPT ![w] = [@ EXCEPT !.step = "confirm", !.counted = 0]]
            /\ worker[w].step = "storing"
        BY <3>5 DEF RecordReceiptWrites
      <4>2. m = n
        BY <3>3, <4>1 DEF Locals
      <4>3. HoldsLease(w, n)
        BY <1>5, <3>1, <4>2 DEF HoldsLease
      <4>4. row[n].attempt = a
        BY <4>1, <4>3 DEF IInv, LeaseFence, Evidence, CountedLast
      <4>5. receipts' = IF \A r \in receipts : <<r.msg, r.attempt>> # <<n, a>>
                        THEN receipts \cup {new} ELSE receipts
        BY <3>5 DEF RecordReceiptWrites
      <4>6. new.msg = n /\ new.attempt = a
        OBVIOUS
      <4> HIDE DEF new, a, n
      <4>7. \E r \in receipts' : r.msg = n /\ r.attempt = a
        BY <4>5, <4>6
      <4> QED
        BY <3>1, <4>2, <4>4, <4>7
    <3> QED
      BY <2>4, <3>2, <3>4, <3>5
  <2>5. CASE \A v \in Workers : WorkerMoved(v) /\ ~ClaimNext(v)
    <3>1. worker'[w] = worker[w] /\ m \in Messages
      BY <1>0, <1>5, <2>5 DEF WorkerMoved, TypeOK, WorkerState
    <3>2. ASSUME NEW n \in Messages,
                 Append(n) \/ RetryDeadLetter(n) \/ BecomesDue(n) \/ LeaseExpires(n)
                   \/ LeaseOutlived(n)
          PROVE  HoldsLease(w, m) /\ row'[m].attempt = row[m].attempt
      <4>1. CASE Append(n)
        <5>1. PICK available \in {"now", "later"} :
                row' = [row EXCEPT ![n] = [NoRow EXCEPT !.status = "pending",
                                                        !.available = available]]
          BY <4>1 DEF Append
        <5> QED
          BY <1>0, <1>5, <3>1, <5>1 DEF HoldsLease, NoRow, TypeOK
      <4>2. CASE RetryDeadLetter(n)
        BY <1>0, <1>5, <3>1, <4>2 DEF RetryDeadLetter, HoldsLease, TypeOK, Row
      <4>3. CASE BecomesDue(n) \/ LeaseExpires(n) \/ LeaseOutlived(n)
        BY <1>0, <1>5, <3>1, <4>3
           DEF BecomesDue, LeaseExpires, LeaseOutlived, HoldsLease, TypeOK, Row
      <4> QED
        BY <3>2, <4>1, <4>2, <4>3
    <3>3. ASSUME NEW v \in Workers, RecordSent(v) \/ RecordFailureWrites(v)
          PROVE  HoldsLease(w, m) /\ row'[m].attempt = row[m].attempt
      <4> DEFINE n == worker[v].msg
                 s == worker[v].verdict
      <4>1. s # "dispatching"
        BY <1>0 DEF TypeOK, WorkerState, Locals
      <4>2. \/ row' = row
            \/ row' = [row EXCEPT ![n] =
                 [@ EXCEPT !.status = "sent", !.lockedBy = Null, !.lease = "none"]]
            \/ row' = [row EXCEPT ![n] =
                 [@ EXCEPT !.status = s, !.available = "later",
                           !.lockedBy = Null, !.lease = "none"]]
        BY <3>3 DEF RecordSent, RecordFailureWrites, FailureStatus
      <4> HIDE DEF n, s
      <4>3. /\ row \in [Messages -> Row] /\ m \in Messages /\ row[m] \in Row
            /\ row'[m].status = "dispatching" /\ row'[m].lockedBy = w
        BY <1>0, <1>5, <3>1 DEF HoldsLease, TypeOK
      <4> HIDE DEF m
      <4>4. row'[m] = row[m]
        <5>1. CASE m = n
          BY <4>1, <4>2, <4>3, <5>1 DEF Row
        <5>2. CASE m # n
          BY <4>2, <4>3, <5>2
        <5> QED
          BY <5>1, <5>2
      <4> QED
        BY <4>3, <4>4 DEF HoldsLease
    <3>4. ASSUME UNCHANGED row
          PROVE  HoldsLease(w, m) /\ row'[m].attempt = row[m].attempt
      BY <1>5, <3>1, <3>4 DEF HoldsLease
    <3> HIDE DEF m
    <3>5. \/ \E n \in Messages :
               Append(n) \/ RetryDeadLetter(n) \/ BecomesDue(n) \/ LeaseExpires(n)
                 \/ LeaseOutlived(n)
          \/ \E v \in Workers : RecordSent(v) \/ RecordFailureWrites(v)
          \/ UNCHANGED row
      BY <2>5 DEF Next, Dispatch, vars, DeliverSucceeds, DeliverFails, RecordReceiptReads,
             RecordReceiptWrites, RecordingThrows, RecordFailureReads, Crash
    <3>6. HoldsLease(w, m) /\ row'[m].attempt = row[m].attempt
      BY <3>2, <3>3, <3>4, <3>5
    <3> QED
      BY <2>1, <3>1, <3>6
  <2> QED
    BY <1>0, <2>2, <2>3, <2>4, <2>5, WorkersMove
<1> QED
  BY <1>3, <1>4, <1>5 DEF ReceiptStored

\* The receipts of any number of rival, retried and restarted workers are true and,
\* where the adapter hands them out, complete.
THEOREM ReceiptTrailCorrect == Spec => []ReceiptTrail
<1>1. Evidence /\ SentHasReceipt => ReceiptTrail
  BY DEF Evidence, ReceiptTrail
<1> QED
  BY <1>1, IInvInit, IInvStep, EvidenceInit, EvidenceStep, StoredInit, StoredStep, PTL DEF Spec
=============================================================================
