------------------------------- MODULE Outbox -------------------------------
(***************************************************************************)
(* The transactional outbox: createOutboxRepository (packages/db/src/      *)
(* repositories.ts), the dispatcher that drives it (packages/queue/src/    *)
(* outbox-dispatcher.ts) and the mock remote system it delivers to         *)
(* (packages/adapters/src/mock-outbound.ts), for one tenant.               *)
(*                                                                         *)
(* A message is one row of outbox_messages, identified by its destination  *)
(* and idempotency key.  A worker is one dispatcher process with a worker  *)
(* id of its own; it runs one dispatchNext at a time, and every database   *)
(* call and the remote call of dispatchNext is a step of its own, because  *)
(* other workers, lease expiry and a crash can come between any two.       *)
(*                                                                         *)
(* Time is abstracted to the two comparisons claimNext makes with it:      *)
(*   available = "now"   -- availableAt <= now                             *)
(*   lease = "expired"   -- lockedAt < now - leaseDurationMs               *)
(* and each may come true at any moment.  Which claimable row comes first  *)
(* (the oldest that no other claim has locked) is left open.               *)
(***************************************************************************)
EXTENDS Naturals

CONSTANTS
    Messages,          \* (destination, idempotency key) pairs
    Workers,           \* worker ids
    Null,              \* SQL null
    MaxAttempts,       \* config.outboxMaxAttempts
    ReceiptKinds,      \* what deliver may return: no receipt, one that carries
                       \* the message's idempotency key, one that does not
    MaxFaults,         \* bound: crashes plus leases outlived by a live worker
    MaxManualRetries   \* bound: operator retries of dead letters

ASSUME MaxAttemptsAssumption == MaxAttempts \in Nat \ {0}
ASSUME BoundsAssumption == MaxFaults \in Nat /\ MaxManualRetries \in Nat
ASSUME ReceiptAssumption == ReceiptKinds \subseteq {"none", "match", "mismatch"}
ASSUME NullAssumption == Null \notin Workers /\ Null \notin Messages

VARIABLES
    row,       \* row[m]: the row of outbox_messages, status "absent" if none
    receipts,  \* the rows of outbox_delivery_receipts
    applied,   \* applied[m]: how often the remote system carried out m
    worker,    \* worker[w]: where w stands in dispatchNext, and its locals
    faults,    \* crashes and outlived leases so far
    retries    \* operator retries so far

vars == <<row, receipts, applied, worker, faults, retries>>

Statuses == {"absent", "pending", "dispatching", "retry_wait", "sent", "dead_letter"}
Steps == {"idle", "deliver", "receipt", "storing", "confirm", "fail", "failing"}

Row == [status : Statuses, attempt : Nat, available : {"now", "later"},
        lockedBy : Workers \cup {Null}, lease : {"none", "held", "expired"}]

\* A receipt says whether its call caused the effect or found it done already.
Receipt == [msg : Messages, attempt : Nat, effect : {"fresh", "duplicate"}]

\* The locals: the claim (msg, attempt), the receipt (kind, effect), the attempt count
\* that recordReceipt read and the status recordFailure decided to write.
Locals == [step : Steps, msg : Messages \cup {Null}, attempt : Nat,
           kind : {"none", "match", "mismatch"}, effect : {"fresh", "duplicate"},
           counted : Nat, verdict : {"none", "retry_wait", "dead_letter"}]

WorkerState == {s \in Locals : /\ s.step # "idle" <=> s.msg \in Messages
                               /\ s.step = "failing" => s.verdict # "none"}

NoRow == [status |-> "absent", attempt |-> 0, available |-> "later",
          lockedBy |-> Null, lease |-> "none"]

IdleWorker == [step |-> "idle", msg |-> Null, attempt |-> 0, kind |-> "none",
               effect |-> "fresh", counted |-> 0, verdict |-> "none"]

Init ==
    /\ row = [m \in Messages |-> NoRow]
    /\ receipts = {}
    /\ applied = [m \in Messages |-> 0]
    /\ worker = [w \in Workers |-> IdleWorker]
    /\ faults = 0
    /\ retries = 0

-----------------------------------------------------------------------------
(* Appending and claiming *)

\* append inserts the row of a new key, at once or for later.  A key that has a
\* row leaves the table as it is, whether the append is a duplicate or is
\* refused because the key belongs to another sync operation.
Append(m) ==
    /\ row[m].status = "absent"
    /\ \E available \in {"now", "later"} :
         row' = [row EXCEPT ![m] = [NoRow EXCEPT !.status = "pending",
                                                 !.available = available]]
    /\ UNCHANGED <<receipts, applied, worker, faults, retries>>

\* A reclaim that forgets expired leases.
ClaimableUnlocked(m) ==
    row[m].status \in {"pending", "retry_wait"} /\ row[m].available = "now"

Claimable(m) ==
    \/ row[m].status \in {"pending", "retry_wait"} /\ row[m].available = "now"
    \/ row[m].status = "dispatching" /\ row[m].lease = "expired"

\* Guards that check the status without the worker id, or update by id alone.
HoldsAnyLease(w, m) == row[m].status = "dispatching"
HoldsById(w, m) == worker[w].msg = m

\* What every outcome is recorded under: the status and the worker id.
HoldsLease(w, m) == row[m].status = "dispatching" /\ row[m].lockedBy = w

\* dispatchNext begins: claimNext leases a claimable row, if there is one.
ClaimNext(w) ==
    /\ worker[w].step = "idle"
    /\ \E m \in Messages :
         /\ Claimable(m)
         /\ row' = [row EXCEPT ![m] =
              [@ EXCEPT !.status = "dispatching", !.lockedBy = w, !.lease = "held",
                        !.attempt = row[m].attempt + 1]]
         /\ worker' = [worker EXCEPT ![w] =
              [IdleWorker EXCEPT !.step = "deliver", !.msg = m,
                                 !.attempt = row[m].attempt + 1]]
    /\ UNCHANGED <<receipts, applied, faults, retries>>

-----------------------------------------------------------------------------
(* The remote call *)

\* A remote system that does not recognise idempotency keys.
NeverDuplicate(m) == FALSE

\* The remote system knows the key.
IsDuplicate(m) == applied[m] > 0

\* The remote system carries out the message unless it already did.
RemoteEffect(m) ==
    applied' = [applied EXCEPT ![m] = IF IsDuplicate(m) THEN @ ELSE @ + 1]

\* A dispatcher that forgets the receipt.
StraightToConfirm(kind) == "confirm"

\* Without a receipt recordReceipt is skipped.
AfterDelivery(kind) == IF kind = "none" THEN "confirm" ELSE "receipt"

\* deliver resolves.
DeliverSucceeds(w) ==
    /\ worker[w].step = "deliver"
    /\ RemoteEffect(worker[w].msg)
    /\ \E kind \in ReceiptKinds :
         worker' = [worker EXCEPT ![w] =
           [@ EXCEPT !.step = AfterDelivery(kind), !.kind = kind,
                     !.effect = IF IsDuplicate(worker[w].msg) THEN "duplicate" ELSE "fresh"]]
    /\ UNCHANGED <<row, receipts, faults, retries>>

\* deliver rejects, before the remote system acted or after.
DeliverFails(w) ==
    /\ worker[w].step = "deliver"
    /\ RemoteEffect(worker[w].msg) \/ UNCHANGED applied
    /\ worker' = [worker EXCEPT ![w] = [@ EXCEPT !.step = "fail"]]
    /\ UNCHANGED <<row, receipts, faults, retries>>

-----------------------------------------------------------------------------
(* Recording the outcome *)

\* recordReceipt, select: the attempt count, for the lease holder and a receipt of its
\* own idempotency key.  dispatchNext goes on whatever recordReceipt returns.
RecordReceiptReads(w) ==
    LET m == worker[w].msg
    IN /\ worker[w].step = "receipt"
       /\ worker' = [worker EXCEPT ![w] =
            IF HoldsLease(w, m) /\ worker[w].kind = "match"
            THEN [@ EXCEPT !.step = "storing", !.counted = row[m].attempt]
            ELSE [@ EXCEPT !.step = "confirm"]]
       /\ UNCHANGED <<row, receipts, applied, faults, retries>>

\* recordReceipt, insert: at most one receipt per attempt.
RecordReceiptWrites(w) ==
    LET m == worker[w].msg
        a == worker[w].counted
    IN /\ worker[w].step = "storing"
       /\ receipts' = IF \A r \in receipts : <<r.msg, r.attempt>> # <<m, a>>
                      THEN receipts \cup
                             {[msg |-> m, attempt |-> a, effect |-> worker[w].effect]}
                      ELSE receipts
       /\ worker' = [worker EXCEPT ![w] = [@ EXCEPT !.step = "confirm", !.counted = 0]]
       /\ UNCHANGED <<row, applied, faults, retries>>

\* recordSent, and dispatchNext returns "sent" or "lease_lost".
RecordSent(w) ==
    LET m == worker[w].msg
    IN /\ worker[w].step = "confirm"
       /\ row' = IF HoldsLease(w, m)
                 THEN [row EXCEPT ![m] =
                        [@ EXCEPT !.status = "sent", !.lockedBy = Null, !.lease = "none"]]
                 ELSE row
       /\ worker' = [worker EXCEPT ![w] = IdleWorker]
       /\ UNCHANGED <<receipts, applied, faults, retries>>

\* recordReceipt or recordSent throws: the catch block treats it as a failed
\* delivery although the remote system has acted.
RecordingThrows(w) ==
    /\ worker[w].step \in {"receipt", "storing", "confirm"}
    /\ worker' = [worker EXCEPT ![w] = [@ EXCEPT !.step = "fail", !.counted = 0]]
    /\ UNCHANGED <<row, receipts, applied, faults, retries>>

\* One attempt too many.
OverMaxAttempts(m) == row[m].attempt > MaxAttempts

AttemptsExhausted(m) == row[m].attempt >= MaxAttempts

\* recordFailure, first statement: read the attempt count and decide.
RecordFailureReads(w) ==
    LET m == worker[w].msg
    IN /\ worker[w].step = "fail"
       /\ worker' = [worker EXCEPT ![w] =
            IF HoldsLease(w, m)
            THEN [@ EXCEPT !.step = "failing",
                           !.verdict = IF AttemptsExhausted(m)
                                       THEN "dead_letter" ELSE "retry_wait"]
            ELSE IdleWorker]
       /\ UNCHANGED <<row, receipts, applied, faults, retries>>

FailureStatus(w) == worker[w].verdict

\* recordFailure, second statement: a separate update under the same guard.
RecordFailureWrites(w) ==
    LET m == worker[w].msg
    IN /\ worker[w].step = "failing"
       /\ row' = IF HoldsLease(w, m)
                 THEN [row EXCEPT ![m] =
                        [@ EXCEPT !.status = FailureStatus(w), !.available = "later",
                                  !.lockedBy = Null, !.lease = "none"]]
                 ELSE row
       /\ worker' = [worker EXCEPT ![w] = IdleWorker]
       /\ UNCHANGED <<receipts, applied, faults, retries>>

\* retryDeadLetter: the attempt count stays what it was.
RetryDeadLetter(m) ==
    /\ row[m].status = "dead_letter"
    /\ retries < MaxManualRetries
    /\ \E available \in {"now", "later"} :
         row' = [row EXCEPT ![m] =
           [@ EXCEPT !.status = "pending", !.available = available,
                     !.lockedBy = Null, !.lease = "none"]]
    /\ retries' = retries + 1
    /\ UNCHANGED <<receipts, applied, worker, faults>>

-----------------------------------------------------------------------------
(* Time and failures *)

BecomesDue(m) ==
    /\ row[m].status \in {"pending", "retry_wait"}
    /\ row[m].available = "later"
    /\ row' = [row EXCEPT ![m] = [@ EXCEPT !.available = "now"]]
    /\ UNCHANGED <<receipts, applied, worker, faults, retries>>

\* The worker that leased m is still inside the dispatchNext that did.
Attended(m) == \E w \in Workers : HoldsLease(w, m) /\ worker[w].msg = m

\* The lease of a row nobody works on any more runs out.
LeaseExpires(m) ==
    /\ row[m].lease = "held"
    /\ ~Attended(m)
    /\ row' = [row EXCEPT ![m] = [@ EXCEPT !.lease = "expired"]]
    /\ UNCHANGED <<receipts, applied, worker, faults, retries>>

\* A slow worker is outlived by its own lease: dispatchNext never renews it.
LeaseOutlived(m) ==
    /\ row[m].lease = "held"
    /\ Attended(m)
    /\ faults < MaxFaults
    /\ row' = [row EXCEPT ![m] = [@ EXCEPT !.lease = "expired"]]
    /\ faults' = faults + 1
    /\ UNCHANGED <<receipts, applied, worker, retries>>

\* The process of w dies anywhere in dispatchNext and restarts; a database
\* error in recordFailure, which nothing catches, ends dispatchNext the same way.
Crash(w) ==
    /\ worker[w].step # "idle"
    /\ faults < MaxFaults
    /\ worker' = [worker EXCEPT ![w] = IdleWorker]
    /\ faults' = faults + 1
    /\ UNCHANGED <<row, receipts, applied, retries>>

-----------------------------------------------------------------------------
Dispatch(w) ==
    \/ ClaimNext(w)
    \/ DeliverSucceeds(w) \/ DeliverFails(w)
    \/ RecordReceiptReads(w) \/ RecordReceiptWrites(w) \/ RecordSent(w) \/ RecordingThrows(w)
    \/ RecordFailureReads(w) \/ RecordFailureWrites(w)

Next ==
    \/ \E m \in Messages :
         Append(m) \/ RetryDeadLetter(m) \/ BecomesDue(m) \/ LeaseExpires(m) \/ LeaseOutlived(m)
    \/ \E w \in Workers : Dispatch(w) \/ Crash(w)

Spec == Init /\ [][Next]_vars

\* Time passes, and every worker keeps calling dispatchNext and is scheduled.
\* Nothing obliges anyone to append, to crash or to retry a dead letter.
Fairness ==
    /\ \A w \in Workers : WF_vars(Dispatch(w))
    /\ \A m \in Messages : WF_vars(BecomesDue(m)) /\ WF_vars(LeaseExpires(m))

FairSpec == Spec /\ Fairness

-----------------------------------------------------------------------------
(* Properties *)

\* Every variable holds what the columns and locals it models can hold.
TypeOK ==
    /\ row \in [Messages -> Row]
    /\ receipts \subseteq Receipt
    /\ applied \in [Messages -> Nat]
    /\ worker \in [Workers -> WorkerState]
    /\ faults \in Nat
    /\ retries \in Nat

\* The guard on status and worker id (recordSent, recordReceipt, recordFailure)
\* fences off every claim but the latest: a worker that passes it is recording
\* the outcome of the very attempt the row is at, although the guard does not
\* look at the attempt.
LeaseFence ==
    \A w \in Workers :
      worker[w].step # "idle" /\ HoldsLease(w, worker[w].msg)
        => row[worker[w].msg].attempt = worker[w].attempt

\* A message is marked sent only after its remote effect, which happened once:
\* duplicate deliveries by rival, retried and restarted workers add none.
SentAfterOneEffect ==
    \A m \in Messages :
      /\ applied[m] <= 1
      /\ row[m].status = "sent" => applied[m] = 1

\* The receipts kept for a message tell its delivery history truthfully: one
\* per attempt, none from the future, each after the effect, and only the
\* earliest may claim that its call was the one that caused the effect.
ReceiptsAreEvidence ==
    \A r \in receipts :
      /\ applied[r.msg] > 0
      /\ r.attempt <= row[r.msg].attempt
      /\ \A s \in receipts :
           s.msg = r.msg /\ s # r =>
             s.attempt # r.attempt /\ (r.effect = "fresh" => r.attempt < s.attempt)

\* With an adapter that answers every delivery with a receipt for its key, no
\* message is marked sent without the receipt of the attempt that sent it:
\* dispatchNext ignores a receipt it could not store, but then the lease is
\* lost too and recordSent refuses.
SentHasReceipt ==
    ReceiptKinds = {"match"} =>
      \A m \in Messages :
        row[m].status = "sent" =>
          \E r \in receipts : r.msg = m /\ r.attempt = row[m].attempt

\* The receipts are the audit trail of the outbox: true, and complete.
ReceiptTrail == ReceiptsAreEvidence /\ SentHasReceipt

\* Attempts beyond outboxMaxAttempts are exactly those the failure path never
\* saw: each one is paid for by a crash, an outlived lease or an operator.
AttemptsPaidFor ==
    \A m \in Messages : row[m].attempt <= MaxAttempts + faults + retries

\* The row as its sender sees it.
Phase(r) ==
    CASE r.status = "absent" -> "absent"
      [] r.status \in {"pending", "dispatching", "retry_wait"} -> "queued"
      [] r.status = "sent" -> "sent"
      [] r.status = "dead_letter" -> "dead"

Promise == INSTANCE Delivery WITH phase <- [m \in Messages |-> Phase(row[m])]

\* The outbox keeps what Delivery promises, step by step: no interleaving of
\* workers, expiries and crashes revokes "sent", sends before the effect, or
\* resurrects a dead letter without an operator.
ImplementsDelivery == Promise!DSpec

\* Every appended message is eventually sent or handed to the operator as a dead
\* letter, whatever fails and whoever dies on the way.
EventuallySettled ==
    \A m \in Messages :
      row[m].status # "absent" ~> row[m].status \in {"sent", "dead_letter"}
=============================================================================
