---------------------------- MODULE SyncOperation ----------------------------
(***************************************************************************)
(* Sync operations: createSyncOperationRepository (packages/db/src/        *)
(* sync-operation-repository.ts) and the executor that drives it           *)
(* (packages/queue/src/sync-operation-executor.ts), for one tenant.        *)
(*                                                                         *)
(* An operation is one row of sync_operations.  A process runs one         *)
(* executeNext at a time under a worker id that other processes may share; *)
(* every database call and every remote call of executeNext is a step of   *)
(* its own.  The handlers execute and lookup belong to the caller; they    *)
(* keep the contract of the executor's error classes: an effect nobody can *)
(* vouch for is reported as RemoteResultUnknownError, any other error      *)
(* means that the remote system did not act.  The remote system itself     *)
(* recognises no repetition: each execute that acts acts again.            *)
(*                                                                         *)
(* Time is abstracted as in Outbox: "due" is nextAttemptAt <= now or null, *)
(* a lease is "expired" when lockedAt < now - leaseDurationMs.             *)
(***************************************************************************)
EXTENDS Naturals, FiniteSets

CONSTANTS
    Operations,     \* (tenant, idempotency key) pairs
    Processes,      \* executors
    WorkerId,       \* WorkerId[p]: the worker id p runs under
    Null,           \* SQL null
    MaxFaults,      \* bound: crashes, outlived leases and database errors
    MaxRefusals,    \* bound: retryable errors of execute
    MaxRequeues     \* bound: requeues by the operator

ASSUME BoundsAssumption == MaxFaults \in Nat /\ MaxRefusals \in Nat /\ MaxRequeues \in Nat
ASSUME NullAssumption == /\ Null \notin Operations
                         /\ \A p \in Processes : WorkerId[p] # Null

VARIABLES
    op,         \* op[o]: the row of sync_operations, status "absent" if none
    attempts,   \* the rows of sync_attempts
    created,    \* created[o]: how often the remote system carried o out
    proc,       \* proc[p]: where p stands in executeNext, and its locals
    cleared,    \* the operations an operator has looked up and found absent
    tokens,     \* lease tokens drawn so far: randomUUID never repeats one
    faults,     \* crashes, outlived leases and database errors so far
    refusals,   \* retryable errors so far
    requeues    \* requeues so far

vars == <<op, attempts, created, proc, cleared, tokens, faults, refusals, requeues>>

Statuses == {"absent", "pending", "running", "retrying", "succeeded", "failed"}
Codes == {"none", "unknown", "absent", "error"}   \* lastErrorCode
Outcomes == {"succeeded", "recovered", "unknown", "retryable", "failed"}
Steps == {"idle", "execute", "lookup", "attempt", "record", "resolve"}
WorkerIds == {WorkerId[p] : p \in Processes}

Row == [status : Statuses, attempt : Nat, due : BOOLEAN, code : Codes,
        lockedBy : WorkerIds \cup {Null}, token : Nat,
        lease : {"none", "held", "expired"}]

Attempt == [op : Operations, attempt : Nat, outcome : Outcomes]

\* The locals of executeNext: the claim, and the outcome it has settled on.
Locals == [step : Steps, op : Operations \cup {Null}, attempt : Nat, token : Nat,
           outcome : Outcomes]

NoRow == [status |-> "absent", attempt |-> 0, due |-> TRUE, code |-> "none",
          lockedBy |-> Null, token |-> 0, lease |-> "none"]

IdleProcess == [step |-> "idle", op |-> Null, attempt |-> 0, token |-> 0,
                outcome |-> "unknown"]

Init ==
    /\ op = [o \in Operations |-> NoRow]
    /\ attempts = {}
    /\ created = [o \in Operations |-> 0]
    /\ proc = [p \in Processes |-> IdleProcess]
    /\ cleared = {}
    /\ tokens = 0
    /\ faults = 0
    /\ refusals = 0
    /\ requeues = 0

-----------------------------------------------------------------------------
(* Creating and claiming *)

\* createOrGet inserts the row of a new key; a key that has one keeps it,
\* whether the command is the same or is refused as a conflict.
CreateOrGet(o) ==
    /\ op[o].status = "absent"
    /\ op' = [op EXCEPT ![o] = [NoRow EXCEPT !.status = "pending"]]
    /\ UNCHANGED <<attempts, created, proc, cleared, tokens, faults, refusals, requeues>>

\* A claim that takes operations whose result is unknown as well.
ClaimableFailed(o) ==
    \/ op[o].status \in {"pending", "retrying", "failed"} /\ op[o].due
    \/ op[o].status = "running" /\ op[o].lease = "expired"

\* A claim that leaves the operations of dead processes alone.
ClaimableFresh(o) == op[o].status \in {"pending", "retrying"} /\ op[o].due

Claimable(o) ==
    \/ op[o].status \in {"pending", "retrying"} /\ op[o].due
    \/ op[o].status = "running" /\ op[o].lease = "expired"

\* executeNext begins: claimNext leases a claimable row under a new token.  The
\* code of an earlier error stays on the row.
ClaimNext(p) ==
    /\ proc[p].step = "idle"
    /\ \E o \in Operations :
         /\ Claimable(o)
         /\ op' = [op EXCEPT ![o] =
              [@ EXCEPT !.status = "running", !.attempt = op[o].attempt + 1, !.due = TRUE,
                        !.lockedBy = WorkerId[p], !.token = tokens + 1, !.lease = "held"]]
         /\ proc' = [proc EXCEPT ![p] =
              [IdleProcess EXCEPT !.step = "execute", !.op = o,
                                  !.attempt = op[o].attempt + 1, !.token = tokens + 1]]
    /\ tokens' = tokens + 1
    /\ UNCHANGED <<attempts, created, cleared, faults, refusals, requeues>>

-----------------------------------------------------------------------------
(* The remote calls *)

Goes(p, step, outcome) ==
    proc' = [proc EXCEPT ![p] = [@ EXCEPT !.step = step, !.outcome = outcome]]

RemoteActs(o) == created' = [created EXCEPT ![o] = @ + 1]

ExecuteSucceeds(p) ==
    /\ proc[p].step = "execute"
    /\ RemoteActs(proc[p].op)
    /\ Goes(p, "attempt", "succeeded")
    /\ UNCHANGED <<op, attempts, cleared, tokens, faults, refusals, requeues>>

\* execute throws RemoteResultUnknownError, after the remote system acted or not.
ExecuteUnknown(p) ==
    /\ proc[p].step = "execute"
    /\ RemoteActs(proc[p].op) \/ UNCHANGED created
    /\ Goes(p, "lookup", "unknown")
    /\ UNCHANGED <<op, attempts, cleared, tokens, faults, refusals, requeues>>

\* execute throws anything else.
ExecuteRefuses(p) ==
    /\ proc[p].step = "execute"
    /\ \/ refusals < MaxRefusals /\ Goes(p, "attempt", "retryable") /\ refusals' = refusals + 1
       \/ Goes(p, "attempt", "failed") /\ UNCHANGED refusals
    /\ UNCHANGED <<op, attempts, created, cleared, tokens, faults, requeues>>

\* An executor that takes a lookup without an answer for proof of absence.
AbsentIsRetryable(p) == Goes(p, "attempt", "retryable")

\* lookup finds nothing or throws: neither proves that nothing happened.
NotFound(p) == Goes(p, "attempt", "unknown")

Lookup(p) ==
    /\ proc[p].step = "lookup"
    /\ \/ created[proc[p].op] > 0 /\ Goes(p, "attempt", "recovered")
       \/ NotFound(p)
    /\ UNCHANGED <<op, attempts, created, cleared, tokens, faults, refusals, requeues>>

-----------------------------------------------------------------------------
(* Recording the outcome *)

\* The end of a statement that throws: inside the try block the error counts as
\* a retryable failure of the execution, elsewhere it ends executeNext.
Throws(p) ==
    proc' = [proc EXCEPT ![p] =
      IF @.outcome = "succeeded"
      THEN [@ EXCEPT !.step = "attempt", !.outcome = "retryable"] ELSE IdleProcess]

\* recordAttempt inserts one row per attempt; the unique index refuses another.
RecordAttempt(p) ==
    LET o == proc[p].op
        known == \E a \in attempts : a.op = o /\ a.attempt = proc[p].attempt
    IN /\ proc[p].step = "attempt"
       /\ IF known
          THEN Throws(p) /\ UNCHANGED attempts
          ELSE /\ attempts' = attempts \cup
                    {[op |-> o, attempt |-> proc[p].attempt, outcome |-> proc[p].outcome]}
               /\ Goes(p, "record", proc[p].outcome)
       /\ UNCHANGED <<op, created, cleared, tokens, faults, refusals, requeues>>

\* A guard that forgets the token.
HoldsByWorker(p) ==
    LET r == op[proc[p].op] IN r.status = "running" /\ r.lockedBy = WorkerId[p]

\* What recordSuccess and recordFailure demand of the row.
Holds(p) ==
    LET r == op[proc[p].op]
    IN r.status = "running" /\ r.lockedBy = WorkerId[p] /\ r.token = proc[p].token

Released(r, status, code) ==
    [r EXCEPT !.status = status, !.code = code, !.lockedBy = Null, !.token = 0,
              !.lease = "none"]

\* recordSuccess, recordUnknown or recordFailure: the row by outcome.
Recorded(outcome, r) ==
    CASE outcome = "succeeded" -> Released(r, "succeeded", "none")
      [] outcome \in {"recovered", "unknown"} -> Released(r, "failed", "unknown")
      [] outcome = "retryable" -> Released(r, "retrying", "error")
      [] outcome = "failed" -> Released(r, "failed", "error")

\* The outcome is recorded, or the lease is lost; only a recovered result goes
\* on, to be stored by a second statement.
RecordOutcome(p) ==
    LET o == proc[p].op
    IN /\ proc[p].step = "record"
       /\ op' = IF Holds(p) THEN [op EXCEPT ![o] = Recorded(proc[p].outcome, @)] ELSE op
       /\ IF Holds(p) /\ proc[p].outcome = "recovered"
          THEN Goes(p, "resolve", "recovered")
          ELSE proc' = [proc EXCEPT ![p] = IdleProcess]
       /\ UNCHANGED <<attempts, created, cleared, tokens, faults, refusals, requeues>>

\* What resolveUnknown and requeueAfterConfirmedAbsence demand of the row.
StillUnknown(o) == op[o].status = "failed" /\ op[o].code = "unknown"

\* resolveUnknown, with the result that lookup found.
ResolveUnknown(p) ==
    LET o == proc[p].op
    IN /\ proc[p].step = "resolve"
       /\ op' = IF StillUnknown(o)
                THEN [op EXCEPT ![o] = [@ EXCEPT !.status = "succeeded", !.code = "none"]]
                ELSE op
       /\ proc' = [proc EXCEPT ![p] = IdleProcess]
       /\ UNCHANGED <<attempts, created, cleared, tokens, faults, refusals, requeues>>

\* An operator looks up an operation whose result is unknown and finds nothing.
OperatorFindsAbsent(o) ==
    /\ StillUnknown(o)
    /\ created[o] = 0
    /\ requeues < MaxRequeues
    /\ cleared' = cleared \cup {o}
    /\ UNCHANGED <<op, attempts, created, proc, tokens, faults, refusals, requeues>>

\* requeueAfterConfirmedAbsence, later and by the row alone.
Requeue(o) ==
    /\ o \in cleared
    /\ cleared' = cleared \ {o}
    /\ \E due \in BOOLEAN :
         op' = IF StillUnknown(o)
               THEN [op EXCEPT ![o] =
                      [@ EXCEPT !.status = "retrying", !.code = "absent", !.due = due]]
               ELSE op
    /\ requeues' = requeues + 1
    /\ UNCHANGED <<attempts, created, proc, tokens, faults, refusals>>

-----------------------------------------------------------------------------
(* Time and failures *)

BecomesDue(o) ==
    /\ ~op[o].due
    /\ op' = [op EXCEPT ![o] = [@ EXCEPT !.due = TRUE]]
    /\ UNCHANGED <<attempts, created, proc, cleared, tokens, faults, refusals, requeues>>

\* A process is still inside the executeNext that leased o.
Attended(o) == \E p \in Processes : proc[p].op = o /\ Holds(p)

LeaseExpires(o) ==
    /\ op[o].lease = "held"
    /\ ~Attended(o)
    /\ op' = [op EXCEPT ![o] = [@ EXCEPT !.lease = "expired"]]
    /\ UNCHANGED <<attempts, created, proc, cleared, tokens, faults, refusals, requeues>>

\* A slow process is outlived by its own lease, which nothing renews.
LeaseOutlived(o) ==
    /\ op[o].lease = "held"
    /\ Attended(o)
    /\ faults < MaxFaults
    /\ op' = [op EXCEPT ![o] = [@ EXCEPT !.lease = "expired"]]
    /\ faults' = faults + 1
    /\ UNCHANGED <<attempts, created, proc, cleared, tokens, refusals, requeues>>

\* A statement of executeNext after the remote call fails.
DatabaseError(p) ==
    /\ proc[p].step \in {"attempt", "record", "resolve"}
    /\ faults < MaxFaults
    /\ Throws(p)
    /\ faults' = faults + 1
    /\ UNCHANGED <<op, attempts, created, cleared, tokens, refusals, requeues>>

Crash(p) ==
    /\ proc[p].step # "idle"
    /\ faults < MaxFaults
    /\ proc' = [proc EXCEPT ![p] = IdleProcess]
    /\ faults' = faults + 1
    /\ UNCHANGED <<op, attempts, created, cleared, tokens, refusals, requeues>>

-----------------------------------------------------------------------------
ExecuteNext(p) ==
    \/ ClaimNext(p)
    \/ ExecuteSucceeds(p) \/ ExecuteUnknown(p) \/ ExecuteRefuses(p) \/ Lookup(p)
    \/ RecordAttempt(p) \/ RecordOutcome(p) \/ ResolveUnknown(p)

Next ==
    \/ \E o \in Operations :
         \/ CreateOrGet(o) \/ OperatorFindsAbsent(o) \/ Requeue(o)
         \/ BecomesDue(o) \/ LeaseExpires(o) \/ LeaseOutlived(o)
    \/ \E p \in Processes : ExecuteNext(p) \/ DatabaseError(p) \/ Crash(p)

Spec == Init /\ [][Next]_vars

\* Time passes and every process keeps calling executeNext and is scheduled.
\* Nobody is obliged to create, to fail or to requeue an operation.
Fairness ==
    /\ \A p \in Processes : WF_vars(ExecuteNext(p))
    /\ \A o \in Operations : WF_vars(BecomesDue(o)) /\ WF_vars(LeaseExpires(o))

FairSpec == Spec /\ Fairness

-----------------------------------------------------------------------------
(* Properties *)

\* Every variable holds what the columns and locals it models can hold.
TypeOK ==
    /\ op \in [Operations -> Row]
    /\ attempts \subseteq Attempt
    /\ created \in [Operations -> Nat]
    /\ proc \in [Processes -> {s \in Locals : s.step # "idle" <=> s.op \in Operations}]
    /\ cleared \subseteq Operations
    /\ tokens \in Nat
    /\ faults \in Nat /\ refusals \in Nat /\ requeues \in Nat

\* The lease token fences off every claim but the latest, also among processes
\* that share a worker id: whoever passes the guard of recordSuccess and
\* recordFailure records the attempt the row is at, and nobody else passes it.
TokenFence ==
    \A p \in Processes :
      proc[p].step # "idle" /\ Holds(p) =>
        /\ op[proc[p].op].attempt = proc[p].attempt
        /\ \A q \in Processes :
             proc[q].op = proc[p].op /\ proc[q].step # "idle" /\ Holds(q) => q = p

\* Unknown results are never blindly executed again: without a crash, an
\* outlived lease or a database error the remote system acts once, however
\* often its answer is lost, and each such fault pays for one more act at most.
RecreationsPaidFor == \A o \in Operations : created[o] <= 1 + faults

\* sync_attempts back the row: an operation that succeeded did act remotely and
\* has an attempt that says so, and one whose result is unknown has the row of
\* the attempt that lost it, whoever recorded what in which order.
AttemptsBackTheRow ==
    \A o \in Operations :
      /\ op[o].status = "succeeded" =>
           /\ created[o] > 0
           /\ \E a \in attempts : /\ a.op = o
                                  /\ a.attempt <= op[o].attempt
                                  /\ a.outcome \in {"succeeded", "recovered"}
      /\ StillUnknown(o) =>
           \E a \in attempts : /\ a.op = o
                               /\ a.attempt = op[o].attempt
                               /\ a.outcome \in {"unknown", "recovered"}

\* The row as the creator of the operation sees it.
Phase(r) ==
    CASE r.status = "absent" -> "absent"
      [] r.status \in {"pending", "running", "retrying"} -> "open"
      [] r.status = "succeeded" -> "done"
      [] r.status = "failed" -> IF r.code = "unknown" THEN "unknown" ELSE "refused"

Promise == INSTANCE RemoteOperation WITH phase <- [o \in Operations |-> Phase(op[o])]

\* The repository and its executors keep what RemoteOperation promises.
ImplementsRemoteOperation == Promise!RSpec

\* Every created operation comes to rest, at success, at failure or at an
\* unknown result for the operator, although its executors may die: the next
\* claim takes over what they left running.
EventuallyRests ==
    \A o \in Operations :
      op[o].status # "absent" ~> op[o].status \in {"succeeded", "failed"}
=============================================================================
