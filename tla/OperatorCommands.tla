-------------------------- MODULE OperatorCommands --------------------------
(***************************************************************************)
(* What operators do to one order: commands on its exceptions              *)
(* (packages/db/src/exception-repository.ts with the rules of              *)
(* packages/domain/src/exception-commands.ts) and the recomputation of its *)
(* invoice eligibility (packages/db/src/operator-repository.ts), against   *)
(* the process manager that opens exceptions and evaluates eligibility.    *)
(*                                                                         *)
(* A session is one HTTP call after the other, each one transaction of     *)
(* execute at READ COMMITTED: it sees what others have committed, and what *)
(* it writes appears at its commit, while the rows it has written or       *)
(* selected for update stay locked.  A client may send a request any       *)
(* number of times, through any session.                                   *)
(*                                                                         *)
(* Names, reasons, notes and audit records are left out.                   *)
(***************************************************************************)
EXTENDS ExceptionRules, FiniteSets

CONSTANTS
    Sessions,
    MaxDecisions    \* bound: decision versions

VARIABLES
    exception,    \* exception[x]: its row
    commands,     \* the rows of exception_commands, by request
    mapped,       \* exceptions whose order line has been inserted
    proc,         \* the row of process_instances
    billed,       \* decision versions that billing was told are eligible
    message,      \* the outbox row that retry commands are about
    session,      \* session[s]: where its transaction stands
    evaluation,   \* the process manager's transaction for a readback
    recompute,    \* the operator's transaction that recomputes eligibility
    applied,      \* applied[r]: how often r took effect
    acknowledged  \* requests execute has returned success for, first or again

records == <<exception, commands, mapped, message, applied, acknowledged>>
invoice == <<proc, billed>>
vars == <<records, invoice, session, evaluation, recompute>>

Steps == {"idle", "lock", "effect", "insert", "commit"}
Session == [step : Steps, request : Requests \cup {Null}, row : Row, count : Nat]
Process == [step : {"none", "exception", "resolution_pending_recompute",
                    "invoice_ready", "invoice_eligible", "invoice_blocked"},
            blocking : Nat, eligible : BOOLEAN, decision : Nat]
Reads == [step : {"idle", "write"}, decision : Nat, clear : BOOLEAN]

IdleSession == [step |-> "idle", request |-> Null, row |-> NoRow, count |-> 0]
NoReads == [step |-> "idle", decision |-> 0, clear |-> FALSE]

Init ==
    /\ exception = [x \in Exceptions |-> NoRow]
    /\ commands = {}
    /\ mapped = {}
    /\ proc = [step |-> "none", blocking |-> 0, eligible |-> FALSE, decision |-> 0]
    /\ billed = {}
    /\ message = "dead_letter"
    /\ session = [s \in Sessions |-> IdleSession]
    /\ evaluation = NoReads
    /\ recompute = NoReads
    /\ applied = [r \in Requests |-> 0]
    /\ acknowledged = {}

OpenBlocking == {x \in Exceptions : exception[x].status = "open" /\ IsBlocking(x)}

-----------------------------------------------------------------------------
(* One transaction of execute *)

InFlight(s, steps) == session[s].step \in steps

Of(s) == Command[session[s].request]

\* The transaction ends: an answer or an error, and nothing written.
Rollback(s) == session' = [session EXCEPT ![s] = IdleSession]

\* A key that belongs to another exception is an error.
SameTarget(q, r) == Command[q].target = Command[r].target

\* The request arrives, and its key is looked up before anything is locked.
Lookup(s) ==
    /\ session[s].step = "idle"
    /\ \E r \in Requests :
         LET same == {q \in commands : Command[q].key = Command[r].key}
         IN IF same = {}
            THEN /\ session' = [session EXCEPT ![s] = [@ EXCEPT !.step = "lock", !.request = r]]
                 /\ UNCHANGED acknowledged
            ELSE /\ Rollback(s)
                 /\ acknowledged' = IF \E q \in same : SameTarget(q, r)
                                    THEN acknowledged \cup {r} ELSE acknowledged
    /\ UNCHANGED <<exception, commands, mapped, message, applied, invoice, evaluation, recompute>>

\* A select that is not for update.
NeverHeld(s, t) == FALSE

\* A lock taken already by whoever looks the command up.
HeldEarly(s, t) == session[t].step # "idle" /\ Of(t).target = Of(s).target

\* select for update: t has locked the row that s asks for.
RowHeld(s, t) ==
    InFlight(t, {"effect", "insert", "commit"}) /\ Of(t).target = Of(s).target

\* t has written the row that the command of s writes besides its exception.
EffectHeld(s, t) == InFlight(t, {"insert", "commit"}) /\ Of(t).type = Of(s).type

\* t has inserted a command with the key of s and has not committed yet.
KeyHeld(s, t) == InFlight(t, {"commit"}) /\ Of(t).key = Of(s).key

\* s cannot go on before the transaction of t ends.
WaitsFor(s, t) ==
    /\ s # t
    /\ \/ session[s].step = "lock" /\ RowHeld(s, t)
       \/ session[s].step = "effect" /\ EffectHeld(s, t)
       \/ session[s].step = "insert" /\ KeyHeld(s, t)

WaitsForNobody(s) == \A t \in Sessions : ~WaitsFor(s, t)

\* The exception is locked and read again, and the rules decide.
LockRow(s) ==
    LET c == Of(s)
    IN /\ session[s].step = "lock"
       /\ WaitsForNobody(s)
       /\ IF exception[c.target].status # "absent" /\ Accepts(c, exception[c.target])
          THEN session' = [session EXCEPT ![s] =
                 [@ EXCEPT !.row = exception[c.target],
                           !.step = IF c.type \in {"map_sku", "retry_outbox"}
                                    THEN "effect" ELSE "insert"]]
          ELSE Rollback(s)
       /\ UNCHANGED <<records, invoice, evaluation, recompute>>

\* A retry that does not ask for a dead letter.
AnyMessage(s) == TRUE

\* The statement that revives the message only matches a dead letter.
Revivable(s) == message = "dead_letter"

\* The order line and the order, or the outbox row, are written and thereby
\* locked; a retry without a dead letter throws.
Effect(s) ==
    /\ session[s].step = "effect"
    /\ WaitsForNobody(s)
    /\ IF Of(s).type = "retry_outbox" /\ ~Revivable(s) THEN Rollback(s)
       ELSE session' = [session EXCEPT ![s] = [@ EXCEPT !.step = "insert"]]
    /\ UNCHANGED <<records, invoice, evaluation, recompute>>

\* An index on the exception and the key.
KeyFreeHere(r) ==
    \A q \in commands : Command[q].key = Command[r].key => Command[q].target # Command[r].target

\* exception_commands_tenant_idempotency_uq.
KeyFree(r) == \A q \in commands : Command[q].key # Command[r].key

\* The command row is inserted, once no other transaction has the key in flight,
\* and the open exceptions are counted as this transaction sees them.
InsertCommand(s) ==
    LET r == session[s].request
        target == Of(s).target
        others == OpenBlocking \ {target}
        own == IF Result(r, session[s].row).status = "open" /\ IsBlocking(target) THEN 1 ELSE 0
    IN /\ session[s].step = "insert"
       /\ WaitsForNobody(s)
       /\ IF KeyFree(r)
          THEN session' = [session EXCEPT ![s] =
                 [@ EXCEPT !.step = "commit", !.count = Cardinality(others) + own]]
          ELSE Rollback(s)
       /\ UNCHANGED <<records, invoice, evaluation, recompute>>

\* recomputeBlockingCount: closing a blocking exception withdraws eligibility.
Recounted(s) ==
    LET forced == Of(s).type \in Closing /\ IsBlocking(Of(s).target)
    IN [step |-> IF ~forced THEN proc.step
                 ELSE IF session[s].count = 0 THEN "resolution_pending_recompute" ELSE "exception",
        blocking |-> session[s].count,
        eligible |-> proc.eligible /\ ~forced,
        decision |-> proc.decision]

\* The process is updated and the transaction commits.  Whether the answer gets
\* through makes no difference: a client may repeat its request either way.
\* The update of the exception only matches the version that was read, and
\* nobody checks whether it did.
Commit(s) ==
    LET r == session[s].request
        c == Command[r]
        matches == exception[c.target].version = session[s].row.version
    IN /\ session[s].step = "commit"
       /\ exception' = IF matches
                       THEN [exception EXCEPT ![c.target] = Result(r, session[s].row)]
                       ELSE exception
       /\ commands' = commands \cup {r}
       /\ mapped' = IF c.type = "map_sku" THEN mapped \cup {c.target} ELSE mapped
       /\ message' = IF c.type = "retry_outbox" THEN "pending" ELSE message
       /\ proc' = Recounted(s)
       /\ applied' = [applied EXCEPT ![r] = @ + 1]
       /\ acknowledged' = acknowledged \cup {r}
       /\ Rollback(s)
       /\ UNCHANGED <<billed, evaluation, recompute>>

\* The connection or the process is lost.
Disconnect(s) ==
    /\ session[s].step # "idle"
    /\ Rollback(s)
    /\ UNCHANGED <<records, invoice, evaluation, recompute>>

-----------------------------------------------------------------------------
(* Invoice eligibility *)

\* recomputeEligibility, the reads.
RecomputeReads ==
    /\ recompute.step = "idle"
    /\ proc.decision < MaxDecisions
    /\ recompute' = [step |-> "write", decision |-> proc.decision, clear |-> OpenBlocking = {}]
    /\ UNCHANGED <<records, invoice, session, evaluation>>

\* A recomputation that supposes the order reflected and its tracking known.
SupposedlyReflected(reads) == reads.clear

\* evaluateInvoiceEligibility is told that commerce has reported nothing, and is
\* given no tracking number.
OperatorVerdict(reads) == FALSE

\* The message of the operator's decision has a key of its own.
RecomputeWrites ==
    /\ recompute.step = "write"
    /\ proc' = [proc EXCEPT
         !.step = IF OperatorVerdict(recompute) THEN "invoice_eligible" ELSE "invoice_blocked",
         !.eligible = OperatorVerdict(recompute),
         !.decision = recompute.decision + 1]
    /\ recompute' = NoReads
    /\ UNCHANGED <<records, billed, session, evaluation>>

\* The process manager's readback handler reads ...
EvaluateReads ==
    /\ evaluation.step = "idle"
    /\ proc.decision < MaxDecisions
    /\ evaluation' = [step |-> "write", decision |-> proc.decision, clear |-> OpenBlocking = {}]
    /\ UNCHANGED <<records, invoice, session, recompute>>

\* ... and commits, whatever the rest of the evidence is.
EvaluateWrites ==
    /\ evaluation.step = "write"
    /\ \E evidence \in BOOLEAN :
         LET eligible == evidence /\ evaluation.clear
             decision == evaluation.decision + 1
         IN /\ proc' = [proc EXCEPT
                 !.step = IF eligible THEN "invoice_ready" ELSE "invoice_blocked",
                 !.eligible = eligible, !.decision = decision]
            /\ billed' = IF eligible THEN billed \cup {decision} ELSE billed
    /\ evaluation' = NoReads
    /\ UNCHANGED <<records, session, recompute>>

-----------------------------------------------------------------------------
(* The process manager and the dispatcher *)

\* openException; most conflicts also set the count on the process to one.
Opens(x) ==
    /\ exception[x].status = "absent"
    /\ exception' = [exception EXCEPT ![x] = [NoRow EXCEPT !.status = "open"]]
    /\ \/ proc' = [proc EXCEPT !.step = "exception", !.blocking = 1]
       \/ UNCHANGED proc
    /\ UNCHANGED <<commands, mapped, message, applied, acknowledged, billed, session,
                   evaluation, recompute>>

\* The dispatcher sends a revived message or gives up on it again.
Dispatch ==
    /\ message = "pending"
    /\ message' \in {"sent", "dead_letter"}
    /\ UNCHANGED <<exception, commands, mapped, applied, acknowledged, invoice, session,
                   evaluation, recompute>>

-----------------------------------------------------------------------------
Execute(s) == LockRow(s) \/ Effect(s) \/ InsertCommand(s) \/ Commit(s)

Next ==
    \/ \E s \in Sessions : Lookup(s) \/ Execute(s) \/ Disconnect(s)
    \/ RecomputeReads \/ RecomputeWrites \/ EvaluateReads \/ EvaluateWrites
    \/ \E x \in Exceptions : Opens(x)
    \/ Dispatch

Spec == Init /\ [][Next]_vars

-----------------------------------------------------------------------------
(* Properties *)

\* Every variable holds what the columns and locals it models can hold.
TypeOK ==
    /\ exception \in [Exceptions -> Row]
    /\ commands \subseteq Requests
    /\ mapped \subseteq Exceptions
    /\ proc \in Process
    /\ billed \subseteq Nat
    /\ message \in {"pending", "sent", "dead_letter"}
    /\ session \in [Sessions -> Session]
    /\ \A s \in Sessions : session[s].step # "idle" => session[s].request \in Requests
    /\ evaluation \in Reads /\ recompute \in Reads
    /\ applied \in [Requests -> Nat]
    /\ acknowledged \subseteq Requests

\* The version of an exception counts the commands on record for it: no two
\* commands that were sent for the same version are both carried out, although
\* the guarded update of the row does not check that it matched.
VersionsCountCommands ==
    \A x \in Exceptions :
      exception[x].version = 1 + Cardinality({r \in commands : Command[r].target = x})

\* A key takes effect at most once, for one exception, however often its requests
\* are delivered and although the lookup sees nothing of a delivery in flight.
OncePerKey ==
    /\ \A r \in Requests : applied[r] <= 1
    /\ \A q, r \in Requests :
         applied[q] > 0 /\ applied[r] > 0 /\ Command[q].key = Command[r].key => q = r

\* A closed exception was closed by exactly one command, and its resolution is the
\* one that command asked for: of several operators that decide on it one wins.
ClosedByOneCommand ==
    \A x \in Exceptions :
      {r \in commands : Command[r].target = x /\ Command[r].type \in Closing}
        = IF exception[x].status \in {"resolved", "dismissed"}
          THEN {exception[x].closedBy} ELSE {}

\* A client that is told its request succeeded, at once or on a repetition, has a
\* command on record for the very exception it asked about.
AcknowledgedIsRecorded ==
    \A r \in acknowledged : \E q \in commands :
      Command[q].key = Command[r].key /\ Command[q].target = Command[r].target

\* Repeated, concurrent and reused requests are told apart by their keys.
CommandsAreIdempotent == OncePerKey /\ AcknowledgedIsRecorded

\* An order is eligible only by a decision the process manager made from a readback
\* and told billing, whatever recomputations and resolutions race with it.
EligibleIsBilled == proc.eligible => proc.decision \in billed

\* A message that was sent is never put back in the queue, although an operator's
\* retry may have been asked for while it was dead.
SentIsNeverRevived == [][message = "sent" => message' = "sent"]_message

\* Commands never wait for each other in a circle: of any of them that are in flight
\* one waits for none of the others, whatever exceptions, order lines, outbox rows and
\* idempotency keys they have in common.
CommandsNeverDeadlock ==
    \A group \in SUBSET {s \in Sessions : session[s].step # "idle"} :
      group # {} => \E s \in group : \A t \in group : ~WaitsFor(s, t)

Ledger == INSTANCE CommandLedger

\* Commands are atomic: although execute reads without locks, locks, reads again and
\* updates without looking at the result, everything that is on record and every
\* answer is as if each command had been carried out in one step at its commit.
CommandsAreAtomic == Ledger!LSpec
=============================================================================
