-------------------------------- MODULE Inbox --------------------------------
(***************************************************************************)
(* The inbox: createInboxRepository (packages/db/src/repositories.ts), the *)
(* ingestion service in front of it (packages/queue/src/inbox-ingestion.ts)*)
(* and processNext of the fulfillment process manager behind it            *)
(* (packages/queue/src/fulfillment-process-manager.ts), for one order of   *)
(* one tenant.                                                             *)
(*                                                                         *)
(* An event is one inbound message, identified by its idempotency key.     *)
(* Creators are the commerce.order.accepted and .created events; every     *)
(* other event that has a handler needs the order row a creator inserts.   *)
(* What a handler does to the order is reduced to the order's source       *)
(* version: the handlers themselves are in module FulfillmentProcess.      *)
(*                                                                         *)
(* The transactions run at READ COMMITTED, so each read of a transaction   *)
(* is a step, and what it writes becomes visible with its commit.  A row   *)
(* is available "now" when availableAt <= now, "later" otherwise.          *)
(***************************************************************************)
EXTENDS Naturals, FiniteSets

CONSTANTS
    Events,       \* inbound messages about the order
    Creators,     \* the events that insert or update the order row
    Unhandled,    \* events of a type that has no handler
    Gated,        \* events of source wms: parked at ingestion without an order
    Misaddressed, \* those whose key at ingestion is not the handler's, nor any order's
    Version,      \* Version[e]: source version on e's envelope, 0 if it has none
    Stored,       \* Stored[e]: the version creator e gives the order: the payload's,
                  \* else the envelope's, else the event's
    Stream,       \* Stream[e]: source system and source entity of e
    Receivers,    \* concurrent ingestion requests
    Workers,      \* worker ids
    Null,         \* SQL null
    MaxAttempts,  \* config.outboxMaxAttempts
    MaxCrashes    \* bound: worker crashes

ASSUME EventsAssumption ==
    /\ Creators \subseteq Events
    /\ Unhandled \subseteq Events \ Creators
    /\ Gated \subseteq Events \ Creators
    /\ Misaddressed \subseteq Gated
ASSUME VersionAssumption ==
    Version \in [Events -> Nat] /\ Stored \in [Creators -> Nat \ {0}]
ASSUME BoundsAssumption == MaxAttempts \in Nat \ {0} /\ MaxCrashes \in Nat
ASSUME NullAssumption == Null \notin Events /\ Null \notin Workers

VARIABLES
    row,       \* row[e]: the row of inbox_messages, status "absent" if none
    order,     \* sourceVersion of the row of orders, 0 while there is none
    effects,   \* effects[e]: how many committed transactions applied e
    receiver,  \* receiver[r]: where r stands in ingest, and its locals
    worker,    \* worker[w]: where w stands in processNext, and its locals
    crashes    \* worker crashes so far

vars == <<row, order, effects, receiver, worker, crashes>>

Statuses == {"absent", "received", "processing", "processed", "parked",
             "ignored", "dead_letter"}

Row == [status : Statuses, attempt : Nat, available : {"now", "later"},
        lockedBy : Workers \cup {Null}]

ReceiverState == [step : {"idle", "prerequisite", "insert"},
                  event : Events \cup {Null},
                  verdict : {"received", "parked", "ignored"}]

\* known is the source version of the order that the transaction read, woken the
\* rows it has set to received but not committed yet.
WorkerState == [step : {"idle", "load", "commit", "woken", "fail", "failing"},
                event : Events \cup {Null}, known : Nat, woken : SUBSET Events,
                verdict : {"received", "dead_letter"}]

NoRow == [status |-> "absent", attempt |-> 0, available |-> "now", lockedBy |-> Null]
IdleReceiver == [step |-> "idle", event |-> Null, verdict |-> "received"]
IdleWorker == [step |-> "idle", event |-> Null, known |-> 0, woken |-> {},
               verdict |-> "received"]

Init ==
    /\ row = [e \in Events |-> NoRow]
    /\ order = 0
    /\ effects = [e \in Events |-> 0]
    /\ receiver = [r \in Receivers |-> IdleReceiver]
    /\ worker = [w \in Workers |-> IdleWorker]
    /\ crashes = 0

-----------------------------------------------------------------------------
(* Ingestion *)

Recorded(e) == row[e].status # "absent"

\* An older-than check that looks at events of every stream.
NotNewest(e) ==
    \E f \in Events : Recorded(f) /\ Version[e] < Version[f]

\* The stream has a recorded event with a newer source version.
Stale(e) ==
    /\ Version[e] > 0
    /\ \E f \in Events : /\ Recorded(f)
                         /\ Stream[f] = Stream[e]
                         /\ Version[e] < Version[f]

\* ingest, first read: the source versions of the stream.  Any event may be
\* delivered at any time, in any order and again.
IngestReadsVersions(r) ==
    /\ receiver[r].step = "idle"
    /\ \E e \in Events :
         receiver' = [receiver EXCEPT ![r] =
           [@ EXCEPT !.step = "prerequisite", !.event = e,
                     !.verdict = IF Stale(e) THEN "ignored" ELSE "received"]]
    /\ UNCHANGED <<row, order, effects, worker, crashes>>

\* prerequisiteExists, for the key that prerequisiteFor takes from the payload's
\* orderSourceId or the source entity; the handlers look at sourceOrderId first.
PrerequisiteExists(e) == order # 0 /\ e \notin Misaddressed

\* ingest, second read.  Staleness takes precedence.
IngestReadsPrerequisite(r) ==
    /\ receiver[r].step = "prerequisite"
    /\ receiver' = [receiver EXCEPT ![r] =
         [@ EXCEPT !.step = "insert",
                   !.verdict = IF /\ receiver[r].event \in Gated
                                  /\ receiver[r].verdict = "received"
                                  /\ ~PrerequisiteExists(receiver[r].event)
                               THEN "parked" ELSE receiver[r].verdict]]
    /\ UNCHANGED <<row, order, effects, worker, crashes>>

\* An upsert in place of onConflictDoNothing.
AlwaysInsertable(e) == TRUE

\* No row has the delivery's message id or idempotency key.
Insertable(e) == ~Recorded(e)

\* ingest, the insert.  A repeated delivery leaves the row as it is, also when
\* its payload differs: that is only noted in errorCode and lastError.
IngestInserts(r) ==
    LET e == receiver[r].event
    IN /\ receiver[r].step = "insert"
       /\ row' = IF Insertable(e)
                 THEN [row EXCEPT ![e] = [NoRow EXCEPT !.status = receiver[r].verdict]]
                 ELSE row
       /\ receiver' = [receiver EXCEPT ![r] = IdleReceiver]
       /\ UNCHANGED <<order, effects, worker, crashes>>

-----------------------------------------------------------------------------
(* Claiming *)

\* A claim that takes over rows in processing, as if their lease had expired.
ClaimableAgain(e) ==
    row[e].status \in {"received", "processing"} /\ row[e].available = "now"

Claimable(e) == row[e].status = "received" /\ row[e].available = "now"

HoldsClaim(w, e) == row[e].status = "processing" /\ row[e].lockedBy = w

\* processNext begins: claimNext.  Nothing claims a row in processing again.
ClaimNext(w) ==
    /\ worker[w].step = "idle"
    /\ \E e \in Events :
         /\ Claimable(e)
         /\ row' = [row EXCEPT ![e] =
              [@ EXCEPT !.status = "processing", !.lockedBy = w,
                        !.attempt = row[e].attempt + 1]]
         /\ worker' = [worker EXCEPT ![w] =
              [IdleWorker EXCEPT !.step = "load", !.event = e]]
    /\ UNCHANGED <<order, effects, receiver, crashes>>

-----------------------------------------------------------------------------
(* The transaction of processClaim *)

\* loadAggregate, without a lock on the order.
Load(w) ==
    /\ worker[w].step = "load"
    /\ worker' = [worker EXCEPT ![w] = [@ EXCEPT !.step = "commit", !.known = order]]
    /\ UNCHANGED <<row, order, effects, receiver, crashes>>

\* The last statement of the transaction: its outcome in rows, a version of the
\* table.  Nothing checks that the guarded update found the row.
Finish(w, rows, outcome) ==
    LET e == worker[w].event
    IN row' = IF HoldsClaim(w, e)
              THEN [rows EXCEPT ![e] =
                     [@ EXCEPT !.status = outcome, !.available = "now", !.lockedBy = Null]]
              ELSE rows

\* A version check that lets older acceptances through.
AnyOther(e, known) == known = 0 \/ known # Stored[e]

\* The order is unknown, or known in another version than the event would store and
\* in none newer than its envelope's, which is not asked if there is none.
Fresh(e, known) ==
    \/ known = 0
    \/ Stored[e] # known /\ (Version[e] = 0 \/ Version[e] >= known)

\* A transaction that forgets to wake.
Nobody(e) == FALSE

\* wakeParked, for the creator's key: the rows that are committed as parked.
Waits(e) == row[e].status = "parked" /\ e \notin Misaddressed

\* Whoever has written the order's row holds it until the end of the transaction.
OrderIsFree == \A w \in Workers : worker[w].step # "woken"

\* A creator writes the order's row, inserting it or updating it by id whatever
\* version it has now, and wakes the events that wait for it.
WakeParked(w) ==
    LET e == worker[w].event
        known == worker[w].known
    IN /\ worker[w].step = "commit"
       /\ e \in Creators
       /\ Fresh(e, known)
       /\ known = 0 => order = 0
       /\ OrderIsFree
       /\ worker' = [worker EXCEPT ![w] =
            [@ EXCEPT !.step = "woken", !.woken = {f \in Events : Waits(f)}]]
       /\ UNCHANGED <<row, order, effects, receiver, crashes>>

Woken(rows, waiting) ==
    [e \in Events |-> IF e \in waiting
                      THEN [rows[e] EXCEPT !.status = "received", !.available = "now",
                                           !.lockedBy = Null]
                      ELSE rows[e]]

\* The creation is committed, and with it what was woken by then.
CommitCreation(w) ==
    LET e == worker[w].event
    IN /\ worker[w].step = "woken"
       /\ order' = Stored[e]
       /\ effects' = [effects EXCEPT ![e] = @ + 1]
       /\ Finish(w, Woken(row, worker[w].woken), "processed")
       /\ worker' = [worker EXCEPT ![w] = IdleWorker]
       /\ UNCHANGED <<receiver, crashes>>

\* Another transaction inserted the order since: the unique index of orders
\* rejects the insert and everything is rolled back.
CreationCollides(w) ==
    /\ worker[w].step = "commit"
    /\ worker[w].event \in Creators
    /\ worker[w].known = 0 /\ order # 0
    /\ worker' = [worker EXCEPT ![w] = [@ EXCEPT !.step = "fail"]]
    /\ UNCHANGED <<row, order, effects, receiver, crashes>>

\* A creator the order has already overtaken.
CommitIgnored(w) ==
    /\ worker[w].step = "commit"
    /\ worker[w].event \in Creators
    /\ ~Fresh(worker[w].event, worker[w].known)
    /\ Finish(w, row, "ignored")
    /\ worker' = [worker EXCEPT ![w] = IdleWorker]
    /\ UNCHANGED <<order, effects, receiver, crashes>>

\* An event of a type without a handler, with or without an order.
CommitUnhandled(w) ==
    /\ worker[w].step = "commit"
    /\ worker[w].event \in Unhandled
    /\ Finish(w, row, "ignored")
    /\ worker' = [worker EXCEPT ![w] = IdleWorker]
    /\ UNCHANGED <<order, effects, receiver, crashes>>

\* Any other event without an order to apply it to.
CommitParked(w) ==
    /\ worker[w].step = "commit"
    /\ worker[w].event \notin Creators \cup Unhandled
    /\ worker[w].known = 0
    /\ Finish(w, row, "parked")
    /\ worker' = [worker EXCEPT ![w] = IdleWorker]
    /\ UNCHANGED <<order, effects, receiver, crashes>>

\* Any other event with an order: its handler applies it or ignores it.
CommitDependent(w) ==
    /\ worker[w].step = "commit"
    /\ worker[w].event \notin Creators \cup Unhandled
    /\ worker[w].known # 0
    /\ \/ /\ Finish(w, row, "processed")
          /\ effects' = [effects EXCEPT ![worker[w].event] = @ + 1]
       \/ /\ Finish(w, row, "ignored")
          /\ UNCHANGED effects
    /\ worker' = [worker EXCEPT ![w] = IdleWorker]
    /\ UNCHANGED <<order, receiver, crashes>>

-----------------------------------------------------------------------------
(* Failures *)

\* A processNext that passes the error on before it has recorded it.
RethrowsAtOnce(w) ==
    /\ worker[w].step \in {"load", "commit", "woken"}
    /\ worker' = [worker EXCEPT ![w] = IdleWorker]
    /\ UNCHANGED <<row, order, effects, receiver, crashes>>

\* The transaction throws, for a payload it cannot use or a database error, and
\* is rolled back.
TransactionThrows(w) ==
    /\ worker[w].step \in {"load", "commit", "woken"}
    /\ worker' = [worker EXCEPT ![w] = [@ EXCEPT !.step = "fail", !.woken = {}]]
    /\ UNCHANGED <<row, order, effects, receiver, crashes>>

\* One attempt too many.
OverMaxAttempts(e) == row[e].attempt > MaxAttempts

AttemptsExhausted(e) == row[e].attempt >= MaxAttempts

\* recordFailure, first statement: read the attempt count and decide.
RecordFailureReads(w) ==
    LET e == worker[w].event
    IN /\ worker[w].step = "fail"
       /\ worker' = [worker EXCEPT ![w] =
            IF HoldsClaim(w, e)
            THEN [@ EXCEPT !.step = "failing",
                           !.verdict = IF AttemptsExhausted(e)
                                       THEN "dead_letter" ELSE "received"]
            ELSE IdleWorker]
       /\ UNCHANGED <<row, order, effects, receiver, crashes>>

FailureStatus(w) == worker[w].verdict

\* recordFailure, second statement: a separate update under the same guard.
RecordFailureWrites(w) ==
    LET e == worker[w].event
    IN /\ worker[w].step = "failing"
       /\ row' = IF HoldsClaim(w, e)
                 THEN [row EXCEPT ![e] =
                        [@ EXCEPT !.status = FailureStatus(w), !.available = "later",
                                  !.lockedBy = Null]]
                 ELSE row
       /\ worker' = [worker EXCEPT ![w] = IdleWorker]
       /\ UNCHANGED <<order, effects, receiver, crashes>>

BecomesDue(e) ==
    /\ row[e].status = "received" /\ row[e].available = "later"
    /\ row' = [row EXCEPT ![e] = [@ EXCEPT !.available = "now"]]
    /\ UNCHANGED <<order, effects, receiver, worker, crashes>>

\* The process of w dies anywhere in processNext and restarts; an open
\* transaction is rolled back.  A database error in recordFailure, which nothing
\* catches, ends processNext the same way.
Crash(w) ==
    /\ worker[w].step # "idle"
    /\ crashes < MaxCrashes
    /\ worker' = [worker EXCEPT ![w] = IdleWorker]
    /\ crashes' = crashes + 1
    /\ UNCHANGED <<row, order, effects, receiver>>

-----------------------------------------------------------------------------
FinishIngest(r) == IngestReadsPrerequisite(r) \/ IngestInserts(r)

Process(w) ==
    \/ ClaimNext(w) \/ Load(w)
    \/ WakeParked(w) \/ CommitCreation(w) \/ CreationCollides(w) \/ CommitIgnored(w)
    \/ CommitUnhandled(w) \/ CommitParked(w) \/ CommitDependent(w)
    \/ TransactionThrows(w) \/ RecordFailureReads(w) \/ RecordFailureWrites(w)

Next ==
    \/ \E r \in Receivers : IngestReadsVersions(r) \/ FinishIngest(r)
    \/ \E w \in Workers : Process(w) \/ Crash(w)
    \/ \E e \in Events : BecomesDue(e)

Spec == Init /\ [][Next]_vars

\* Time passes, a request that was accepted is served, and every worker keeps
\* calling processNext.  Nothing obliges a sender to deliver anything.
Fairness ==
    /\ \A r \in Receivers : WF_vars(FinishIngest(r))
    /\ \A w \in Workers : WF_vars(Process(w))
    /\ WF_vars(\E e \in Events : BecomesDue(e))

FairSpec == Spec /\ Fairness

-----------------------------------------------------------------------------
(* Properties *)

\* Every variable holds what the columns and locals it models can hold.
TypeOK ==
    /\ row \in [Events -> Row]
    /\ order \in Nat
    /\ effects \in [Events -> Nat]
    /\ receiver \in [Receivers -> ReceiverState]
    /\ worker \in [Workers -> WorkerState]
    /\ \A r \in Receivers : receiver[r].step # "idle" => receiver[r].event \in Events
    /\ \A w \in Workers : worker[w].step # "idle" => worker[w].event \in Events
    /\ \A w \in Workers : worker[w].step = "woken" => worker[w].event \in Creators
    /\ crashes \in Nat

\* A worker inside processNext still owns the row it claimed, whatever other
\* workers, wake-ups and redeliveries do meanwhile.  This is why processClaim
\* may commit its effects without looking at the result of its last update.
ClaimIsSecure ==
    \A w \in Workers : worker[w].step # "idle" => HoldsClaim(w, worker[w].event)

\* An event is applied at most once, and is marked processed exactly if it was:
\* redelivery, retries, parking and crashes never repeat or lose an effect.
OneEffect ==
    \A e \in Events : effects[e] = IF row[e].status = "processed" THEN 1 ELSE 0

\* An event dropped at ingestion as stale has a newer event of its own stream on
\* record, although the versions were read in an earlier statement.
StaleIsOvertaken ==
    \A e \in Events :
      row[e].status = "ignored" /\ row[e].attempt = 0 =>
        \E f \in Events : /\ Recorded(f)
                          /\ Stream[f] = Stream[e]
                          /\ Version[f] > Version[e]

\* The events in processing that no worker is about.
Stranded ==
    {e \in Events :
        /\ row[e].status = "processing"
        /\ \A w \in Workers : worker[w].step # "idle" => worker[w].event # e}

\* An event that is stuck in processing, which nothing takes it out of, has cost a
\* crash: no error, lost race or rollback leaves one behind.
StrandedPaidFor == Cardinality(Stranded) <= crashes

\* Failures are bounded by outboxMaxAttempts, and waiting for the order costs an
\* event at most one attempt more: once woken it is never parked again.
AttemptsBounded == \A e \in Events : row[e].attempt <= MaxAttempts + 1

\* The source version of an order goes back only at the hand of a creator that says
\* so itself: one without a version on its envelope, or with a lower one in its
\* payload (while workers take turns; PLAN.md: "older/out-of-order messages cannot
\* corrupt state").  Two workers that loaded the same version commit in either order.
RegressionsAreUnversioned ==
    [][order' < order =>
         \E e \in Creators : /\ effects'[e] > effects[e]
                             /\ Version[e] = 0 \/ Stored[e] < Version[e]]_order

\* An event is parked only while there is no order (while workers take turns, and no
\* event is parked at ingestion but those that wait under another key): the
\* wake-up finds every waiting event.
NobodyLeftParked ==
    \A e \in Events \ Misaddressed : row[e].status = "parked" => order = 0

Waking == {w \in Workers : worker[w].step = "woken"}
Calling == {worker[w].event : w \in Waking}
Heard == UNION {worker[w].woken : w \in Waking}

Ledger == INSTANCE EventLedger WITH Strays <- Misaddressed,
                                   fate <- [e \in Events |-> row[e].status],
                                   known <- order # 0,
                                   calling <- Calling, heard <- Heard

\* The inbox keeps the ledger of events: whatever requests, workers, lost claims,
\* retries and crashes do, an event takes the turns EventLedger allows, no event
\* but a creator takes effect without an order, and a transaction that creates or
\* revises the order wakes exactly the events that waited when it called them,
\* which a second creator cannot do before it ends.
ImplementsLedger == Ledger!LSpec

\* Disposed of, or waiting for an order: the own one, or one that never comes.
Disposed(e) ==
    \/ row[e].status \in {"processed", "ignored", "dead_letter"}
    \/ row[e].status = "parked" /\ (order = 0 \/ e \in Misaddressed)

\* From some point on every recorded event is disposed of, but for those that wait
\* for an order that has not come (without crashes, with a single worker, and with no
\* event parked at ingestion but those that wait under another key).
EventuallyDisposed == <>[](\A e \in Events : Recorded(e) => Disposed(e))
=============================================================================
