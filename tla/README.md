# Verification of the handoff control tower

TLA+ specifications of the handoff control tower: what happens to an order
between the shop (commerce), the warehouse (wms), the carrier and billing, from
the webhook that reports an event to the outbound message that reacts to it; the
remote operations, the reconciliation runs and the operator commands that mend
what goes wrong; and the rate limiter in front of the API. TLC checks the
specifications on small instances and TLAPS proves the central statements for
every number of messages, workers, events, operators and requests.

Paths are relative to the repository; `pm.ts` stands for
`packages/queue/src/fulfillment-process-manager.ts` and `repositories.ts` for
`packages/db/src/repositories.ts`.

- [Inventory of the system](#inventory-of-the-system)
- [Modules](#modules)
- [What the runs check](#what-the-runs-check)
- [Where the code and the documents part](#where-the-code-and-the-documents-part)
- [Bounds, symmetry, deadlock and fairness](#bounds-symmetry-deadlock-and-fairness)
- [What is proved](#what-is-proved)
- [What is not modelled](#what-is-not-modelled)
- [Plan](#plan)

## Inventory of the system

    webhook --> ingestion --> inbox --> process manager --> outbox --> dispatcher --> remote
                (ingest)      rows      (processNext,       rows       (dispatchNext,
                   ^                     one transaction)     ^         adapter.deliver)
                   |                           |              |
             reconciliation <-- remote lists   v              |
             (inbound repairs)            exceptions --> operator commands
                   |                                    (retry_outbox)
                   +-- redelivery (outbound repairs) ---------^

Everything meets in PostgreSQL tables, in transactions at READ COMMITTED.
Workers are processes that call `processNext`, `dispatchNext`, `executeNext` or
the reconciliation runner with a worker id; they share nothing but the tables.

| Component | State | Operations | Hard behaviours | Correct if |
|---|---|---|---|---|
| Transactional outbox (`repositories.ts` 439-780, `packages/queue/src/outbox-dispatcher.ts`) | `outbox_messages`, `outbox_delivery_receipts` | append, claimNext, recordReceipt, recordSent, recordFailure, retryDeadLetter; dispatchNext | leases that expire under live workers, crashes, duplicate deliveries, two-statement recordFailure | one effect per message; sent means done and receipted; nothing stays queued for ever |
| Inbox and ingestion (`repositories.ts` 97-437, `packages/queue/src/inbox-ingestion.ts`) | `inbox_messages` | ingest, claimNext, recordFailure, recordOutcome, wakeParked | redelivery, reordering, parking, lost wake-ups, claims without a lease | one effect per event; nothing is forgotten; stale means overtaken |
| Fulfillment process manager (`pm.ts`) | `orders`, `order_lines`, `fulfillments`, `fulfillment_lines`, `shipments`, `process_instances`, `exceptions` | one handler per event type, in one transaction | decisions on unlocked reads, updates by id | versions advance, quantities form a chain, nothing is billed that was not shipped |
| Domain rules (`packages/domain/src/fulfillment-process.ts`, `quantities.ts`, `invoice-eligibility.ts`) | none | acceptCommerceOrder, applyWarehouseUpdate, confirmShipment, applyShipmentObservation, evaluateInvoiceEligibility | boundaries of versions and quantities | the decisions above |
| Sync operations (`packages/db/src/sync-operation-repository.ts`, `packages/queue/src/sync-operation-executor.ts`) | `sync_operations`, `sync_attempts` | createOrGet, claimNext, recordAttempt, recordSuccess, recordFailure, recordUnknown, resolveUnknown, requeueAfterConfirmedAbsence; executeNext | lease tokens, unknown remote results, crash between remote call and record | done means the remote acted; an unknown result is looked up, never guessed; an operation comes to rest |
| Reconciliation (`packages/db/src/reconciliation-repository.ts`, `packages/queue/src/reconciliation.ts`, `packages/domain/src/reconciliation.ts`) | `reconciliation_runs`, `_findings`, `_leases`, `_watermarks` | start, persistPage, markFindingRepaired, complete, fail; run | lease takeover, a clock read once, repairs through other workers' queues, failure after the lease is lost | overtaken runs get past no check of the lease; the watermark covers enumerated time; a repair reported is durable |
| Exception commands (`packages/db/src/exception-repository.ts`, `packages/domain/src/exception-commands.ts`) | `exceptions`, `exception_commands`, `process_instances` | execute, with seven commands | optimistic versions, repeated commands, locks, retries of dead letters | a command applies once; no update is lost; no deadlock |
| Operator repository (`packages/db/src/operator-repository.ts`) | `process_instances` | recomputeEligibility; read models | decisions on unlocked reads | eligible means billed |
| Rate limiting (`packages/security/src/index.ts` 124 ff., `packages/adapters/src/redis-rate-limit-store.ts`, `apps/api/src/security.ts`) | keys in Redis | consume | two commands for one count, clocks, resent commands, a Redis that forgets | a bucket admits its limit; nobody is refused for nothing |
| State machines (`packages/domain/src/state-machines.ts`) | none | transitionOrderRelease and others | only tests call it | the transitions the plan draws |
| Canonical and connection repositories | catalog, customers, connections | upserts, queries | concurrent upserts | tenant isolation |
| Adapters and transport (`packages/adapters/src`) | mock remote state | deliver, lookup, request | timeouts, redirects | a request is repeated only when that is safe |
| API, web, worker, security, config, observability, scenarios | none to speak of | controllers, redaction, parsing | | |

How they interact: ingestion inserts inbox rows; the process manager claims one,
reads the order, and writes the order's tables, new outbox rows, woken inbox
rows and the row's own outcome in one transaction; the dispatcher delivers
outbox rows in the background; the remote systems answer with new webhooks.
Reconciliation lists what the remote systems have, compares it with the local
tables, and repairs by ingesting synthetic events or by appending to the outbox.
Operators close exceptions, retry dead letters and recompute eligibility through
the API. Sync operations are commands to a remote system that recognises no
repetition, kept by rows and lease tokens of their own.

The hazards this leads to are listed with their lines and the properties that
cover them in `PROJECT.json`.

## Modules

| Module | Stands for |
|---|---|
| `Delivery` | what the outbox promises, with workers, leases and crashes hidden |
| `Outbox` | the outbox repository, `dispatchNext` and the remote system |
| `EventLedger` | what the inbox promises of each event, with requests, workers and claims hidden |
| `Inbox` | ingestion, the inbox repository and `processNext`, for one order |
| `FulfillmentProcess` | the event handlers with the domain rules, for one order of one line |
| `RemoteOperation` | what sync operations promise, with workers, leases and crashes hidden |
| `SyncOperation` | the sync-operation repository and `executeNext` |
| `Drift` | the four comparisons of a remote resource with the local copy |
| `Reconciliation` | the reconciliation runner and repository, with the inbox, the outbox and the providers as a repair sees them; extends `Drift` |
| `ExceptionRules` | what a command does to an exception, and when it may |
| `CommandLedger` | what operators are promised: commands carried out one at a time |
| `OperatorCommands` | exception commands and the recomputation of eligibility, against the process manager |
| `RateLimiter` | the fixed-window limiter over Redis |
| `OutboxProofs`, `InboxProofs`, `FulfillmentProofs`, `SyncOperationProofs`, `ReconciliationProofs`, `OperatorProofs`, `RateLimiterProofs` | theorems about the module of the name |
| `MC...` | the instances TLC checks |

A component that another module needs is reduced there to what its own module
shows of it. Between `Inbox` and `FulfillmentProcess` stands `EventLedger`: both
move events by its steps and no others (`ImplementsLedger`, `KeepsLedger`), and so
what the handlers suppose of claiming, parking and waking is what the inbox
provides. A creation takes two steps there, as in the code: `Call` fixes the events
that are parked when `wakeParked` runs, `Create` commits and wakes these. `Reconciliation` and `OperatorCommands` take from `Outbox` that a queued
message ends sent or dead.

### Outbox

`row[m]` is the row of `outbox_messages`, `receipts` the table of receipts,
`applied[m]` counts the effect on the remote system, and `worker[w]` is where
worker `w` stands in `dispatchNext` with its locals. Time is reduced to the two
comparisons of `claimNext`: whether `availableAt` has come and whether the lease
has run out.

| Code | Action |
|---|---|
| `append` | `Append` |
| `claimNext` | `ClaimNext` |
| `adapter.deliver` resolves, rejects | `DeliverSucceeds`, `DeliverFails` (before or after the effect) |
| `recordReceipt`, select and insert | `RecordReceiptReads`, `RecordReceiptWrites` |
| `recordSent` | `RecordSent` |
| one of them throws | `RecordingThrows` |
| `recordFailure`, select and update | `RecordFailureReads`, `RecordFailureWrites` |
| `retryDeadLetter` | `RetryDeadLetter` |
| time passes | `BecomesDue`, `LeaseExpires` (nobody works on it), `LeaseOutlived` (somebody does) |
| the process dies | `Crash` |

The remote system is the mock adapter (`packages/adapters/src/mock-outbound.ts`):
it remembers idempotency keys and answers a repeated one as a duplicate.

### Inbox

`row[e]` is the row of `inbox_messages`, `order` the source version of the order
row (0 while there is none), `effects[e]` counts committed transactions that
applied `e`, `receiver[r]` is a request in `ingest` and `worker[w]` a worker in
`processNext`. The reads of a transaction are steps, and so is `wakeParked`, an
update that sees the rows committed as parked by then; the writes appear together
at the commit. From the write of the order's row on, a creation holds that row, and
`OrderIsFree` has other creations wait for it.

An event has three attributes that the code keeps apart: `Version`, the optional
source version of the envelope, by which ingestion and the acceptance compare;
`Stored`, the version a creator gives the order, which comes from the payload if it
is there; `Stream`, source system and entity. Types without a handler are
`Unhandled`.

| Code | Action |
|---|---|
| `ingest`: versions, prerequisite, insert | `IngestReadsVersions`, `IngestReadsPrerequisite`, `IngestInserts` |
| `claimNext` | `ClaimNext` |
| `loadAggregate` | `Load` |
| the writes of an acceptance with `wakeParked`, its commit | `WakeParked` (with `Waits`), `CommitCreation` (with `Woken`) |
| commit of an acceptance that is overtaken; one that lost the insert | `CommitIgnored`, `CreationCollides` |
| commit of an event of unhandled type | `CommitUnhandled` |
| commit of any other event, without and with an order | `CommitParked`, `CommitDependent` |
| the transaction throws | `TransactionThrows` |
| `recordFailure`, select and update | `RecordFailureReads`, `RecordFailureWrites` |
| the process dies | `Crash` |

`Gated` are the events of source `wms`, for which ingestion names the order as
prerequisite; all others reach the process manager and are parked there. Ingestion
takes the key from the payload's `orderSourceId` or the source entity
(`inbox-ingestion.ts` 60-71), the handlers look at `sourceOrderId` first (`pm.ts`
586-593). Where the two differ, ingestion parks the event under a name that no
order has: these are `Misaddressed`, never woken by the order of the model.

### FulfillmentProcess

`order`, `ful`, `proc` are the rows of `orders` (with its line), `fulfillments`
(with its line) and `process_instances`, `open` the active keys of the open
exceptions, `shipped[s]` the quantity on record of a shipment, `outbox` the
idempotency keys appended, by message type. A worker claims an event, reads the
order (`LoadOrder`), the fulfillment with the process (`LoadFulfillment`), for a
readback also the latest shipment (`ReadShipment`) and the open exceptions
(`ReadExceptions`), and commits with one of the handler actions: `Accept` (after
`WakeParked`), `IgnoreAcceptance`, `ApplyWarehouseUpdate`,
`StaleWarehouseUpdate`, `ConflictingWarehouseUpdate`, `RecordShipment`,
`RejectShipment`, `Readback`, `IgnoreCancellation`, `RequestCancellation`,
`CancelAtOnce`, or `Park`. Any of them may be rolled back instead (`Abort`), which
also stands for what PostgreSQL rolls back when two transactions wait for each
other. From `WakeParked` to its commit an acceptance holds the rows it has written:
`RowsAreFree` has whoever writes them wait. A message has the version in its payload
(`version`) and the one on its envelope (`envelope`), which may be missing.

The claiming is that of `EventLedger`, which `Inbox` implements: an event is with
one worker at a time (`ClaimIsSecure`) and takes effect at most once
(`OneEffect`), in whatever order. Audit rows are left out. Quantities are net of
cancelled ones, damaged counts as short, and all exceptions these handlers open
are high or critical, as in the code. An acceptance either releases, holds back
(`releaseRequested` or `paymentReleased` false), misses a SKU, or is cancelled.

### SyncOperation

`op[o]` is the row of `sync_operations`, `attempts` the table `sync_attempts`,
`created[o]` counts what the remote system did, `proc[p]` is where process `p`
stands in `executeNext`. Several processes may run under one worker id, as
replicas with one configuration do, so that only the lease token tells their
claims apart; `tokens` stands for `randomUUID`, which never repeats one.

| Code | Action |
|---|---|
| `createOrGet` | `CreateOrGet` |
| `claimNext` | `ClaimNext` |
| `handlers.execute` returns, throws `RemoteResultUnknownError`, throws another error | `ExecuteSucceeds`, `ExecuteUnknown` (after the remote acted or not), `ExecuteRefuses` (retryable or not) |
| `handlers.lookup` | `Lookup` |
| `recordAttempt` | `RecordAttempt` |
| `recordSuccess`, `recordUnknown`, `recordFailure` | `RecordOutcome` |
| `resolveUnknown` of a recovered result | `ResolveUnknown` |
| `requeueAfterConfirmedAbsence`, after somebody's lookup | `OperatorFindsAbsent`, `Requeue` |
| time passes | `BecomesDue`, `LeaseExpires`, `LeaseOutlived` |
| a statement throws; the process dies | `DatabaseError`, `Crash` |

The handlers keep the contract of the executor's error classes: an effect that
nobody can vouch for is a `RemoteResultUnknownError`, any other error says that
the remote system did not act. A database error after a successful `execute`
lands in the `catch` block of the same `try` and counts as a retryable failure
(`Throws`), as in the code. `RemoteOperation` says what is left when rows, leases
and processes are hidden; `ImplementsRemoteOperation` is the refinement, with
`phase` mapped from status and error code by `Phase`.

### Reconciliation

One system pair of one tenant. `lease`, `watermark` and `runs` (with the
findings of each run) are the repository's tables, `runner[r]` where a process
stands in `run()`; `remote` and `local` are the resources on either side, `inbox`
the messages that carry them over, `redelivery` the outbox rows of redelivered
fulfillments. `run()` reads the clock once, so everything it does is done "at"
that time, however late it happens.

| Code | Action |
|---|---|
| `run` fixes `now` | `BeginRun` |
| `start` with a lease row to lock, without one: its read, its writes | `StartRun`, `StartFirst`, `StartWrites` (both with `OpenRun`) |
| the local list | `ReadLocal` |
| a page of the remote list, with `persistPage` for its cursor; an error | `ReadPage`, `RemoteError` |
| `assertLease`, in `persistPage`, `complete` and `fail` | `AssertLease`, a step before the writes it grants |
| compare (`Drift`), `persistPage` with the findings | `PersistFindings` |
| the repair of a finding: ingestion, append, refusal | `Repair` with `RepairInbound`, `RepairOutbound`, `RepairRefused` |
| its `processNext` | `RepairProcesses` |
| `markFindingRepaired` | `MarkFinding` |
| `persistPage` for the number of repairs | `CountRepairs` |
| `complete`: the writes | `CompleteWrites` |
| the `catch` block with `fail`: the writes | `FailRun` |
| providers, inbox worker, dispatcher | `RemoteChanges` (with `Reports`), `Ships`, `InboxWorker` (`Processed`, `Conflicts`, `DeadLettered`), `Dispatcher` |
| the process dies | `Crash` |

A message is processed as the handlers do it: it is applied or not (`Applies`), or
it ends in a conflict that leaves the row `processed`, an exception and nothing
else. Messages about one resource are handled one at a time here; those that race
are in `FulfillmentProcess`. Webhooks and repairs share the stream that ingestion
compares versions in only for orders (`SameStream`): the warehouse's webhooks come as
`mock-wms`, its repairs as `mock-warehouse`.

`Drift` is the table of decisions of `packages/domain/src/reconciliation.ts`:
which category a difference has, and whether it may be repaired unasked.

### OperatorCommands

`exception[x]`, `commands`, `proc`, `message` are the rows of `exceptions`,
`exception_commands`, `process_instances` and `outbox_messages`; `session[s]` is
one HTTP call after the other, each a transaction of `execute`. A transaction
sees what others have committed; rows it wrote or selected for update are locked
until its end, which `WaitsFor` says. The rules (`applyExceptionCommand`) stand in
`ExceptionRules`, which `CommandLedger` shares: there they are applied in one step.

| Code | Action |
|---|---|
| the command row by idempotency key | `Lookup` |
| the exception `for update`, `applyExceptionCommand` | `LockRow` with `Accepts`, `Suits`, `Result` |
| `mapSku`, `retryOutbox` | `Effect` |
| insert of the command, count of the open exceptions | `InsertCommand` |
| update of exception and process, commit | `Commit` with `Recounted` |
| the connection is lost | `Disconnect` |
| `recomputeEligibility`: reads, writes | `RecomputeReads`, `RecomputeWrites` |
| the process manager's readback: reads, commit | `EvaluateReads`, `EvaluateWrites` |
| `openException`; the dispatcher | `Opens`, `Dispatch` |

### RateLimiter

`key[b]` is the Redis key of the bucket that starts at `b * Window`, `time` the
clock of Redis, `req[r]` a request in `enforceRateLimit`, in one of many
processes whose clocks are off by at most `Skew`. `Arrive` fixes the bucket,
`Count` is `INCR` with its reply, `ReplyLost` an `INCR` that was executed or not
and is sent again (`maxRetriesPerRequest: 1`), `Expire` is `PEXPIRE`,
`ExpireFails` its failure or the end of the process before it. `Tick` deletes the
keys that are due; `Restart` deletes them all, since the Redis of
`docker-compose.yml` has no volume.

## What the runs check

Runs that pass:

| Run | Instance | Shows |
|---|---|---|
| `outbox` | 2 messages, 2 workers, 2 faults, every kind of receipt | `LeaseFence`: a worker that passes the guard on status and worker id is recording the attempt the row is at; `SentAfterOneEffect`; `AttemptsPaidFor`: attempts past the limit are as many as crashes, outlived leases and operator retries |
| `outbox_live` | 1 message, 3 workers, 2 faults, 1 operator retry, fair | `ImplementsDelivery`; `ReceiptTrail`: receipts tell the delivery history truthfully, and although the result of `recordReceipt` is ignored, a sent message has the receipt of the attempt that sent it; `EventuallySettled`: every message is sent or dead-lettered |
| `inbox` | 4 events, one of them unhandled, 2 workers, 1 receiver, 1 crash | `ClaimIsSecure`, which is why `processClaim` may ignore the result of its last update; `OneEffect`; `StaleIsOvertaken`; `StrandedPaidFor`: only a crash leaves an event in `processing` for good; `AttemptsBounded`: waiting for the order costs at most one attempt more than the limit; `ImplementsLedger`: every step of a request, a worker, a retry or a crash is one that `EventLedger` allows an event, and a creation wakes exactly those that waited when it called `wakeParked` |
| `inbox_serial` | 5 events, three of them revisions, one without a version on its envelope, and one misaddressed; 1 worker, fair | `NobodyLeftParked`: the wake-up finds whoever waits under the order's name; `RegressionsAreUnversioned`: the version of the order goes back only at the hand of a creator that has no version on its envelope, or a lower one in its payload; `EventuallyDisposed` |
| `revision` | 3 acceptances, one without a version on its envelope, 2 cancellations, 2 warehouse updates, one without the warehouse's order id, 2 workers | `ReleaseIsAnnounced`: whoever wins, a released order has its `wms.create_order` message for the version on record |
| `handoff` | 8 events, 2 workers | `QuantityChain`, `ShipmentEvidence`, `EligibleIsEmitted`, and `BilledIsShipped`: billing is never asked for without a shipment on record; all although decisions are made on reads that may be stale, and come one after the other |
| `handoff_serial` | 10 events, 1 worker | `BillingIsSound` |
| `sync` | 1 operation, 2 processes with one worker id, 2 faults, 1 refusal, 1 requeue, fair | `TokenFence`; `RecreationsPaidFor`: every act of the remote system past the first has cost a crash, an outlived lease or a database error; `AttemptsBackTheRow`; `ImplementsRemoteOperation`; `EventuallyRests` |
| `reconciliation` | each of the 4 pairs, 2 runners, 1 key, 2 contents | `OvertakenRunsAreFenced`: a run that another has started over passes no `assertLease`, leaves the lease and the watermark alone and changes on record only the states of its own findings, but for one write it may have asserted before; `WatermarkIsEnumerated`: the watermark never leaves a gap that no completed run has listed; `CompletedRunsAreExact`: no finding of a completed run is undecided, and its counts are of those found, repaired and left for review; `AbandonedRunsPaidFor`; `RepairsAreBacked`: what is reported repaired has landed, is under way, is a dead letter, has left an exception, or was taken back by an event without a version |
| `operator` | 3 exceptions, 7 requests with 6 keys, 2 sessions | `VersionsCountCommands`: no update is lost although nobody looks at whether it matched; `CommandsAreIdempotent`; `ClosedByOneCommand`; `EligibleIsBilled`; `CommandsNeverDeadlock`; `CommandsAreAtomic`: what is on record and what clients are told is as if commands had been carried out one at a time |
| `rate_limit` | 4 requests, limit 2, skewed clocks, 2 faults, 1 restart | `AdmittedPerBucket`, `RefusedForCause`, `LastingKeysPaidFor` |

TLC visits 645,960 distinct states of `outbox`, 414,404 of `outbox_live`, 948,560 of
`inbox`, 731,522 of `inbox_serial`, 182,022 of `revision`, 790,710 of `handoff`,
75,461 of `handoff_serial` and 2,992,425 of `reconciliation`.

Where a property is checked with one worker only, two workers break it: the code
has no lock or version check that would make the number of workers irrelevant.
The run `handoff_race` shows one of them and is expected to fail: two warehouse
updates in flight, the older of which commits last, violate
`WarehouseVersionNeverRegresses` (`PLAN.md` 798: "Apply only a newer WMS source
version"). `PROJECT.json` quotes the sentence and names the line. While
workers take turns the statement is proved (`WarehouseVersionCorrect`).

The properties that count (`AttemptsPaidFor`, `StrandedPaidFor`,
`RecreationsPaidFor`, `AbandonedRunsPaidFor`, `AdmittedPerBucket`,
`LastingKeysPaidFor`) state what the code gives where a flat guarantee does not
hold: each deviation has its price in crashes, lost replies or leases that ran
out, and nothing else causes one.

## Where the code and the documents part

Reading the code for the models brought up these places, where it differs from
what a document says, or where the number of workers or an unlucky order
matters. The models have this behaviour unless it is said to be left out.

Inbox and process manager:

- `repositories.ts` 325: a claim of the inbox has no lease that expires: the event
  of a dead worker stays in `processing` (`README.md` 64 speaks of a claim "with a
  lease"). `StrandedPaidFor` says that nothing but a crash does this.
- `pm.ts` 861: `wakeParked` is a statement before the commit. An event that
  ingestion or another worker parks after it, because the order is not committed
  yet or was not when it was looked up, misses the one wake-up; it waits for another
  acceptance, and there is no sweeper (`PLAN.md` 872-873 plan one). `EventLedger`
  promises no more than that. `NobodyLeftParked` is therefore checked with one
  worker, and of gated events only with such as wait under another key anyway.
- `inbox-ingestion.ts` 60-71 takes the key of the prerequisite from
  `orderSourceId`, the handlers (`pm.ts` 586-593) from `sourceOrderId` first. A
  warehouse event that gives only the latter is parked under its source entity, and
  no order of that name need ever come.
- `pm.ts` 672: an acceptance without a version on its envelope, which
  `packages/domain/src/integration-events.ts` 152 leaves optional, is not compared
  with the order at all, and the version in its payload is stored (648-651): a single
  worker takes the order back to an older version (`PLAN.md` 1435: "older/out-of-order
  messages cannot corrupt state"). So does an envelope that has a newer version than
  its payload. `RegressionsAreUnversioned` says that nothing else does.
- `repositories.ts` 148: a cancellation that overtakes the acceptance makes it
  stale: the order never exists, and the cancellation waits for ever (`PLAN.md`
  180: "parked and later applied or escalated").
- `repositories.ts` 252: a payload conflict is noted in a second transaction, on a
  row whose status it leaves alone; a crash in between loses the note.
- `pm.ts` 942: a conflict after the billing decision leaves the order marked
  eligible (`PLAN.md` 183: "Invoice eligibility is false while any blocking
  exception ... exists"); only a readback computes it again.
- `pm.ts` 723: with two workers the older of two acceptances in flight may commit
  last; `RegressionsAreUnversioned` is therefore checked with one.
- `pm.ts` 1069: the `catch` block of the shipment handler opens an exception and
  leaves `blockingExceptionCount` as it was, and the count an operator's command
  writes may be one too many (see below): nothing ties the count to the open
  exceptions, and no property is stated about the two. The readback looks at the
  exceptions.
- `pm.ts` 1133: with two workers a conflict may commit between the reads of a
  readback and the emission of its billing message; `BillingIsSound` is therefore
  checked with one. What holds with any number is `BilledIsShipped`, since shipments
  never go away.
- `pm.ts` 1180: a cancellation handled after the release and before the
  acknowledgment finds no warehouse order id, and `wms.cancel_order.v1` is not
  appended later either (`PLAN.md` 813).
- `pm.ts` 718: an acceptance with a newer version overwrites the release status,
  also of a cancelled order (the diagram at `PLAN.md` 438-448 has no transition
  out of Cancelled). `ReleaseIsAnnounced` holds nevertheless.
- `pm.ts` 744: a line that a revision adds gets no fulfillment line, so the
  warehouse's quantities for it are dropped (left out: the model has one line).
- `packages/domain/src/fulfillment-process.ts` 294: another update under the
  version on record is applied; 568: shipments are compared with the packed
  quantity one by one (`PLAN.md` 805 speaks of totals).

Outbox and sync operations:

- `repositories.ts` 593: only `recordFailure` looks at the limit on attempts, so a
  message whose worker dies is claimed beyond it (`docs/RUNBOOK.md` 21 speaks of
  bounded attempts). `AttemptsPaidFor` says by how much.
- `packages/queue/src/sync-operation-executor.ts` 70: after a crash between the
  remote call and its record, the next claim executes again without a lookup.
  `RecreationsPaidFor` says that nothing else repeats the effect.
- The same executor has no limit on attempts: an operation whose `execute` keeps
  failing with a retryable error is retried for ever. `EventuallyRests` assumes
  that such errors end (`MaxRefusals`).

Reconciliation:

- `packages/queue/src/reconciliation.ts` reads the clock once per `run()` and uses
  it for four pairs, and `complete` writes the end of its window whatever the
  watermark has become: a slow run takes it back. What it covers stays covered
  (`WatermarkIsEnumerated`), unless two first runs of a scope whose times lie more
  than the lookback, a day, apart overlap: then nobody lists the time between them.
  The bound `Timely` leaves that out.
- For the same reason a window may be empty or negative; then the check
  constraint `reconciliation_runs_window_ck` makes `start` throw outside any
  `try`, and `run()` rejects without visiting the remaining pairs.
- `markFindingRepaired` and the repairs themselves do not look at the lease, so a
  run that has been overtaken still repairs and marks its own findings. `assertLease`
  reads without a lock, so that a run overtaken right after it still does the one
  write it asserted the lease for, which may complete the run and move the
  watermark. `OvertakenRunsAreFenced` makes these two exceptions.
- `packages/queue/src/reconciliation.ts` 341-343, 354-364: a repair that fails makes
  its finding `manual_required`, but `counts.manual` stays at the findings that the
  comparison left for review. `CompletedRunsAreExact` says so.
- `packages/queue/src/reconciliation.ts` 229-231: a repair whose message ended in a
  conflict is reported as failed; a later run that finds the same message
  `processed` reports `auto_repaired`, with an exception to show for it and nothing
  applied.
- `packages/queue/src/reconciliation.ts` 299: the redelivery of an order has one
  idempotency key for good, so that a second one finds the first; when that is a
  dead letter, or carried fewer lines, the finding is reported repaired all the
  same (`PLAN.md` 1148: "reconciliation rediscovers | repaired finding").
  `RepairsAreBacked` says what a report is worth.
- `packages/queue/src/reconciliation.ts` 591: `fail` throws when the lease is lost,
  in the `catch` block that should report the first error; the run stays `running`
  (`AbandonedRunsPaidFor`).

Operators:

- `packages/db/src/exception-repository.ts` 79-94: the count of blocking exceptions
  is taken before other transactions commit; two operators who close the last two
  exceptions at once leave it at one.
- A repetition that races its first delivery finds the exception at a newer
  version and is told of a version conflict, not of a duplicate.
- `packages/db/src/operator-repository.ts` 502: `recomputeEligibility` passes a
  readback of `missing`, so it can take eligibility away and never give it
  (`PLAN.md` 118: "recompute eligibility deterministically", 1010); 533: it writes
  the version it read plus one, and may set back a decision version.
- `packages/db/src/exception-repository.ts` 248: commands among themselves take locks
  in one order (`CommandsNeverDeadlock`), but `map_sku` writes the exception before
  the order, and an acceptance (`pm.ts` 710, 792) the order before it inserts into
  the index of open exceptions, where it waits for a resolution that has not
  committed. A revision that still misses the SKU and the command that maps it can
  wait for each other until PostgreSQL rolls one of them back; the other order of
  locks is left out of the model, in which `Opens` is one step.
- No endpoint of the API sends `map_sku`, `accept_authoritative_value` or
  `dismiss`, and nothing opens `SHORT_SHIPMENT` or `OUTBOX_DEAD_LETTER`; `map_sku`
  inserts an order line and drops its data when the line exists.

Rate limiting:

- A restart of Redis forgets every count; a resent `INCR` may count a request
  twice, and one that is told 2 gives the key no expiry. `AdmittedPerBucket`,
  `RefusedForCause` and `LastingKeysPaidFor` bound what this does.
- The in-memory store replaces a bucket when the clock steps back (left out).

Not modelled, seen while deciding so:

- `packages/db/src/canonical-repository.ts`: concurrent upserts let an older version
  overwrite a newer one; lines that are gone are never deleted; the comparison of
  update times is as fine as a millisecond.
- `packages/domain/src/state-machines.ts`: hold, block, unblock leads to `received`;
  `replaceLines` does not compare quantities with the lines it replaces; the
  fulfillment statuses `delivered` and `cancelled` cannot be reached.

## Bounds, symmetry, deadlock and fairness

- `MaxAttempts = 2` is the least limit for which a message fails, is retried and
  is given up. `MaxFaults` and `MaxCrashes` bound crashes and outlived leases:
  two of them let a lease change hands twice, so an earlier holder can meet a
  row that has come back to its own id. `MaxManualRetries = 1` sends one dead
  letter round again.
- Two messages and two workers (`outbox`) show interference between rows; three
  workers on one message (`outbox_live`) show three claims of the same row in
  flight.
- Deliveries to the inbox are not bounded: an event can be delivered again at
  any time, which leaves the row as it is. The four events of `inbox` are two
  creators, a dependent event of the same stream, and one of another that ingestion
  gates and nobody handles: each relation that ingestion and the handlers look at
  occurs, and with two workers one may park the dependent event between the
  wake-up of a creation and its commit. `inbox_serial` adds a revision without a
  version on its envelope and an event that waits under another key.
- The handoff instances order a quantity of two, the least for which partial
  shipment, packing and over-allocation differ.
- `sync`: operations share nothing but the processes, so one is enough; two
  processes under one worker id are the least that can take each other's claims.
  Two faults let a lease be lost twice; one refusal and one requeue make each of
  the ways back to a claim happen.
- `reconciliation`: a key is repaired without regard to the others, so one is
  enough for every order of a repair and its rivals; `MaxVersion = 2` lets a
  version be older, equal or newer. Two runners race for the first lease and take
  it over. The clock has three values, and overlap, lease and lookback are one
  tick, so that windows meet, overlap and come to nothing. `MaxEvents = 3` counts
  runs, crashes, changes, errors and dead letters together: three runs, or two
  and something that goes wrong between them. Three more bounds lose nothing that
  the properties see: the clock counts from the first run that lives on
  (`NothingBegun`), since only differences of times matter; a new version of a
  resource begins with the first content, since contents are compared only under
  one version; and only the carrier's resource may not exist at first
  (`EmptyPairs`), since a resource whose event never came is a resource created
  unnoticed, short of the change that it costs. `Timely` keeps the clock from going
  on while a `run()` is older than lookback and overlap together, which in the code
  are a day and more; the clock of the instance ends there, and what `Timely` is
  needed for shows in the proof, which knows no such end.
- `operator`: for the exception `short` there are an assignment and two
  resolutions for successive versions; a key is used for two exceptions; of a
  dead letter there are a retry before and after another command and a dismissal.
  `MaxDecisions = 1` lets the operator and the process manager decide from the
  same read.
- `rate_limit`: two buckets are live at a time, and time runs long enough for the
  first to end, expire and be counted again by a latecomer. Four requests are
  twice the limit.
- Symmetry of workers (and messages, receivers, runners, sessions, requests) is
  used only in runs without liveness properties, and the instances treat them
  alike.
- Deadlock is not checked where everything may be settled: all messages sent or
  dead, all events handled, all operations at rest, all requests answered leave
  nothing to do. The inbox cannot stop, because a sender may always deliver
  again, and there deadlock is checked. `CommandsNeverDeadlock` is about
  locks between transactions, not about the end of a behaviour.
- Fairness (`FairSpec` of `Outbox`, `Inbox` and `SyncOperation`) is weak fairness
  of each worker's own step, of time passing and of a request that was accepted.
  `apps/worker/src/main.ts` does not start a loop yet; that whatever hosts the
  workers calls `dispatchNext`, `processNext` and `executeNext` over and over is
  an assumption. Nothing is assumed of senders, operators, crashes or of a lease
  to outlive its worker. In the outbox and the inbox a step that fails is as good
  as one that succeeds: the attempt limit, not luck, ends the retries.

## What is proved

All theorems assume only what the modules' ASSUMEs say of the constants (the
limit on attempts is positive; versions are numbers, and given where the code
insists on one; a warehouse update has one of the statuses that `pm.ts` 879-889
produces; Null is nobody's name; commands are commands; limit and window of a
rule are positive), and hold for every set of messages, events, workers,
processes, exceptions, requests and sessions. The type invariant of each of
these modules is proved and therefore not a property of its runs.

`OutboxProofs`. `TypeCorrect` is inductive as it stands. `LeaseFence` is not: it
needs that a row in `dispatching` names a worker, that a worker's attempt is
never ahead of its row, and that a live row is not attempted ahead of the worker
that holds it; these are the invariant behind `LeaseFenceCorrect`.
`SentAfterOneEffectCorrect` needs that a worker past the remote call has seen
the effect happen. With both, every step of the outbox is a step of `Delivery`
or leaves it alone, which is `OutboxImplementsDelivery`. `AttemptsPaidForCorrect`
needs to know of each row how many attempts its status allows, and that every
attended claim is matched by a worker, every unattended one by a fault. For
`ReceiptTrailCorrect` the receipts must be true to the deliveries (`Evidence`: no
attempt is ahead of its row, the first delivery of a message is the one that was
not a duplicate, and a worker between the select and the insert of `recordReceipt`,
which may have lost its lease there, still stores the attempt it was at and comes
after whoever caused the effect: `CountedLast`), and a worker past `recordReceipt` that still holds the lease
has its receipt stored; the latter supposes an adapter whose
receipts name the message they are about, as the mock's do.

`InboxProofs`. `ClaimIsSecureCorrect` and `OneEffectCorrect` are proved together
from an invariant that adds to them that at most one transaction holds the
order's row, and that what it has woken stays parked until it commits (`WakeInv`). The lemmas say once what a
commit does to the rows and that the rows of other workers' claims survive it,
the wake-up included. `AttemptsBoundedCorrect` needs that an event is woken only
once there is an order and never parked again; `StaleIsOvertakenCorrect` that a
receiver's verdict is justified by rows that do not go away;
`StrandedPaidForCorrect` that a worker leaves `processing` only by taking its
event out of it, by counting what a step adds to `Stranded`.
`RegressionsAreUnversionedCorrect` and `NobodyLeftParkedCorrect` suppose that no two
workers are inside `processNext` (`OneAtATime`), because there is only one
(`SingleWorker`) or because something outside of this code has them take turns, and
use that what a worker read is then still on record (`FreshRead`) and that the
wake-up has called everybody who waits (`CallsAll`).
`InboxImplementsLedger` shows that every step is one of `EventLedger` or leaves it
alone; it needs that a worker that has read an order is right that there is one
(`LedgerInv`). `OutcomesAreFinalCorrect` is read off the ledger: none of its
turns takes up an event that was processed, ignored or given up.

`FulfillmentProofs`. The type invariant needs a lemma per kind of write. Behind
`QuantityChainCorrect` and `ShipmentEvidenceCorrect` is that the ordered quantity
only grows: whatever was valid for the order as a worker read it is valid for the
order on record (`Bounded`), so a stale read can be outdated and never illegal.
`ReleaseIsAnnounced` and `EligibleIsEmitted` are inductive, because each handler
writes both sides of them in one transaction. `BilledIsShippedCorrect` needs that a
shipment seen is still there (`ShippedInv`), so that a billing decided on it may be
outdated and never groundless. All these hold
for any number of workers. `WarehouseVersionCorrect` and `BillingIsSoundCorrect`
suppose that workers take turns (`OneAtATime`, which `SingleWorker` has for nothing)
and use that what a worker read is then still on record when it commits
(`FreshReads`); `handoff_race` shows that the supposition is needed. `HandlersKeepLedger` is the other half of the composition with
`Inbox`: for any number of workers an event in the hands of a worker is in
`processing` and in nobody else's hands, an order that somebody has read is
still there (`ClaimInv`), and at most one acceptance has called parked events, which
are still parked (`WakeInv`), so that every handler moves its event as `EventLedger`
says.

`SyncOperationProofs`. `TokenFenceCorrect` rests on `FenceInv`: tokens on rows and
in processes have been drawn, and two processes with one token are one. For
`AttemptsBackTheRowCorrect` a process that is about to record an outcome has its
attempt stored and, if the outcome says so, has seen the remote system act
(`EvidenceInv`); attempts and acts only grow (`EvidenceGrows`), so evidence stays
good for whoever reads the row later. With that, every step is a step of
`RemoteOperation` or leaves it alone: `SyncImplementsRemoteOperation`.
`RecreationsPaidForCorrect` balances, per operation, the acts done, the executes
under way (`Executing`) and the one act that a further claim may add free of charge
(`Free`) against one and the faults (`PaidInv`). It needs that the attempt of a
claim has not been reported before (`ReportInv`) and that the finding of an operator
concerns a row that only a requeue opens again.

`ReconciliationProofs`. A step leaves the repository alone, writes to the row of a
run, ends one or opens one (`StepKinds`). `OvertakenRunsAreFencedCorrect` is an action
property: only the latest run ever has the lease (`FenceInv`), so that an overtaken
one fails every assertion, and each of its other steps is looked at for what it
writes (`Fenced`). `AbandonedRunsPaidForCorrect`
counts the runs without their lease: every takeover adds one, and the run that has
the lease with nobody left to finish it is left by a crash. For
`WatermarkIsEnumeratedCorrect` every run starts where a completed one has been or
before any that is completed or at work ends (`Grounded`), and therefore the
completed ones list everything from the end of any of them to the latest
(`EnumInv`). That a first run is on such ground, whoever else is at work, is what
`Timely` is for (`ClockInv`). `CompletedRunsAreExactCorrect` relates the row of a run
to the locals of the one runner that is in it (`DistinctInv`): there is one finding
per key, the findings still to repair are those the runner has left, its count
is the number repaired, and the manual ones were so from the comparison (`ExactInv`). `RunsAreFinalCorrect` says of failed runs too
that their rows never change again: whoever is in a run is alone in it, and it is
running (`LiveInv`), so that a mark set without the lease is set in a run that is
not over. `RepairsAreBackedCorrect` needs more than the
findings: whatever message has come, its version is known locally, or is carried by a
message that waits, was given up or ended in a conflict, or was taken back by one
without a version (`MessagesCarried`), which also holds of one that
was ignored as overtaken; and a runner between an attempt and its mark already has
such a message, so that it does not matter which one `processNext` took
(`BackedInv`).

`OperatorProofs`. `LockInv` states what the row locks give: a session past
`LockRow` has the row as it is on record, and no two are at one exception; a
session that is about to commit has a key that no command on record and no other
such session has. `RecordInv` relates the rows to the commands on record. From
these, `VersionsCountCommandsCorrect`, `ClosedByOneCommandCorrect` and
`CommandsAreIdempotentCorrect`; the unchecked update always matches.
`SentIsNeverRevivedCorrect` needs in addition that a session past `Effect` holds
the outbox row while it is a dead letter. `CommandsAreAtomicCorrect` puts these
together: a commit is `CarryOut` of the ledger, because the row that was locked is
still the row, the rules that were evaluated on it still allow the command, its key
is still free and its dead letter still dead; a repetition is `Repeat`; and every
other step but `Opens` and `Dispatch` leaves the ledger alone. `EligibleIsBilledCorrect` is inductive.
`CommandsNeverDeadlockCorrect` follows from the order of the locks: a command only
waits for one that is further on (`LocksAreOrdered`), so the furthest of any group
waits for none of them.

`RateLimiterProofs`. `AdmissionIsBounded` needs that a key that exists has
counted every admission since it was made, that one made in time cannot expire
before its bucket is over (`BegunInTime`), and therefore that counting starts
again only by a latecomer or a restart. `RefusalHasCause` needs that a count is
what was admitted and what faults have added; `LastingIsPaidFor` counts keys
without an expiry against faults.

Left to TLC: liveness under fairness (`EventuallySettled`, `EventuallyDisposed`,
`EventuallyRests`), out of the reach of TLAPS; and the run with a violation. Every
invariant, action property and refinement of the other runs is also a theorem.

## What is not modelled

- `recordOutcome` of the inbox: only tests call it; the process manager writes
  the outcome in its own transaction.
- Several orders, tenants and lines: claims pick any claimable row, the rows of
  other orders are never touched, and every query is scoped by tenant.
- The oldest-first order of claims: any claimable row may come first, which
  allows every order the code can produce (with `skip locked`, nearly any).
- Versions that are not numbers, which the code compares as text.
- Signature checks, redaction, payload hashes and parsing; a payload that the
  code rejects is a transaction that throws.
- `applyShipmentObservation`, which the process manager does not call.
- The four pairs of one reconciliation `run()` together: each is a scope with
  tables of its own, and what one leaves to the next is the time that has passed,
  which `Reconciliation` has.
- `packages/domain/src/state-machines.ts` and the canonical repositories: only
  tests call them, so that a property of theirs would say nothing of the system.
- The HTTP transport: one request with a timeout and bounded redirects, without
  state that outlives it, which nothing but a test uses. The mock providers, the
  job router, the web console, configuration, observability and the scenario
  scripts have no state that the flows depend on.
- `InMemoryRateLimitStore`, a map within one process, the default where no Redis
  is given.

## Plan

Done, in this order: the outbox with its abstract specification, the inbox, the
process manager; then sync operations with theirs, reconciliation, operator
commands, the rate limiter; the theorems above.

What could come next:

1. `ShipmentObservation` and orders of several lines in `FulfillmentProcess`, once
   the process manager calls `applyShipmentObservation`.
2. The canonical repositories and the transport, when the flows use them.
