--------------------------- MODULE Reconciliation ---------------------------
(***************************************************************************)
(* Reconciliation runs of one system pair of one tenant: the runner        *)
(* (packages/queue/src/reconciliation.ts) and its leases, windows and      *)
(* findings (packages/db/src/reconciliation-repository.ts).                *)
(*                                                                         *)
(* A runner is one call of run() after the other.  run() fixes `now` once  *)
(* and visits four pairs in turn, so the visit of the pair that is         *)
(* modelled comes any time later; its lease owner is a new random name,    *)
(* for which the index of the run stands.  Every transaction, every page   *)
(* that is read and every repair is a step of its own.                     *)
(*                                                                         *)
(* The inbox with the process manager behind it, the outbox and the        *)
(* providers are reduced to what a repair sees of them: a message is       *)
(* received and later processed, ignored or dead, or it ends in a conflict *)
(* that leaves an exception and nothing else.  Messages about one resource *)
(* are handled one at a time; see FulfillmentProcess for those that race.  *)
(***************************************************************************)
EXTENDS Integers, Sequences, FiniteSets, Drift

CONSTANTS
    Runners,          \* processes that call run()
    Keys,             \* resource keys
    CheckedPairs,     \* the pairs to look at, one per behaviour
    EmptyPairs,       \* bound: those whose resources may not exist at first
    Overlap,          \* overlapMs
    LeaseDuration,    \* leaseDurationMs
    Lookback,         \* the 24 hours before the first watermark
    MaxTime,          \* bound: the clock
    MaxEvents         \* bound: runs started, crashes, changes of resources, remote
                      \* errors and dead messages together

ASSUME NullAssumption ==
    Null \notin Int /\ Null \notin Resource /\ Null \notin [owner : Nat, until : Nat]
ASSUME PairAssumption == CheckedPairs \subseteq Pairs
ASSUME TimeAssumption == /\ Overlap \in Nat /\ LeaseDuration \in Nat \ {0}
                         /\ Lookback \in Nat \ {0} /\ MaxTime \in Nat
ASSUME BoundsAssumption == MaxEvents \in Nat /\ IsFiniteSet(Keys)

VARIABLES
    pair,        \* the system pair
    clock,       \* counted from the first run() that lives on
    lease,       \* the row of reconciliation_leases: the owning run, and until
    watermark,   \* last_window_end, or Null
    runs,        \* the rows of reconciliation_runs and reconciliation_findings
    runner,      \* runner[r]: where r stands in run(), and its locals
    remote, local,   \* the resources on either side
    inbox,       \* the messages that carry resources to the local side
    redelivery,  \* redelivery[k]: the outbox row commerce-reconciliation:k
    crashes, takeovers, events

repository == <<lease, watermark, runs>>
data == <<remote, local, inbox, redelivery>>
counters == <<crashes, takeovers, events>>
vars == <<pair, clock, repository, runner, data, counters>>

Times == (0 - Lookback - Overlap)..MaxTime
RunIds == 1..MaxEvents
Copies == Resource \cup {Null}

\* sourceValues keep the remote version the finding is about, and recommendedAction
\* what to do about it.
Finding == [key : Keys, version : 0..MaxVersion, category : Categories,
            action : {"repair", "review"},
            status : {"repairable", "manual_required", "auto_repaired"}]

Run == [status : {"running", "completed", "failed"}, windowStart : Times,
        windowEnd : Times, findings : SUBSET Finding,
        detected : Nat, repaired : Nat, manual : Nat]

\* versioned: whether the envelope carries the version too.  conflict: the row is
\* processed, but all that was done is to open an exception.
Message == [origin : {"provider", "reconciliation"}, key : Keys, body : Resource,
            versioned : BOOLEAN,
            status : {"received", "processed", "ignored", "conflict", "dead_letter"}]

\* The steps before an assertLease, and those of the writes it guards.
AssertingSteps == {"persist", "count", "complete", "failing"}
WritingSteps == {"persisting", "counting", "commit", "fail"}

Steps == {"idle", "start", "starting", "local", "remote", "repair", "process", "mark"}
         \cup AssertingSteps \cup WritingSteps

\* The locals of a visit: the run, the copies read, the findings still to repair
\* (the first of them being repaired) and how the repairs went.
Locals == [step : Steps, now : Times, run : RunIds \cup {0}, base : Times,
           ours : [Keys -> Copies], theirs : [Keys -> Copies], unread : SUBSET Keys,
           todo : SUBSET Keys, success : BOOLEAN, repaired : Nat]

Budget == Len(runs) + events + crashes < MaxEvents

Unknown == [k \in Keys |-> Null]

IdleRunner == [step |-> "idle", now |-> 0, run |-> 0, base |-> 0, ours |-> Unknown,
               theirs |-> Unknown, unread |-> {}, todo |-> {}, success |-> FALSE,
               repaired |-> 0]

FirstContent == CHOOSE c \in Contents : TRUE

\* An order that nothing was shipped for, and its readback.
Unshipped == [version |-> 0, content |-> FirstContent, status |-> "missing", shipped |-> 0]

\* A resource whose event never came.
Unreported == [version |-> IF pair = "carrier_shipment" THEN 0 ELSE 1,
               content |-> FirstContent, status |-> "reflected", shipped |-> 0]

Beginnings == {Unreported} \cup IF pair \in EmptyPairs THEN {Null} ELSE {}

Readback == pair = "shipment_commerce_fulfillment"

Init ==
    /\ pair \in CheckedPairs
    /\ clock = 0
    /\ lease = Null
    /\ watermark = Null
    /\ runs = <<>>
    /\ runner = [r \in Runners |-> IdleRunner]
    /\ remote \in [Keys -> IF Readback THEN {Unshipped} ELSE Beginnings]
    /\ local = [k \in Keys |-> IF Readback THEN Unshipped ELSE Null]
    /\ inbox = {}
    /\ redelivery = [k \in Keys |-> "none"]
    /\ crashes = 0
    /\ takeovers = 0
    /\ events = 0

-----------------------------------------------------------------------------
(* Providers, the inbox and the outbox *)

Replace(m, status) == (inbox \ {m}) \cup {[m EXCEPT !.status = status]}

\* A change may be reported or not, and that of an order without its version in the
\* envelope.
Reports(k, body) ==
    {{}} \cup
    {{[origin |-> "provider", key |-> k, body |-> body, versioned |-> versioned,
       status |-> "received"]} :
       versioned \in IF pair = "commerce_order" THEN BOOLEAN ELSE {TRUE}}

\* A provider creates or changes a resource.  The carrier's shipments have no version;
\* a version may stand while the content changes.  Bound: a version begins with one and
\* the same content, for contents are compared only under one version.
RemoteChanges(k) ==
    /\ ~Readback
    /\ Budget
    /\ \E body \in Resource : \E report \in Reports(k, body) :
         /\ body.status # "missing" /\ body.shipped = 0
         /\ body # remote[k]
         /\ remote[k] = Null \/ body.version # remote[k].version =>
              body.content = FirstContent
         /\ IF pair = "carrier_shipment" THEN body.version = 0
            ELSE IF remote[k] = Null THEN body.version = 1
                 ELSE body.version \in {remote[k].version, remote[k].version + 1}
         /\ remote' = [remote EXCEPT ![k] = body]
         /\ inbox' = inbox \cup report
    /\ events' = events + 1
    /\ UNCHANGED <<pair, clock, repository, runner, local, redelivery, crashes, takeovers>>

\* Something is shipped, and commerce reflects it or the update is lost.
Ships(k) ==
    /\ Readback
    /\ Budget
    /\ local[k].shipped < MaxVersion
    /\ local' = [local EXCEPT ![k] = [local[k] EXCEPT !.shipped = local[k].shipped + 1]]
    /\ \/ remote' = [remote EXCEPT ![k] =
            [remote[k] EXCEPT !.status = "reflected", !.shipped = local[k].shipped + 1]]
       \/ UNCHANGED remote
    /\ events' = events + 1
    /\ UNCHANGED <<pair, clock, repository, runner, inbox, redelivery, crashes, takeovers>>

\* Whether the handler replaces the local copy.  An acceptance is compared by the
\* version in its envelope, if any; a warehouse update of the same version is applied
\* again; a shipment on record stays as it is.
Applies(m) ==
    LET known == local[m.key]
    IN \/ known = Null
       \/ /\ pair = "commerce_order"
          /\ m.body.version # known.version
          /\ m.versioned => m.body.version > known.version
       \/ pair = "warehouse_fulfillment" /\ m.body.version >= known.version

\* processNext succeeds with whichever message is first in line.
Processed(m) ==
    /\ m.status = "received"
    /\ local' = IF Applies(m) THEN [local EXCEPT ![m.key] = m.body] ELSE local
    /\ inbox' = Replace(m, IF Applies(m) \/ pair = "carrier_shipment"
                           THEN "processed" ELSE "ignored")
    /\ UNCHANGED events

\* The handler of an update or a shipment objects to it and opens an exception.
Conflicts(m) ==
    /\ pair \in {"warehouse_fulfillment", "carrier_shipment"}
    /\ m.status = "received"
    /\ inbox' = Replace(m, "conflict")
    /\ UNCHANGED <<local, events>>

\* processNext gives up on it.
DeadLettered(m) ==
    /\ m.status = "received"
    /\ Budget
    /\ inbox' = Replace(m, "dead_letter")
    /\ events' = events + 1
    /\ UNCHANGED local

InboxWorker ==
    /\ \E m \in inbox : Processed(m) \/ Conflicts(m) \/ DeadLettered(m)
    /\ UNCHANGED <<pair, clock, repository, runner, remote, redelivery, crashes, takeovers>>

\* The dispatcher delivers the redelivered update: commerce reflects the lines of
\* the first shipment, or the message ends as a dead letter.
Dispatcher(k) ==
    /\ redelivery[k] = "queued"
    /\ \/ /\ redelivery' = [redelivery EXCEPT ![k] = "sent"]
          /\ remote' = [remote EXCEPT ![k] =
               [remote[k] EXCEPT !.status = "reflected", !.shipped = 1]]
          /\ UNCHANGED events
       \/ /\ Budget
          /\ redelivery' = [redelivery EXCEPT ![k] = "dead_letter"]
          /\ events' = events + 1
          /\ UNCHANGED remote
    /\ UNCHANGED <<pair, clock, repository, runner, local, inbox, crashes, takeovers>>

-----------------------------------------------------------------------------
(* Starting a run *)

\* The rest of the visit needs no copies.
Goes(r, run, step) ==
    runner' = [runner EXCEPT ![r] =
      [IdleRunner EXCEPT !.step = step, !.now = runner[r].now, !.run = run]]

\* Bound: no run() under way is older than the lookback, a day, and the overlap.
Timely(time) ==
    \A r \in Runners : runner[r].step # "idle" => time <= runner[r].now + Lookback + Overlap

NothingBegun == runs = <<>> /\ \A r \in Runners : runner[r].step = "idle"

\* Time passes, run() begins and fixes its time.  Nothing else looks at the clock.
BeginRun(r) ==
    /\ runner[r].step = "idle"
    /\ clock' \in clock..MaxTime
    /\ NothingBegun => clock' = clock
    /\ Timely(clock')
    /\ runner' = [runner EXCEPT ![r] = [IdleRunner EXCEPT !.step = "start", !.now = clock']]
    /\ UNCHANGED <<pair, repository, data, counters>>

\* A window that starts where the run does.
FreshBase(r) == runner[r].now

WatermarkBase(r) == IF watermark = Null THEN runner[r].now - Lookback ELSE watermark

\* The rest of start: the lease is taken whoever has it by now, and the run is
\* inserted unless reconciliation_runs_window_ck refuses its window: then start
\* throws, the transaction is rolled back and run() rejects.
OpenRun(r, base) ==
    IF base - Overlap < runner[r].now
    THEN /\ Budget
         /\ lease' = [owner |-> Len(runs) + 1, until |-> runner[r].now + LeaseDuration]
         /\ runs' = Append(runs, [status |-> "running", windowStart |-> base - Overlap,
                                  windowEnd |-> runner[r].now, findings |-> {},
                                  detected |-> 0, repaired |-> 0, manual |-> 0])
         /\ Goes(r, Len(runs) + 1, "local")
         /\ takeovers' = takeovers + IF lease = Null THEN 0 ELSE 1
         /\ UNCHANGED watermark
    ELSE /\ runner' = [runner EXCEPT ![r] = IdleRunner]
         /\ UNCHANGED <<repository, takeovers>>

\* start with a lease row: it is locked for update, and busy until it expires.
StartRun(r) ==
    /\ runner[r].step = "start"
    /\ lease # Null
    /\ IF lease.until > runner[r].now
       THEN /\ runner' = [runner EXCEPT ![r] = IdleRunner]
            /\ UNCHANGED <<repository, takeovers>>
       ELSE OpenRun(r, WatermarkBase(r))
    /\ UNCHANGED <<pair, clock, data, crashes, events>>

\* start without one: there is nothing to lock.
StartFirst(r) ==
    /\ runner[r].step = "start"
    /\ lease = Null
    /\ runner' = [runner EXCEPT ![r] =
         [runner[r] EXCEPT !.step = "starting", !.base = WatermarkBase(r)]]
    /\ UNCHANGED <<pair, clock, repository, data, counters>>

StartWrites(r) ==
    /\ runner[r].step = "starting"
    /\ OpenRun(r, runner[r].base)
    /\ UNCHANGED <<pair, clock, data, crashes, events>>

-----------------------------------------------------------------------------
(* Reading and comparing *)

\* An assertLease that accepts any lease.
OwnsAny(r) == lease # Null

\* assertLease: by the time the run began with, a lease of its own never expires.
Owns(r) ==
    /\ lease # Null /\ lease.owner = runner[r].run /\ lease.until >= runner[r].now
    /\ runs[runner[r].run].status = "running"

Granted(step) ==
    CASE step = "persist" -> "persisting"
      [] step = "count" -> "counting"
      [] step = "complete" -> "commit"
      [] step = "failing" -> "fail"

\* assertLease reads without a lock, and throws when the lease is lost.  Thrown out of
\* fail, in the catch block, it makes run() reject and leaves the run running.
AssertLease(r) ==
    LET step == runner[r].step
    IN /\ step \in AssertingSteps
       /\ IF Owns(r) THEN runner' = [runner EXCEPT ![r] = [runner[r] EXCEPT !.step = Granted(step)]]
          ELSE IF step = "failing" THEN runner' = [runner EXCEPT ![r] = IdleRunner]
          ELSE Goes(r, runner[r].run, "failing")
       /\ UNCHANGED <<pair, clock, repository, data, counters>>

ReadLocal(r) ==
    /\ runner[r].step = "local"
    /\ runner' = [runner EXCEPT ![r] =
         [runner[r] EXCEPT !.step = "remote", !.ours = local, !.unread = Keys]]
    /\ UNCHANGED <<pair, clock, repository, data, counters>>

\* One page of the remote list, and persistPage for its cursor.  The readbacks
\* are asked for one by one, and persist nothing.
ReadPage(r) ==
    /\ runner[r].step = "remote"
    /\ IF Owns(r) \/ Readback
       THEN \E k \in runner[r].unread :
              runner' = [runner EXCEPT ![r] = [runner[r] EXCEPT
                !.unread = runner[r].unread \ {k},
                !.theirs = [runner[r].theirs EXCEPT ![k] = remote[k]],
                !.step = IF runner[r].unread = {k} THEN "persist" ELSE "remote"]]
       ELSE Goes(r, runner[r].run, "failing")
    /\ UNCHANGED <<pair, clock, repository, data, counters>>

\* The adapter throws.
RemoteError(r) ==
    /\ runner[r].step = "remote"
    /\ Budget
    /\ Goes(r, runner[r].run, "failing")
    /\ events' = events + 1
    /\ UNCHANGED <<pair, clock, repository, data, crashes, takeovers>>

Drifted(r) ==
    {k \in Keys : Compare(pair, runner[r].theirs[k], runner[r].ours[k]) # NoDrift}

FindingOf(r, k) ==
    LET theirs == runner[r].theirs[k]
        found == Compare(pair, theirs, runner[r].ours[k])
    IN [key |-> k, version |-> IF theirs = Null THEN 0 ELSE theirs.version,
        category |-> found.category, action |-> IF found.auto THEN "repair" ELSE "review",
        status |-> IF found.auto THEN "repairable" ELSE "manual_required"]

\* persistPage with the findings and their counts; the repairs follow.
PersistFindings(r) ==
    LET rows == {FindingOf(r, k) : k \in Drifted(r)}
        todo == {f.key : f \in {g \in rows : g.status = "repairable"}}
        i == runner[r].run
    IN /\ runner[r].step = "persisting"
       /\ runs' = [runs EXCEPT ![i] = [runs[i] EXCEPT
            !.findings = rows,
            !.detected = runs[i].detected + Cardinality(Drifted(r)),
            !.manual = runs[i].manual + Cardinality(Drifted(r) \ todo)]]
       /\ runner' = [runner EXCEPT ![r] = [runner[r] EXCEPT
            !.step = "repair", !.ours = Unknown, !.todo = todo,
            !.theirs = [k \in Keys |-> IF k \in todo THEN runner[r].theirs[k] ELSE Null]]]
       /\ UNCHANGED <<pair, clock, lease, watermark, data, counters>>

-----------------------------------------------------------------------------
(* Repairs *)

Attempted(r, success, step) ==
    runner' = [runner EXCEPT ![r] = [runner[r] EXCEPT !.success = success, !.step = step]]

\* The message a repair ingests has the idempotency key of its version, so that
\* a repeated repair finds the message of the first.
SameKey(m, k, body) ==
    /\ m.origin = "reconciliation" /\ m.key = k
    /\ pair = "carrier_shipment" \/ m.body.version = body.version

\* Webhooks and repairs share one stream of versions only for orders; those of the
\* warehouse come under the names mock-wms and mock-warehouse.
SameStream(m, k) ==
    m.key = k /\ m.versioned /\ (m.origin = "reconciliation" \/ pair = "commerce_order")

\* applyInboundRepair, first half: ingest.  Another payload under the same key
\* is a conflict and throws.  A message ingest takes for overtaken is ignored.
RepairInbound(r, k) ==
    LET body == runner[r].theirs[k]
        message == [origin |-> "reconciliation", key |-> k, body |-> body,
                    versioned |-> TRUE, status |-> "received"]
        overtaken == \E m \in inbox : SameStream(m, k) /\ m.body.version > body.version
    IN /\ ~Readback
       /\ IF \E m \in inbox : SameKey(m, k, body)
          THEN /\ \E m \in inbox :
                    /\ SameKey(m, k, body)
                    /\ IF m.body # body THEN Attempted(r, FALSE, "failing")
                       ELSE IF m.status \in {"processed", "conflict", "ignored"}
                            THEN Attempted(r, TRUE, "mark")
                            ELSE Attempted(r, FALSE, "process")
               /\ UNCHANGED inbox
          ELSE IF overtaken
               THEN /\ inbox' = inbox \cup {[message EXCEPT !.status = "ignored"]}
                    /\ Attempted(r, TRUE, "mark")
               ELSE /\ inbox' = inbox \cup {message}
                    /\ Attempted(r, FALSE, "process")
       /\ UNCHANGED redelivery

\* A repair that takes an unknown order for nothing to do.
RepairSkipped(r) ==
    /\ pair # "commerce_order"
    /\ Attempted(r, TRUE, "mark")
    /\ UNCHANGED <<inbox, redelivery>>

\* The order is not known here, or no shipment of it.
RepairRefused(r) ==
    /\ pair # "commerce_order"
    /\ Attempted(r, FALSE, "mark")
    /\ UNCHANGED <<inbox, redelivery>>

\* append: once per order, whatever became of the row.
RepairOutbound(r, k) ==
    /\ Readback
    /\ redelivery' = IF redelivery[k] = "none"
                     THEN [redelivery EXCEPT ![k] = "queued"] ELSE redelivery
    /\ Attempted(r, TRUE, "mark")
    /\ UNCHANGED inbox

\* The repairs go one by one, without a look at the lease.
NextRepair(r) == CHOOSE k \in runner[r].todo : TRUE

Repair(r) ==
    /\ runner[r].step = "repair"
    /\ IF runner[r].todo = {}
       THEN /\ IF runner[r].repaired > 0 THEN Attempted(r, FALSE, "count")
               ELSE Goes(r, runner[r].run, "complete")
            /\ UNCHANGED <<inbox, redelivery>>
       ELSE \/ RepairInbound(r, NextRepair(r))
            \/ RepairRefused(r)
            \/ RepairOutbound(r, NextRepair(r))
    /\ UNCHANGED <<pair, clock, repository, remote, local, counters>>

\* applyInboundRepair, second half: processNext takes the next message in line,
\* which need not be the one just ingested.  A conflict counts as a failure, and so
\* do a message that is parked or put back for a retry and an empty queue.
RepairProcesses(r) ==
    /\ runner[r].step = "process"
    /\ \/ /\ \E m \in inbox : Processed(m)
          /\ Attempted(r, TRUE, "mark")
       \/ /\ \E m \in inbox : Conflicts(m) \/ DeadLettered(m)
          /\ Attempted(r, FALSE, "mark")
       \/ /\ Attempted(r, FALSE, "mark")
          /\ UNCHANGED <<local, inbox, events>>
    /\ UNCHANGED <<pair, clock, repository, remote, redelivery, crashes, takeovers>>

\* A failed repair that is left as it was found.
OnlySuccess(success) == IF success THEN "auto_repaired" ELSE "repairable"

RepairStatus(success) == IF success THEN "auto_repaired" ELSE "manual_required"

\* markFindingRepaired, by the id of the finding alone.
MarkFinding(r) ==
    LET i == runner[r].run
        k == NextRepair(r)
        mark == RepairStatus(runner[r].success)
    IN /\ runner[r].step = "mark"
       /\ runs' = [runs EXCEPT ![i] = [runs[i] EXCEPT !.findings =
            {IF f.key = k THEN [f EXCEPT !.status = mark] ELSE f : f \in runs[i].findings}]]
       /\ runner' = [runner EXCEPT ![r] = [runner[r] EXCEPT
            !.step = "repair", !.todo = runner[r].todo \ {k}, !.success = FALSE,
            !.repaired = runner[r].repaired + IF runner[r].success THEN 1 ELSE 0]]
       /\ UNCHANGED <<pair, clock, lease, watermark, data, counters>>

\* persistPage without findings, for the number of repairs.
CountRepairs(r) ==
    LET i == runner[r].run
    IN /\ runner[r].step = "counting"
       /\ runs' = [runs EXCEPT ![i] =
            [runs[i] EXCEPT !.repaired = runs[i].repaired + runner[r].repaired]]
       /\ Goes(r, i, "complete")
       /\ UNCHANGED <<pair, clock, lease, watermark, data, counters>>

-----------------------------------------------------------------------------
(* Ending a run *)

Released(r) == IF lease # Null /\ lease.owner = runner[r].run THEN Null ELSE lease

\* complete: the run, the watermark and the lease.
CompleteWrites(r) ==
    LET i == runner[r].run
    IN /\ runner[r].step = "commit"
       /\ runs' = [runs EXCEPT ![i] = [runs[i] EXCEPT !.status = "completed"]]
       /\ watermark' = runs[i].windowEnd
       /\ lease' = Released(r)
       /\ runner' = [runner EXCEPT ![r] = IdleRunner]
       /\ UNCHANGED <<pair, clock, data, counters>>

\* A catch block that releases the lease without recording the failure.
OnlyRelease(r) ==
    /\ runner[r].step = "fail"
    /\ lease' = Released(r)
    /\ runner' = [runner EXCEPT ![r] = IdleRunner]
    /\ UNCHANGED <<pair, clock, runs, watermark, data, counters>>

\* fail, in the catch block: an error takes the place of the counts.
FailRun(r) ==
    LET i == runner[r].run
    IN /\ runner[r].step = "fail"
       /\ runs' = [runs EXCEPT ![i] = [runs[i] EXCEPT
            !.status = "failed", !.detected = 0, !.repaired = 0, !.manual = 0]]
       /\ lease' = Released(r)
       /\ runner' = [runner EXCEPT ![r] = IdleRunner]
       /\ UNCHANGED <<pair, clock, watermark, data, counters>>

Crash(r) ==
    /\ runner[r].step # "idle"
    /\ Budget
    /\ runner' = [runner EXCEPT ![r] = IdleRunner]
    /\ crashes' = crashes + 1
    /\ UNCHANGED <<pair, clock, repository, data, takeovers, events>>

-----------------------------------------------------------------------------
Visit(r) ==
    \/ StartRun(r) \/ StartFirst(r) \/ StartWrites(r)
    \/ ReadLocal(r) \/ ReadPage(r) \/ AssertLease(r) \/ PersistFindings(r)
    \/ Repair(r) \/ RepairProcesses(r) \/ MarkFinding(r) \/ CountRepairs(r)
    \/ CompleteWrites(r) \/ FailRun(r)

Next ==
    \/ InboxWorker
    \/ \E k \in Keys : RemoteChanges(k) \/ Ships(k) \/ Dispatcher(k)
    \/ \E r \in Runners : BeginRun(r) \/ Visit(r) \/ RemoteError(r) \/ Crash(r)

Spec == Init /\ [][Next]_vars

-----------------------------------------------------------------------------
(* Properties *)

\* Every variable holds what the columns and locals it models can hold.
TypeOK ==
    /\ pair \in Pairs
    /\ clock \in 0..MaxTime
    /\ lease \in [owner : RunIds, until : Nat] \cup {Null}
    /\ watermark \in Times \cup {Null}
    /\ runs \in Seq(Run) /\ Len(runs) <= MaxEvents
    /\ runner \in [Runners -> Locals]
    /\ \A r \in Runners : runner[r].run # 0 => runner[r].run \in DOMAIN runs
    /\ remote \in [Keys -> Copies] /\ local \in [Keys -> Copies]
    /\ inbox \subseteq Message
    /\ redelivery \in [Keys -> {"none", "queued", "sent", "dead_letter"}]
    /\ crashes \in Nat /\ takeovers \in Nat /\ events \in Nat

Overtaken(r) == runner[r].run # 0 /\ runner[r].run < Len(runs)

\* A run that a later one has started over, in a race for the first lease or when its
\* own expired, is fenced off: it passes no assertLease any more, never touches the
\* other's lease, and all it changes on record is the state of its own findings, which
\* markFindingRepaired writes unguarded; except for the one write that it may have
\* asserted before, which still moves the watermark if it is a completion.
OvertakenRunsAreFenced ==
    [][\A r \in Runners :
         Overtaken(r) /\ runner'[r] # runner[r] =>
           /\ runner'[r].step \notin WritingSteps
           /\ runner[r].step = "remote" /\ ~Readback => runner'[r].step \in {"failing", "idle"}
           /\ UNCHANGED lease
           /\ runner[r].step \notin WritingSteps =>
                /\ UNCHANGED watermark
                /\ \A i \in DOMAIN runs :
                     \/ runs'[i] = runs[i]
                     \/ /\ i = runner[r].run
                        /\ runs'[i] = [runs[i] EXCEPT !.findings = runs'[i].findings]]_vars

\* The watermark advances over enumerated time only: every instant between the
\* end of any completed run and the watermark lies in the window of a completed
\* run, although runs overtake each other and a slow run() may end with a
\* watermark older than the one it met.
WatermarkIsEnumerated ==
    \A i \in DOMAIN runs :
      runs[i].status = "completed" =>
        \A t \in runs[i].windowEnd..(watermark - 1) :
          \E j \in DOMAIN runs : /\ runs[j].status = "completed"
                                 /\ runs[j].windowStart <= t /\ t < runs[j].windowEnd

\* A completed run has decided every finding, and its counts are exact, whatever lease
\* was lost, repair failed or run raced: those found, those repaired, and as manual
\* those that the comparison left for review.  A failed repair is manual_required as
\* well, but counts.manual does not say so.
CompletedRunsAreExact ==
    \A i \in DOMAIN runs :
      runs[i].status = "completed" =>
        /\ \A f \in runs[i].findings : f.status # "repairable"
        /\ runs[i].detected = Cardinality(runs[i].findings)
        /\ runs[i].repaired =
             Cardinality({f \in runs[i].findings : f.status = "auto_repaired"})
        /\ runs[i].manual = Cardinality({f \in runs[i].findings : f.action = "review"})

\* A run that stays running for good was abandoned by a process that died or was
\* overtaken by one that took its lease.
AbandonedRunsPaidFor ==
    Cardinality({i \in DOMAIN runs : /\ runs[i].status = "running"
                                     /\ \A r \in Runners : runner[r].run # i})
      <= crashes + takeovers

\* The repair of the version a finding is about has been given up.
GivenUp(f) ==
    \/ redelivery[f.key] = "dead_letter"
    \/ \E m \in inbox :
         m.key = f.key /\ m.body.version >= f.version /\ m.status = "dead_letter"

\* The repair has arrived.
Landed(f) ==
    IF Readback THEN redelivery[f.key] = "sent"
    ELSE local[f.key] # Null /\ local[f.key].version >= f.version

\* The repair is in the hands of the inbox or the outbox.
UnderWay(f) ==
    \/ redelivery[f.key] = "queued"
    \/ \E m \in inbox :
         m.key = f.key /\ m.body.version >= f.version /\ m.status = "received"

\* It has ended in a conflict, which left an exception: a later run that comes upon
\* its message takes the repair for done.
Contested(f) ==
    \E m \in inbox : m.key = f.key /\ m.body.version >= f.version /\ m.status = "conflict"

\* An older state has been applied since: an event without a version in its envelope.
TakenBack(f) ==
    \E m \in inbox : /\ m.key = f.key /\ m.body.version < f.version
                      /\ ~m.versioned /\ m.status = "processed"

\* A drift that a run reports as repaired has a durable repair: it has landed, is
\* under way, is among the dead letters, or has left an exception, although the
\* runner that says so may have died since and may have processed quite another
\* message.  What has landed is undone at most by an event without a version.
RepairsAreBacked ==
    \A i \in DOMAIN runs : \A f \in runs[i].findings :
      f.status = "auto_repaired" =>
        Landed(f) \/ UnderWay(f) \/ GivenUp(f) \/ Contested(f) \/ TakenBack(f)
=============================================================================
