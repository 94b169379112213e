------------------------- MODULE FulfillmentProcess -------------------------
(***************************************************************************)
(* The fulfillment process manager (packages/queue/src/                    *)
(* fulfillment-process-manager.ts) with the domain rules it applies        *)
(* (packages/domain/src/fulfillment-process.ts, quantities.ts and          *)
(* invoice-eligibility.ts), for one order with one line.                   *)
(*                                                                         *)
(* A worker claims an event, reads the order and then the fulfillment      *)
(* (loadAggregate, without locks, at READ COMMITTED), decides, and commits *)
(* everything the handler writes at once; an acceptance wakes the parked   *)
(* events in a statement before.  The claiming is that of module Inbox,    *)
(* reduced to what it guarantees: an event is with one worker at a time    *)
(* and takes effect at most once, in whatever order.                       *)
(*                                                                         *)
(* Quantities are those of the one line; short also stands for damaged.    *)
(* Version 0, warehouse order 0 and quantity 0 of a shipment mean none.    *)
(* Audit records are left out, and so are operator commands.               *)
(***************************************************************************)
EXTENDS Naturals

CONSTANTS
    Events,         \* inbound messages
    Payload,        \* Payload[e]: what e says, a record of the set Message
    Shipments,      \* source shipment ids
    Workers,        \* worker ids
    Null,           \* no event
    AllowPartial    \* config.allowPartialInvoiceEligibility, "yes" or "no"

Line == [alloc : Nat, pick : Nat, pack : Nat, ship : Nat, short : Nat]

Kinds == {"accepted", "warehouse", "shipment", "readback", "cancelled"}

\* What an acceptance asks for, the status of a warehouse update or a readback.
Says == {"release", "hold", "cancelled", "no_sku",
         "acknowledged", "picking", "packed", "shipped", "short",
         "reflected", "missing"}

\* version is what the handler stores, the payload's if it has one, and envelope the
\* source version of the message itself, 0 if it has none.  qty is the quantity
\* ordered, shipped or read back.
Message == [kind : Kinds, version : Nat, envelope : Nat, says : Says, qty : Nat,
            warehouse : Nat,
            lines : {"given", "omitted"}, line : Line, correction : {"yes", "no"},
            shipment : Shipments]

ASSUME PayloadAssumption ==
    /\ Payload \in [Events -> Message]
    /\ \A e \in Events :
         Payload[e].kind \in {"accepted", "warehouse"} => Payload[e].version > 0
    /\ \A e \in Events :
         Payload[e].kind = "warehouse" =>
           Payload[e].says \in {"acknowledged", "picking", "packed", "shipped", "short",
                                "cancelled"}
ASSUME NullAssumption == Null \notin Events

VARIABLES
    order,     \* the row of orders: version 0 while there is none
    ful,       \* the row of fulfillments and its line, if tracked
    proc,      \* the row of process_instances
    open,      \* active keys of the open exceptions; all are high or critical
    shipped,   \* shipped[s]: quantity on record for shipment s
    outbox,    \* idempotency keys appended, by destination and message type
    event,     \* event[e]: what has become of e
    worker     \* worker[w]: where w stands, and what its transaction read

vars == <<order, ful, proc, open, shipped, outbox, event, worker>>

Releases == {"none", "pending", "released", "held", "cancel_requested", "cancelled"}
FulStatuses == {"not_sent", "acknowledged", "picking", "packed", "partially_shipped",
                "shipped", "exception", "cancelled"}
ExceptionKeys == {"MISSING_SKU_MAPPING", "CANCEL_AFTER_SHIPMENT", "INVALID_QUANTITY",
                  "WAREHOUSE_IDENTITY_CONFLICT", "NON_MONOTONIC_WMS_UPDATE",
                  "INVALID_QUANTITY:shipment"}
ProcSteps == Releases \cup FulStatuses \cup
             {"release_requested", "shipment_recorded", "invoice_ready", "invoice_blocked"}

Order == [version : Nat, release : Releases, ordered : Nat]
Fulfillment == [version : Nat, warehouse : Nat, status : FulStatuses,
                tracked : {"yes", "no"}, line : Line]
Process == [step : ProcSteps, blocking : Nat, eligible : {"yes", "no"}, decision : Nat]
Outbox == [create : SUBSET Nat, cancel : SUBSET Events, label : {"none", "appended"},
           publish : SUBSET Shipments, bill : SUBSET (Nat \X {"full_order", "partial_shipment"})]
WorkerState == [step : {"idle", "order", "fulfillment", "shipment", "exceptions", "commit",
                        "woken"},
                event : Events \cup {Null}, order : Order, ful : Fulfillment,
                decision : Nat, tracking : {"yes", "no"}, open : SUBSET ExceptionKeys,
                woken : SUBSET Events]

ZeroLine == [alloc |-> 0, pick |-> 0, pack |-> 0, ship |-> 0, short |-> 0]
NoOrder == [version |-> 0, release |-> "none", ordered |-> 0]
NoFulfillment == [version |-> 0, warehouse |-> 0, status |-> "not_sent",
                  tracked |-> "no", line |-> ZeroLine]
NoProcess == [step |-> "none", blocking |-> 0, eligible |-> "no", decision |-> 0]
IdleWorker == [step |-> "idle", event |-> Null, order |-> NoOrder, ful |-> NoFulfillment,
               decision |-> 0, tracking |-> "no", open |-> {}, woken |-> {}]

Init ==
    /\ order = NoOrder
    /\ ful = NoFulfillment
    /\ proc = NoProcess
    /\ open = {}
    /\ shipped = [s \in Shipments |-> 0]
    /\ outbox = [create |-> {}, cancel |-> {}, label |-> "none", publish |-> {}, bill |-> {}]
    /\ event = [e \in Events |-> "received"]
    /\ worker = [w \in Workers |-> IdleWorker]

-----------------------------------------------------------------------------
(* Claiming and loading *)

Claim(w) ==
    /\ worker[w].step = "idle"
    /\ \E e \in Events :
         /\ event[e] = "received"
         /\ event' = [event EXCEPT ![e] = "processing"]
         /\ worker' = [worker EXCEPT ![w] = [IdleWorker EXCEPT !.step = "order", !.event = e]]
    /\ UNCHANGED <<order, ful, proc, open, shipped, outbox>>

\* loadAggregate: orders and order_lines.
LoadOrder(w) ==
    /\ worker[w].step = "order"
    /\ worker' = [worker EXCEPT ![w] = [@ EXCEPT !.step = "fulfillment", !.order = order]]
    /\ UNCHANGED <<order, ful, proc, open, shipped, outbox, event>>

\* loadAggregate: fulfillments, fulfillment_lines and process_instances.
LoadFulfillment(w) ==
    LET next == IF Payload[worker[w].event].kind = "readback" THEN "shipment" ELSE "commit"
    IN /\ worker[w].step = "fulfillment"
       /\ worker' = [worker EXCEPT ![w] =
            [@ EXCEPT !.step = next, !.ful = ful, !.decision = proc.decision]]
       /\ UNCHANGED <<order, ful, proc, open, shipped, outbox, event>>

\* The readback handler goes on to select the latest shipment.
ReadShipment(w) ==
    /\ worker[w].step = "shipment"
    /\ worker' = [worker EXCEPT ![w] =
         [@ EXCEPT !.step = "exceptions",
                   !.tracking = IF \E s \in Shipments : shipped[s] > 0 THEN "yes" ELSE "no"]]
    /\ UNCHANGED <<order, ful, proc, open, shipped, outbox, event>>

\* activeExceptions: then those that are open.
ReadExceptions(w) ==
    /\ worker[w].step = "exceptions"
    /\ worker' = [worker EXCEPT ![w] = [@ EXCEPT !.step = "commit", !.open = open]]
    /\ UNCHANGED <<order, ful, proc, open, shipped, outbox, event>>

\* The transaction throws and is rolled back; recordFailure schedules a retry.
Abort(w) ==
    /\ worker[w].step # "idle"
    /\ event' = [event EXCEPT ![worker[w].event] = "received"]
    /\ worker' = [worker EXCEPT ![w] = IdleWorker]
    /\ UNCHANGED <<order, ful, proc, open, shipped, outbox>>

Handling(w, kind) == worker[w].step = "commit" /\ Payload[worker[w].event].kind = kind

\* An acceptance holds the rows of orders and process_instances from before it wakes
\* anybody until it commits.
RowsAreFree == \A w \in Workers : worker[w].step # "woken"

\* The transaction's last statement.
Finish(w, events, outcome) ==
    /\ event' = [events EXCEPT ![worker[w].event] = outcome]
    /\ worker' = [worker EXCEPT ![w] = IdleWorker]

\* upsertProcess with a step only: the other columns stay.
StepTo(step) == proc' = [proc EXCEPT !.step = step]

\* openException: the active key is unique among the open exceptions.
OpenException(key) == open' = open \cup {key}

\* Every event but an acceptance is parked while the order is unknown.
Park(w) ==
    /\ worker[w].step = "commit"
    /\ Payload[worker[w].event].kind # "accepted"
    /\ worker[w].order.version = 0
    /\ Finish(w, event, "parked")
    /\ UNCHANGED <<order, ful, proc, open, shipped, outbox>>

-----------------------------------------------------------------------------
(* commerce.order.accepted.v1 and commerce.order.created.v1 *)

\* acceptCommerceOrder: a cancelled flag wins, a line without SKU holds the order.
AcceptedRelease(p) ==
    CASE p.says = "cancelled" -> "cancelled"
      [] p.says = "no_sku" -> "held"
      [] p.says = "release" -> "released"
      [] OTHER -> "pending"

\* acceptCommerceOrder keeps only lines with a SKU.
AcceptedQty(p) == IF p.says = "no_sku" THEN 0 ELSE p.qty

\* The order is unknown, or known in another version than the one to store and in
\* none newer than the message's own, which is not asked if it has none.
Newer(p, known) ==
    \/ known = 0
    \/ p.version # known /\ (p.envelope = 0 \/ p.envelope >= known)

IgnoreAcceptance(w) ==
    LET p == Payload[worker[w].event]
    IN /\ Handling(w, "accepted")
       /\ ~Newer(p, worker[w].order.version)
       /\ Finish(w, event, "ignored")
       /\ UNCHANGED <<order, ful, proc, open, shipped, outbox>>

\* A process manager that announces the release without its message.
NoCreate(p) == {}

\* The version in the idempotency key of wms.create_order.v1.
CreateKeys(p) == IF p.says = "release" THEN {p.version} ELSE {}

\* The row is inserted, or updated by id; a line is only ever inserted.
UpsertOrder(p) ==
    order' = [version |-> p.version, release |-> AcceptedRelease(p),
              ordered |-> IF order.ordered = 0 THEN AcceptedQty(p) ELSE order.ordered]

\* wakeParked, when the order and the process are written but not committed: those
\* that are parked by now.  A first acceptance that finds the order inserted
\* meanwhile aborts instead.
WakeParked(w) ==
    LET known == worker[w].order.version
    IN /\ Handling(w, "accepted")
       /\ Newer(Payload[worker[w].event], known)
       /\ known = 0 => order.version = 0
       /\ RowsAreFree
       /\ worker' = [worker EXCEPT ![w] =
            [@ EXCEPT !.step = "woken", !.woken = {e \in Events : event[e] = "parked"}]]
       /\ UNCHANGED <<order, ful, proc, open, shipped, outbox, event>>

\* The acceptance is committed.  A fulfillment line is only inserted along with the
\* fulfillment, which comes with the order.
Accept(w) ==
    LET p == Payload[worker[w].event]
        release == AcceptedRelease(p)
        isNew == worker[w].order.version = 0
    IN /\ worker[w].step = "woken"
       /\ UpsertOrder(p)
       /\ ful' = IF isNew /\ AcceptedQty(p) > 0 THEN [ful EXCEPT !.tracked = "yes"] ELSE ful
       /\ IF release = "held"
          THEN /\ OpenException("MISSING_SKU_MAPPING")
               /\ proc' = [proc EXCEPT !.step = "held", !.blocking = 1]
          ELSE /\ StepTo(IF release = "released" THEN "release_requested" ELSE release)
               /\ UNCHANGED open
       /\ outbox' = [outbox EXCEPT !.create = @ \cup CreateKeys(p)]
       /\ Finish(w, [e \in Events |-> IF e \in worker[w].woken THEN "received" ELSE event[e]],
                 "processed")
       /\ UNCHANGED shipped

-----------------------------------------------------------------------------
(* wms.order.acknowledged.v1, wms.fulfillment.updated.v1 and .progress.v1 *)

\* mergedLines: only lines the fulfillment has are taken over.
MergedLine(p, f) == IF f.tracked = "yes" /\ p.lines = "given" THEN p.line ELSE f.line

Regresses(line, old) ==
    \/ line.alloc < old.alloc \/ line.pick < old.pick \/ line.pack < old.pack
    \/ line.ship < old.ship \/ line.short < old.short

\* A quantity check that forgets the order.
ValidAmongThemselves(line, ordered) ==
    line.pick <= line.alloc /\ line.pack <= line.pick /\ line.ship <= line.pack

\* assertFulfillmentQuantityInvariants.
ValidQuantities(line, ordered) ==
    /\ line.alloc <= ordered
    /\ line.pick <= line.alloc
    /\ line.pack <= line.pick
    /\ line.ship <= line.pack

\* statusForWarehouseUpdate.
WarehouseStatus(p, f, line) ==
    CASE p.says = "short" -> "exception"
      [] p.says = "shipped" -> IF f.tracked = "yes" /\ line.ship = line.pack
                               THEN "shipped" ELSE "partially_shipped"
      [] p.says = "packed" -> IF f.tracked = "yes" /\ line.pack = line.alloc
                              THEN "packed" ELSE "picking"
      [] OTHER -> p.says

CancelAfterShipment(p, f) ==
    p.says = "cancelled" /\ f.status \in {"shipped", "partially_shipped"}

\* Only a strictly older version is stale.
Older(p, f) == f.version # 0 /\ p.version < f.version

\* The warehouse's order id may be left out of an update once it is known.
WarehouseOrder(p, f) == IF p.warehouse = 0 THEN f.warehouse ELSE p.warehouse

\* The exception applyWarehouseUpdate answers with, if any, in the order of its
\* checks; the handler looks for a late cancellation before anything else.
WarehouseConflict(p, o, f) ==
    LET line == MergedLine(p, f)
    IN CASE CancelAfterShipment(p, f) -> "CANCEL_AFTER_SHIPMENT"
         [] ~CancelAfterShipment(p, f) /\ Older(p, f) -> "stale"
         [] ~CancelAfterShipment(p, f) /\ ~Older(p, f) ->
              IF f.warehouse # 0 /\ f.warehouse # WarehouseOrder(p, f)
              THEN "WAREHOUSE_IDENTITY_CONFLICT"
              ELSE IF Regresses(line, f.line) /\ p.correction = "no"
              THEN "NON_MONOTONIC_WMS_UPDATE"
              ELSE IF f.tracked = "yes" /\ ~ValidQuantities(line, o.ordered)
              THEN "INVALID_QUANTITY" ELSE "none"

\* Without a warehouse order id the handler throws.
Warehouse(w) ==
    /\ Handling(w, "warehouse")
    /\ worker[w].order.version # 0
    /\ WarehouseOrder(Payload[worker[w].event], worker[w].ful) # 0

Verdict(w) ==
    WarehouseConflict(Payload[worker[w].event], worker[w].order, worker[w].ful)

StaleWarehouseUpdate(w) ==
    /\ Warehouse(w)
    /\ Verdict(w) = "stale"
    /\ Finish(w, event, "ignored")
    /\ UNCHANGED <<order, ful, proc, open, shipped, outbox>>

ConflictingWarehouseUpdate(w) ==
    /\ Warehouse(w)
    /\ Verdict(w) \in ExceptionKeys
    /\ RowsAreFree
    /\ OpenException(Verdict(w))
    /\ proc' = [proc EXCEPT !.step = "exception", !.blocking = 1]
    /\ Finish(w, event, "processed")
    /\ UNCHANGED <<order, ful, shipped, outbox>>

\* persistFulfillment writes what was decided from the read f, by id.
PersistFulfillment(p, f, line) ==
    ful' = [version |-> p.version, warehouse |-> WarehouseOrder(p, f),
            status |-> WarehouseStatus(p, f, line), tracked |-> f.tracked, line |-> line]

ApplyWarehouseUpdate(w) ==
    LET p == Payload[worker[w].event]
        f == worker[w].ful
        line == MergedLine(p, f)
        status == WarehouseStatus(p, f, line)
    IN /\ Warehouse(w)
       /\ Verdict(w) = "none"
       /\ RowsAreFree
       /\ PersistFulfillment(p, f, line)
       /\ StepTo(status)
       /\ order' = IF status = "cancelled" /\ worker[w].order.release = "cancel_requested"
                   THEN [order EXCEPT !.release = "cancelled"] ELSE order
       /\ outbox' = IF status \in {"packed", "shipped", "partially_shipped"}
                    THEN [outbox EXCEPT !.label = "appended"] ELSE outbox
       /\ Finish(w, event, "processed")
       /\ UNCHANGED <<open, shipped>>

-----------------------------------------------------------------------------
(* carrier.shipment.confirmed.v1 and carrier.shipment.created.v1 *)

\* A shipment check that forgets what was packed.
AnyPositive(p, f) == f.tracked = "yes" /\ p.qty > 0

\* confirmShipment, against the packed quantity that was read.
ValidShipment(p, f) == f.tracked = "yes" /\ p.qty > 0 /\ p.qty <= f.line.pack

\* persistShipment: a shipment already on record keeps its quantity.
PersistShipment(p) ==
    /\ shipped' = [shipped EXCEPT ![p.shipment] = IF @ = 0 THEN p.qty ELSE @]
    /\ outbox' = [outbox EXCEPT !.publish = @ \cup {p.shipment}]

RecordShipment(w) ==
    LET p == Payload[worker[w].event]
    IN /\ Handling(w, "shipment")
       /\ worker[w].order.version # 0
       /\ ValidShipment(p, worker[w].ful)
       /\ RowsAreFree
       /\ PersistShipment(p)
       /\ StepTo("shipment_recorded")
       /\ Finish(w, event, "processed")
       /\ UNCHANGED <<order, ful, open>>

\* The catch block: an exception, but nothing on the process.
RejectShipment(w) ==
    /\ Handling(w, "shipment")
    /\ worker[w].order.version # 0
    /\ ~ValidShipment(Payload[worker[w].event], worker[w].ful)
    /\ OpenException("INVALID_QUANTITY:shipment")
    /\ Finish(w, event, "processed")
    /\ UNCHANGED <<order, ful, proc, shipped, outbox>>

-----------------------------------------------------------------------------
(* commerce.fulfillment.readback.v1 *)

\* An evaluation that takes the quantities' word for a shipment.
TrustsQuantities(p, o, f, tracking) ==
    o.release # "cancelled" /\ p.says = "reflected" /\ f.line.short = 0

\* The remaining reasons of evaluateInvoiceEligibility, without the exceptions.
EvidenceClear(p, o, f, tracking) ==
    /\ f.tracked = "yes" => ValidQuantities(f.line, o.ordered)
    /\ o.release # "cancelled"
    /\ p.says = "reflected"
    /\ p.qty = f.line.ship
    /\ f.line.ship > 0 => tracking = "yes"
    /\ f.line.short = 0

\* An evaluation that does not look at exceptions.
IgnoresExceptions(p, s) == EvidenceClear(p, s.order, s.ful, s.tracking)

NothingBlocks(p, s) == s.open = {} /\ EvidenceClear(p, s.order, s.ful, s.tracking)

Scope(p, s) ==
    IF ~NothingBlocks(p, s) \/ s.ful.line.ship = 0 THEN "none"
    ELSE IF s.ful.line.ship = s.order.ordered THEN "full_order"
    ELSE IF AllowPartial = "yes" THEN "partial_shipment" ELSE "none"

\* Emission of complete shipments only.
FullOrderKeys(decision, scope) == IF scope = "full_order" THEN {<<decision, scope>>} ELSE {}

\* Decision version and scope are part of the idempotency key.
BillKeys(decision, scope) == IF scope = "none" THEN {} ELSE {<<decision, scope>>}

Readback(w) ==
    LET s == worker[w]
        p == Payload[s.event]
        scope == Scope(p, s)
        decision == s.decision + 1
    IN /\ Handling(w, "readback")
       /\ s.order.version # 0
       /\ RowsAreFree
       /\ proc' = [proc EXCEPT
                      !.step = IF scope = "none" THEN "invoice_blocked" ELSE "invoice_ready",
                      !.eligible = IF scope = "none" THEN "no" ELSE "yes",
                      !.decision = decision]
       /\ outbox' = [outbox EXCEPT !.bill = @ \cup BillKeys(decision, scope)]
       /\ Finish(w, event, "processed")
       /\ UNCHANGED <<order, ful, open, shipped>>

-----------------------------------------------------------------------------
(* commerce.order.cancelled.v1 *)

IgnoreCancellation(w) ==
    /\ Handling(w, "cancelled")
    /\ worker[w].order.release \in {"cancelled", "cancel_requested"}
    /\ Finish(w, event, "ignored")
    /\ UNCHANGED <<order, ful, proc, open, shipped, outbox>>

\* The warehouse is asked only if its order id is known by now.
RequestCancellation(w) ==
    /\ Handling(w, "cancelled")
    /\ worker[w].order.release = "released"
    /\ RowsAreFree
    /\ order' = [order EXCEPT !.release = "cancel_requested"]
    /\ outbox' = IF worker[w].ful.warehouse = 0 THEN outbox
                 ELSE [outbox EXCEPT !.cancel = @ \cup {worker[w].event}]
    /\ StepTo("cancel_requested")
    /\ Finish(w, event, "processed")
    /\ UNCHANGED <<ful, open, shipped>>

CancelAtOnce(w) ==
    /\ Handling(w, "cancelled")
    /\ worker[w].order.release \in {"pending", "held"}
    /\ RowsAreFree
    /\ order' = [order EXCEPT !.release = "cancelled"]
    /\ StepTo("cancelled")
    /\ Finish(w, event, "processed")
    /\ UNCHANGED <<ful, open, shipped, outbox>>

-----------------------------------------------------------------------------
Work(w) ==
    \/ Claim(w) \/ LoadOrder(w) \/ LoadFulfillment(w) \/ ReadShipment(w) \/ ReadExceptions(w)
    \/ Abort(w) \/ Park(w)
    \/ IgnoreAcceptance(w) \/ WakeParked(w) \/ Accept(w)
    \/ StaleWarehouseUpdate(w) \/ ConflictingWarehouseUpdate(w) \/ ApplyWarehouseUpdate(w)
    \/ RecordShipment(w) \/ RejectShipment(w)
    \/ Readback(w)
    \/ IgnoreCancellation(w) \/ RequestCancellation(w) \/ CancelAtOnce(w)

Next == \E w \in Workers : Work(w)

Spec == Init /\ [][Next]_vars

-----------------------------------------------------------------------------
(* Properties of any number of workers *)

\* Every variable holds what the columns and locals it models can hold.
TypeOK ==
    /\ order \in Order
    /\ ful \in Fulfillment
    /\ proc \in Process
    /\ open \subseteq ExceptionKeys
    /\ shipped \in [Shipments -> Nat]
    /\ outbox \in Outbox
    /\ event \in [Events -> {"received", "processing", "processed", "ignored", "parked"}]
    /\ worker \in [Workers -> WorkerState]
    /\ \A w \in Workers : worker[w].step # "idle" => worker[w].event \in Events
    /\ \A w \in Workers : worker[w].step = "woken" => Payload[worker[w].event].kind = "accepted"

\* The quantities on record form a chain bounded by the ordered quantity,
\* although workers decide on stale reads and overwrite each other by id.
QuantityChain ==
    /\ ful.line.ship <= ful.line.pack /\ ful.line.pack <= ful.line.pick
    /\ ful.line.pick <= ful.line.alloc /\ ful.line.alloc <= order.ordered

\* An order on record as released has its wms.create_order message for that very
\* version: whichever acceptance, cancellation or update won the race.
ReleaseIsAnnounced == order.release = "released" => order.version \in outbox.create

\* A shipment is published to commerce exactly if it is on record, and no more of
\* the line is in it than was ordered, although it is checked against a packed
\* quantity read before and the order may have been revised since.
ShipmentEvidence ==
    \A s \in Shipments :
      /\ shipped[s] > 0 <=> s \in outbox.publish
      /\ shipped[s] <= order.ordered

\* An order is marked eligible only along with the billing message of the very
\* decision it is marked with, also when evaluations race.
EligibleIsEmitted ==
    proc.eligible = "yes" =>
      \E scope \in {"full_order", "partial_shipment"} : <<proc.decision, scope>> \in outbox.bill

\* Billing is never asked for without a shipment on record, although the readback
\* handler reads order, quantities, shipments and exceptions one after the other and
\* without locks, while other workers change them.
BilledIsShipped == outbox.bill # {} => \E s \in Shipments : shipped[s] > 0

Waking == {w \in Workers : worker[w].step = "woken"}
Calling == {worker[w].event : w \in Waking}
Heard == UNION {worker[w].woken : w \in Waking}

Ledger == INSTANCE EventLedger WITH
              Creators <- {e \in Events : Payload[e].kind = "accepted"},
              Unhandled <- {}, Strays <- {},
              fate <- event, known <- order.version # 0,
              calling <- Calling, heard <- Heard

\* The handlers move events as the inbox does: each step is one of EventLedger, so
\* that what this module supposes of claiming is what module Inbox provides.
KeepsLedger == Ledger!LSpec

-----------------------------------------------------------------------------
(* Properties of workers that take turns, which workers at the same time break *)

\* PLAN.md: "Older source versions are recorded as stale and ignored".  The
\* warehouse version on record never goes back.
WarehouseVersionNeverRegresses == [][ful'.version >= ful.version]_ful

\* PLAN.md: "Incorrect InvoiceEligible emissions: 0".  When a billing message is
\* appended, nothing committed by then speaks against it.
BillingIsSound ==
    [][outbox'.bill # outbox.bill =>
         /\ open = {}
         /\ order.release # "cancelled"
         /\ ful.line.short = 0
         /\ 0 < ful.line.ship /\ ful.line.ship <= order.ordered
         /\ \E s \in Shipments : shipped[s] > 0]_outbox
=============================================================================
