-------------------------- MODULE FulfillmentProofs --------------------------
(***************************************************************************)
(* Theorems about the fulfillment process for any set of events with any   *)
(* payloads, any shipments and any number of workers; those about a single *)
(* worker say so.                                                          *)
(***************************************************************************)
EXTENDS FulfillmentProcess, TLAPS

-----------------------------------------------------------------------------
(* Type correctness *)

LEMMA RecordTypes ==
    /\ ZeroLine \in Line /\ NoOrder \in Order /\ NoFulfillment \in Fulfillment
    /\ NoProcess \in Process /\ IdleWorker \in WorkerState
    /\ IdleWorker.step = "idle"
BY DEF ZeroLine, NoOrder, NoFulfillment, NoProcess, IdleWorker, Line, Order, Fulfillment,
       Process, WorkerState, Releases, FulStatuses, ProcSteps

LEMMA TypeInit == Init => TypeOK
BY RecordTypes DEF Init, TypeOK, Outbox

\* What a worker works on is a message.
LEMMA PayloadType ==
    ASSUME TypeOK, NEW w \in Workers, worker[w].step # "idle"
    PROVE  /\ worker[w].event \in Events
           /\ worker[w] \in WorkerState
           /\ Payload[worker[w].event] \in Message
BY PayloadAssumption DEF TypeOK

\* The last statement of every handler.
LEMMA FinishType ==
    ASSUME TypeOK, NEW w \in Workers, worker[w].step # "idle",
           NEW events \in [Events -> {"received", "processing", "processed", "ignored", "parked"}],
           NEW outcome \in {"processed", "ignored", "parked"},
           Finish(w, events, outcome)
    PROVE  /\ event' \in [Events -> {"received", "processing", "processed", "ignored", "parked"}]
           /\ worker' \in [Workers -> WorkerState]
           /\ \A v \in Workers : worker'[v].step # "idle" => worker'[v].event \in Events
           /\ \A v \in Workers :
                worker'[v].step = "woken" => Payload[worker'[v].event].kind = "accepted"
BY RecordTypes DEF TypeOK, Finish

\* A worker that goes on about its event, and calls nobody.
LEMMA LocalType ==
    ASSUME TypeOK, NEW w \in Workers, worker[w].step # "idle",
           NEW local \in WorkerState, local.event = worker[w].event, local.step # "woken",
           worker' = [worker EXCEPT ![w] = local]
    PROVE  /\ worker' \in [Workers -> WorkerState]
           /\ \A v \in Workers : worker'[v].step # "idle" => worker'[v].event \in Events
           /\ \A v \in Workers :
                worker'[v].step = "woken" => Payload[worker'[v].event].kind = "accepted"
BY DEF TypeOK

LEMMA MergedType ==
    ASSUME NEW p \in Message, NEW f \in Fulfillment
    PROVE  MergedLine(p, f) \in Line
BY DEF MergedLine, Message, Fulfillment

LEMMA StatusType ==
    ASSUME NEW p \in Message, NEW f \in Fulfillment, NEW line \in Line,
           p.says \in {"acknowledged", "picking", "packed", "shipped", "short", "cancelled"}
    PROVE  WarehouseStatus(p, f, line) \in FulStatuses
BY DEF WarehouseStatus, FulStatuses

LEMMA ReleaseType ==
    ASSUME NEW p
    PROVE  AcceptedRelease(p) \in Releases
BY DEF AcceptedRelease, Releases

LEMMA ScopeType ==
    ASSUME NEW p, NEW s
    PROVE  Scope(p, s) \in {"none", "full_order", "partial_shipment"}
BY DEF Scope

LEMMA TypeStep == TypeOK /\ [Next]_vars => TypeOK'
<1> SUFFICES ASSUME TypeOK, [Next]_vars PROVE TypeOK'
  OBVIOUS
<1> USE DEF TypeOK
<1>1. ASSUME NEW w \in Workers, Claim(w) PROVE TypeOK'
  <2>1. PICK e \in Events :
          /\ event' = [event EXCEPT ![e] = "processing"]
          /\ worker' = [worker EXCEPT ![w] = [IdleWorker EXCEPT !.step = "order", !.event = e]]
    BY <1>1 DEF Claim
  <2>2. [IdleWorker EXCEPT !.step = "order", !.event = e] \in WorkerState
    BY RecordTypes DEF WorkerState
  <2>3. [IdleWorker EXCEPT !.step = "order", !.event = e].event = e
    BY DEF IdleWorker
  <2> QED
    BY <1>1, <2>1, <2>2, <2>3 DEF Claim
<1>2. ASSUME NEW w \in Workers, LoadOrder(w) PROVE TypeOK'
  <2> DEFINE local == [worker[w] EXCEPT !.step = "fulfillment", !.order = order]
  <2>1. local \in WorkerState /\ local.event = worker[w].event /\ local.step # "woken"
    BY <1>2 DEF WorkerState
  <2>2. worker' = [worker EXCEPT ![w] = local] /\ worker[w].step # "idle"
    BY <1>2 DEF LoadOrder
  <2> HIDE DEF local
  <2> QED
    BY <1>2, <2>1, <2>2, LocalType DEF LoadOrder
<1>3. ASSUME NEW w \in Workers, LoadFulfillment(w) PROVE TypeOK'
  <2>1. PICK next \in {"shipment", "commit"} :
          worker' = [worker EXCEPT ![w] =
            [@ EXCEPT !.step = next, !.ful = ful, !.decision = proc.decision]]
    BY <1>3 DEF LoadFulfillment
  <2> DEFINE local == [worker[w] EXCEPT !.step = next, !.ful = ful, !.decision = proc.decision]
  <2>2. local \in WorkerState /\ local.event = worker[w].event /\ local.step # "woken"
    BY DEF WorkerState, Process
  <2>3. worker' = [worker EXCEPT ![w] = local] /\ worker[w].step # "idle"
    BY <1>3, <2>1 DEF LoadFulfillment
  <2> HIDE DEF local
  <2> QED
    BY <1>3, <2>2, <2>3, LocalType DEF LoadFulfillment
<1>18. ASSUME NEW w \in Workers, ReadShipment(w) PROVE TypeOK'
  <2>1. PICK tracking \in {"yes", "no"} :
          worker' = [worker EXCEPT ![w] = [@ EXCEPT !.step = "exceptions", !.tracking = tracking]]
    BY <1>18 DEF ReadShipment
  <2> DEFINE local == [worker[w] EXCEPT !.step = "exceptions", !.tracking = tracking]
  <2>2. local \in WorkerState /\ local.event = worker[w].event /\ local.step # "woken"
    BY DEF WorkerState
  <2>3. worker' = [worker EXCEPT ![w] = local] /\ worker[w].step # "idle"
    BY <1>18, <2>1 DEF ReadShipment
  <2> HIDE DEF local
  <2> QED
    BY <1>18, <2>2, <2>3, LocalType DEF ReadShipment
<1>19. ASSUME NEW w \in Workers, ReadExceptions(w) PROVE TypeOK'
  <2> DEFINE local == [worker[w] EXCEPT !.step = "commit", !.open = open]
  <2>1. local \in WorkerState /\ local.event = worker[w].event /\ local.step # "woken"
    BY DEF WorkerState
  <2>2. worker' = [worker EXCEPT ![w] = local] /\ worker[w].step # "idle"
    BY <1>19 DEF ReadExceptions
  <2> HIDE DEF local
  <2> QED
    BY <1>19, <2>1, <2>2, LocalType DEF ReadExceptions
<1>20. ASSUME NEW w \in Workers, WakeParked(w) PROVE TypeOK'
  <2> DEFINE parked == {e \in Events : event[e] = "parked"}
             local == [worker[w] EXCEPT !.step = "woken", !.woken = parked]
  <2>1. parked \subseteq Events
    OBVIOUS
  <2>2. /\ worker' = [worker EXCEPT ![w] = local] /\ worker[w].step # "idle"
        /\ Payload[worker[w].event].kind = "accepted"
    BY <1>20 DEF WakeParked, Handling
  <2> HIDE DEF parked
  <2>3. local \in WorkerState /\ local.event = worker[w].event
    BY <2>1 DEF WorkerState
  <2> HIDE DEF local
  <2>4. /\ worker' \in [Workers -> WorkerState]
        /\ \A v \in Workers : worker'[v].step # "idle" => worker'[v].event \in Events
        /\ \A v \in Workers :
             worker'[v].step = "woken" => Payload[worker'[v].event].kind = "accepted"
    BY <2>2, <2>3
  <2> QED
    BY <1>20, <2>4 DEF WakeParked
<1>4. ASSUME NEW w \in Workers, Abort(w) PROVE TypeOK'
  BY <1>4, RecordTypes DEF Abort
<1>5. ASSUME NEW w \in Workers, Park(w) PROVE TypeOK'
  BY <1>5, FinishType DEF Park
<1>6. ASSUME NEW w \in Workers, IgnoreAcceptance(w) PROVE TypeOK'
  BY <1>6, FinishType DEF IgnoreAcceptance, WakeParked, Handling
<1>7. ASSUME NEW w \in Workers, Accept(w) PROVE TypeOK'
  <2> DEFINE p == Payload[worker[w].event]
             woken == [e \in Events |->
                        IF e \in worker[w].woken THEN "received" ELSE event[e]]
  <2>1. worker[w].step # "idle"
    BY <1>7 DEF Accept
  <2>2. p \in Message
    BY <2>1, PayloadType
  <2>3. order' \in Order
    <3>1. AcceptedRelease(p) \in Releases
      BY ReleaseType
    <3>2. AcceptedQty(p) \in Nat
      BY <2>2 DEF AcceptedQty, Message
    <3> QED
      BY <1>7, <2>2, <3>1, <3>2 DEF Accept, UpsertOrder, Order, Message
  <2>4. ful' \in Fulfillment
    BY <1>7 DEF Accept, Fulfillment
  <2>5. proc' \in Process /\ open' \subseteq ExceptionKeys
    <3>1. AcceptedRelease(p) \in ProcSteps
      BY ReleaseType DEF ProcSteps
    <3>2. CASE AcceptedRelease(p) = "held"
      <4>1. open' = open \cup {"MISSING_SKU_MAPPING"}
            /\ proc' = [proc EXCEPT !.step = "held", !.blocking = 1]
        BY <1>7, <3>2 DEF Accept, OpenException
      <4> QED
        BY <4>1, <3>1, <3>2 DEF Process, ExceptionKeys
    <3>3. CASE AcceptedRelease(p) # "held"
      <4>1. open' = open
        BY <1>7, <3>3 DEF Accept
      <4>2. PICK step \in ProcSteps : proc' = [proc EXCEPT !.step = step]
        BY <1>7, <3>1, <3>3 DEF Accept, StepTo, ProcSteps
      <4> QED
        BY <4>1, <4>2 DEF Process
    <3> QED
      BY <3>2, <3>3
  <2>6. outbox' \in Outbox
    <3>1. CreateKeys(p) \subseteq Nat
      BY <2>2 DEF CreateKeys, Message
    <3> QED
      BY <1>7, <3>1 DEF Accept, Outbox
  <2>7. woken \in [Events -> {"received", "processing", "processed", "ignored", "parked"}]
    OBVIOUS
  <2> QED
    BY <1>7, <2>1, <2>3, <2>4, <2>5, <2>6, <2>7, FinishType DEF Accept
<1>8. ASSUME NEW w \in Workers, StaleWarehouseUpdate(w) PROVE TypeOK'
  BY <1>8, FinishType DEF StaleWarehouseUpdate, Warehouse, Handling
<1>9. ASSUME NEW w \in Workers, ConflictingWarehouseUpdate(w) PROVE TypeOK'
  <2>1. worker[w].step # "idle"
    BY <1>9 DEF ConflictingWarehouseUpdate, Warehouse, Handling
  <2>2. proc' \in Process
    BY <1>9 DEF ConflictingWarehouseUpdate, Process, ProcSteps, FulStatuses
  <2>3. open' \subseteq ExceptionKeys
    BY <1>9 DEF ConflictingWarehouseUpdate, OpenException
  <2> QED
    BY <1>9, <2>1, <2>2, <2>3, FinishType DEF ConflictingWarehouseUpdate
<1>10. ASSUME NEW w \in Workers, ApplyWarehouseUpdate(w) PROVE TypeOK'
  <2> DEFINE p == Payload[worker[w].event]
             f == worker[w].ful
             line == MergedLine(p, f)
             status == WarehouseStatus(p, f, line)
  <2>1. worker[w].step # "idle" /\ p.kind = "warehouse"
    BY <1>10 DEF ApplyWarehouseUpdate, Warehouse, Handling
  <2>2. p \in Message /\ f \in Fulfillment /\ worker[w].event \in Events
    BY <2>1, PayloadType DEF WorkerState
  <2>3. line \in Line
    BY <2>2, MergedType
  <2>4. status \in FulStatuses
    <3>1. p.says \in {"acknowledged", "picking", "packed", "shipped", "short", "cancelled"}
      BY <2>1, <2>2, PayloadAssumption
    <3> QED
      BY <2>2, <2>3, <3>1, StatusType
  <2>5. ful' \in Fulfillment
    <3>1. WarehouseOrder(p, f) \in Nat
      BY <2>2 DEF WarehouseOrder, Fulfillment, Message
    <3>2. ful' = [version |-> p.version, warehouse |-> WarehouseOrder(p, f),
                  status |-> status, tracked |-> f.tracked, line |-> line]
      BY <1>10 DEF ApplyWarehouseUpdate, PersistFulfillment
    <3> HIDE DEF line, status
    <3> QED
      BY <2>2, <2>3, <2>4, <3>1, <3>2 DEF Fulfillment, Message
  <2>6. order' \in Order
    BY <1>10 DEF ApplyWarehouseUpdate, Order, Releases
  <2>7. proc' \in Process
    BY <1>10, <2>4 DEF ApplyWarehouseUpdate, StepTo, Process, ProcSteps
  <2>8. outbox' \in Outbox
    BY <1>10 DEF ApplyWarehouseUpdate, Outbox
  <2> QED
    BY <1>10, <2>1, <2>5, <2>6, <2>7, <2>8, FinishType DEF ApplyWarehouseUpdate
<1>11. ASSUME NEW w \in Workers, RecordShipment(w) PROVE TypeOK'
  <2> DEFINE p == Payload[worker[w].event]
  <2>1. worker[w].step # "idle"
    BY <1>11 DEF RecordShipment, Handling
  <2>2. p \in Message
    BY <2>1, PayloadType
  <2>3. shipped' \in [Shipments -> Nat]
    BY <1>11, <2>2 DEF RecordShipment, PersistShipment, Message
  <2>4. outbox' \in Outbox
    BY <1>11, <2>2 DEF RecordShipment, PersistShipment, Outbox, Message
  <2>5. proc' \in Process
    BY <1>11 DEF RecordShipment, StepTo, Process, ProcSteps
  <2> QED
    BY <1>11, <2>1, <2>3, <2>4, <2>5, FinishType DEF RecordShipment
<1>12. ASSUME NEW w \in Workers, RejectShipment(w) PROVE TypeOK'
  <2>1. open' \subseteq ExceptionKeys
    BY <1>12 DEF RejectShipment, OpenException, ExceptionKeys
  <2> QED
    BY <1>12, <2>1, FinishType DEF RejectShipment, Handling
<1>13. ASSUME NEW w \in Workers, Readback(w) PROVE TypeOK'
  <2> DEFINE p == Payload[worker[w].event]
             scope == Scope(p, worker[w])
             decision == worker[w].decision + 1
  <2>1. worker[w].step # "idle"
    BY <1>13 DEF Readback, Handling
  <2>2. decision \in Nat
    BY DEF WorkerState
  <2>3. PICK step \in {"invoice_blocked", "invoice_ready"}, eligible \in {"yes", "no"} :
          proc' = [proc EXCEPT !.step = step, !.eligible = eligible, !.decision = decision]
    BY <1>13 DEF Readback
  <2>4. proc' \in Process
    BY <2>2, <2>3 DEF Process, ProcSteps
  <2>5. BillKeys(decision, scope) \subseteq Nat \X {"full_order", "partial_shipment"}
    BY <2>2, ScopeType DEF BillKeys
  <2>6. outbox' \in Outbox
    BY <1>13, <2>5 DEF Readback, Outbox
  <2> QED
    BY <1>13, <2>1, <2>4, <2>6, FinishType DEF Readback
<1>14. ASSUME NEW w \in Workers, IgnoreCancellation(w) PROVE TypeOK'
  BY <1>14, FinishType DEF IgnoreCancellation, Handling
<1>15. ASSUME NEW w \in Workers, RequestCancellation(w) PROVE TypeOK'
  <2>1. worker[w].step # "idle"
    BY <1>15 DEF RequestCancellation, Handling
  <2>2. order' \in Order /\ proc' \in Process
    BY <1>15 DEF RequestCancellation, StepTo, Order, Process, Releases, ProcSteps
  <2>3. outbox' \in Outbox
    BY <1>15, <2>1, PayloadType DEF RequestCancellation, Outbox
  <2> QED
    BY <1>15, <2>1, <2>2, <2>3, FinishType DEF RequestCancellation
<1>16. ASSUME NEW w \in Workers, CancelAtOnce(w) PROVE TypeOK'
  <2>1. order' \in Order /\ proc' \in Process
    BY <1>16 DEF CancelAtOnce, StepTo, Order, Process, Releases, ProcSteps
  <2> QED
    BY <1>16, <2>1, FinishType DEF CancelAtOnce, Handling
<1>17. ASSUME UNCHANGED vars PROVE TypeOK'
  BY <1>17 DEF vars
<1> QED
  BY <1>1, <1>2, <1>3, <1>4, <1>5, <1>6, <1>7, <1>8, <1>9, <1>10, <1>11, <1>12, <1>13,
     <1>14, <1>15, <1>16, <1>17, <1>18, <1>19, <1>20 DEF Next, Work

\* Rows, outbox and the reads of every worker keep their types.
THEOREM TypeCorrect == Spec => []TypeOK
BY TypeInit, TypeStep, PTL DEF Spec

-----------------------------------------------------------------------------
(* What a step may change *)

\* The quantity ordered only grows: a line is only ever inserted.
LEMMA OrderedGrows ==
    ASSUME TypeOK, [Next]_vars
    PROVE  order'.ordered \in Nat /\ order.ordered <= order'.ordered
<1> USE DEF TypeOK, Order
<1>1. ASSUME NEW w \in Workers, Accept(w)
      PROVE  order'.ordered \in Nat /\ order.ordered <= order'.ordered
  <2>1. Payload[worker[w].event] \in Message
    BY <1>1, PayloadType DEF Accept
  <2>2. AcceptedQty(Payload[worker[w].event]) \in Nat
    BY <2>1 DEF AcceptedQty, Message
  <2> QED
    BY <1>1, <2>2 DEF Accept, UpsertOrder
<1>2. ASSUME NEW w \in Workers, Work(w), ~Accept(w) PROVE order'.ordered = order.ordered
  BY <1>2 DEF Work, Claim, LoadOrder, LoadFulfillment, ReadShipment, ReadExceptions, Abort, Park,
     IgnoreAcceptance, WakeParked,
     StaleWarehouseUpdate, ConflictingWarehouseUpdate, ApplyWarehouseUpdate, RecordShipment,
     RejectShipment, Readback, IgnoreCancellation, RequestCancellation, CancelAtOnce
<1> QED
  BY <1>1, <1>2 DEF Next, vars

\* Only a warehouse update that is applied touches the quantities.
LEMMA LineChanges ==
    ASSUME TypeOK, [Next]_vars
    PROVE  ful'.line = ful.line \/ \E w \in Workers : ApplyWarehouseUpdate(w)
BY DEF TypeOK, Fulfillment, Next, vars, Work, Claim, LoadOrder, LoadFulfillment, ReadShipment,
   ReadExceptions, Abort, Park,
   IgnoreAcceptance, WakeParked, Accept, StaleWarehouseUpdate, ConflictingWarehouseUpdate,
   RecordShipment, RejectShipment, Readback, IgnoreCancellation, RequestCancellation, CancelAtOnce

\* Only a shipment that is recorded touches the shipments and their publication.
LEMMA ShipmentsChange ==
    ASSUME TypeOK, [Next]_vars
    PROVE  \/ shipped' = shipped /\ outbox'.publish = outbox.publish
           \/ \E w \in Workers : RecordShipment(w)
BY DEF TypeOK, Outbox, Next, vars, Work, Claim, LoadOrder, LoadFulfillment, ReadShipment,
   ReadExceptions, Abort, Park,
   IgnoreAcceptance, WakeParked, Accept, StaleWarehouseUpdate, ConflictingWarehouseUpdate,
   ApplyWarehouseUpdate, RejectShipment, Readback, IgnoreCancellation,
   RequestCancellation, CancelAtOnce

Shipped == \E s \in Shipments : shipped[s] > 0

\* A worker keeps what it read, reads what is on record, or forgets it.
ReadChange(v) ==
    /\ worker'[v].order \in {NoOrder, order, worker[v].order}
    /\ worker'[v].ful \in {NoFulfillment, ful, worker[v].ful}
    /\ worker'[v].tracking = "yes" => worker[v].tracking = "yes" \/ Shipped

LEMMA ReadsChange ==
    ASSUME TypeOK, [Next]_vars, NEW v \in Workers
    PROVE  ReadChange(v)
<1> USE DEF TypeOK, WorkerState, ReadChange
<1>1. ASSUME NEW w \in Workers, Claim(w) PROVE ReadChange(v)
  BY <1>1 DEF Claim, IdleWorker
<1>2. ASSUME NEW w \in Workers, LoadOrder(w) PROVE ReadChange(v)
  BY <1>2 DEF LoadOrder
<1>3. ASSUME NEW w \in Workers, LoadFulfillment(w) PROVE ReadChange(v)
  <2>1. PICK next : worker' = [worker EXCEPT ![w] =
                      [@ EXCEPT !.step = next, !.ful = ful, !.decision = proc.decision]]
    BY <1>3 DEF LoadFulfillment
  <2> QED
    BY <2>1
<1>4. ASSUME NEW w \in Workers, ReadShipment(w) PROVE ReadChange(v)
  <2>1. PICK tracking \in {"yes", "no"} :
          /\ worker' = [worker EXCEPT ![w] =
                         [@ EXCEPT !.step = "exceptions", !.tracking = tracking]]
          /\ tracking = "yes" => Shipped
    BY <1>4 DEF ReadShipment, Shipped
  <2>2. CASE v = w
    <3>1. /\ worker'[v].tracking = tracking /\ worker'[v].order = worker[v].order
          /\ worker'[v].ful = worker[v].ful
      BY <2>1, <2>2
    <3> QED
      BY <2>1, <3>1
  <2>3. CASE v # w
    BY <2>1, <2>3
  <2> QED
    BY <2>2, <2>3
<1>5. ASSUME NEW w \in Workers, ReadExceptions(w) PROVE ReadChange(v)
  BY <1>5 DEF ReadExceptions
<1>6. ASSUME NEW w \in Workers, WakeParked(w) PROVE ReadChange(v)
  <2>1. PICK woken :
          worker' = [worker EXCEPT ![w] = [@ EXCEPT !.step = "woken", !.woken = woken]]
    BY <1>6 DEF WakeParked
  <2> QED
    BY <2>1
<1>7. ASSUME NEW w \in Workers, Work(w), ~Claim(w), ~LoadOrder(w), ~LoadFulfillment(w),
             ~ReadShipment(w), ~ReadExceptions(w), ~WakeParked(w)
      PROVE  ReadChange(v)
  <2>1. worker'[v] \in {IdleWorker, worker[v]}
    BY <1>7 DEF Work, Finish, Abort, Park, IgnoreAcceptance, Accept,
       StaleWarehouseUpdate, ConflictingWarehouseUpdate, ApplyWarehouseUpdate, RecordShipment,
       RejectShipment, Readback, IgnoreCancellation, RequestCancellation, CancelAtOnce
  <2> QED
    BY <2>1 DEF IdleWorker
<1>8. CASE UNCHANGED vars
  BY <1>8 DEF vars
<1> QED
  BY <1>1, <1>2, <1>3, <1>4, <1>5, <1>6, <1>7, <1>8 DEF Next

-----------------------------------------------------------------------------
(* Quantities and shipments, for any number of workers *)

\* The order may be revised between the reads and the commit, but its quantity
\* only grows: whatever was valid when it was read stays valid.
Bounded ==
    /\ ValidQuantities(ful.line, order.ordered)
    /\ \A w \in Workers : /\ worker[w].order.ordered <= order.ordered
                          /\ ValidQuantities(worker[w].ful.line, order.ordered)

LEMMA ValidMonotone ==
    ASSUME NEW line \in Line, NEW a \in Nat, NEW b \in Nat, a <= b, ValidQuantities(line, a)
    PROVE  ValidQuantities(line, b)
BY DEF ValidQuantities, Line

LEMMA BoundedInit == Init => Bounded
BY DEF Init, Bounded, ValidQuantities, NoOrder, NoFulfillment, ZeroLine, IdleWorker

\* What applyWarehouseUpdate lets through is valid for the order on record.
LEMMA AppliedIsValid ==
    ASSUME TypeOK, Bounded, NEW w \in Workers, ApplyWarehouseUpdate(w)
    PROVE  ful'.line \in Line /\ ValidQuantities(ful'.line, order.ordered)
<1> DEFINE p == Payload[worker[w].event]
           f == worker[w].ful
           o == worker[w].order
           line == MergedLine(p, f)
<1>1. worker[w].step # "idle" /\ Verdict(w) = "none" /\ ful'.line = line
  BY DEF ApplyWarehouseUpdate, PersistFulfillment, Warehouse, Handling
<1>2. p \in Message /\ f \in Fulfillment /\ o \in Order
  BY <1>1, PayloadType DEF WorkerState
<1>3. line \in Line
  BY <1>2, MergedType
<1>4. CASE f.tracked = "yes"
  <2>1. ValidQuantities(line, o.ordered)
    BY <1>1, <1>4 DEF Verdict, WarehouseConflict
  <2>2. o.ordered \in Nat /\ order.ordered \in Nat /\ o.ordered <= order.ordered
    BY <1>2 DEF TypeOK, Order, Bounded
  <2> QED
    BY <1>1, <1>3, <2>1, <2>2, ValidMonotone
<1>5. CASE f.tracked # "yes"
  <2>1. line = f.line
    BY <1>5 DEF MergedLine
  <2> QED
    BY <1>1, <1>3, <2>1 DEF Bounded
<1> QED
  BY <1>4, <1>5

LEMMA BoundedStep == TypeOK /\ Bounded /\ [Next]_vars => Bounded'
<1> SUFFICES ASSUME TypeOK, Bounded, [Next]_vars PROVE Bounded'
  OBVIOUS
<1>1. order.ordered \in Nat /\ order'.ordered \in Nat /\ order.ordered <= order'.ordered
  BY OrderedGrows DEF TypeOK, Order
<1>2. ValidQuantities(ful.line, order'.ordered)
  BY <1>1, ValidMonotone DEF Bounded, TypeOK, Fulfillment
<1>3. ValidQuantities(ful'.line, order'.ordered)
  <2>1. CASE ful'.line = ful.line
    BY <1>2, <2>1
  <2>2. CASE \E w \in Workers : ApplyWarehouseUpdate(w)
    BY <1>1, <2>2, AppliedIsValid, ValidMonotone
  <2> QED
    BY <2>1, <2>2, LineChanges
<1>4. ASSUME NEW v \in Workers
      PROVE  /\ worker'[v].order.ordered <= order'.ordered
             /\ ValidQuantities(worker'[v].ful.line, order'.ordered)
  <2>1. worker[v].order \in Order /\ worker[v].ful \in Fulfillment
    BY DEF TypeOK, WorkerState
  <2>2. worker'[v].order.ordered <= order'.ordered
    BY <1>1, <2>1, ReadsChange DEF ReadChange, Bounded, NoOrder, Order
  <2>3. ValidQuantities(NoFulfillment.line, order'.ordered)
    BY <1>1 DEF NoFulfillment, ZeroLine, ValidQuantities
  <2>4. ValidQuantities(worker[v].ful.line, order'.ordered)
    BY <1>1, <2>1, ValidMonotone DEF Bounded, Fulfillment
  <2> QED
    BY <1>2, <2>2, <2>3, <2>4, ReadsChange DEF ReadChange
<1> QED
  BY <1>3, <1>4 DEF Bounded

\* Quantities on record form a chain bounded by the order, although workers decide
\* on stale reads and overwrite each other by id (persistFulfillment).
THEOREM QuantityChainCorrect == Spec => []QuantityChain
<1>1. TypeOK /\ Bounded => QuantityChain
  BY DEF TypeOK, Bounded, QuantityChain, ValidQuantities, Fulfillment, Line, Order
<1> QED
  BY <1>1, TypeInit, TypeStep, BoundedInit, BoundedStep, PTL DEF Spec

LEMMA EvidenceStep == TypeOK /\ Bounded /\ ShipmentEvidence /\ [Next]_vars => ShipmentEvidence'
<1> SUFFICES ASSUME TypeOK, Bounded, ShipmentEvidence, [Next]_vars PROVE ShipmentEvidence'
  OBVIOUS
<1>1. order.ordered \in Nat /\ order'.ordered \in Nat /\ order.ordered <= order'.ordered
  BY OrderedGrows DEF TypeOK, Order
<1>2. CASE shipped' = shipped /\ outbox'.publish = outbox.publish
  BY <1>1, <1>2 DEF ShipmentEvidence, TypeOK
<1>3. ASSUME NEW w \in Workers, RecordShipment(w) PROVE ShipmentEvidence'
  <2> DEFINE p == Payload[worker[w].event]
             f == worker[w].ful
  <2>1. worker[w].step # "idle"
    BY <1>3 DEF RecordShipment, Handling
  <2>2. p \in Message /\ f \in Fulfillment /\ f.line \in Line
    BY <2>1, PayloadType DEF WorkerState, Fulfillment
  <2>3. p.qty \in Nat /\ p.qty > 0 /\ p.shipment \in Shipments
    BY <1>3, <2>2 DEF RecordShipment, ValidShipment, Message
  <2>4. p.qty <= order.ordered
    <3>1. p.qty <= f.line.pack
      BY <1>3 DEF RecordShipment, ValidShipment
    <3>2. f.line.pack <= f.line.pick /\ f.line.pick <= f.line.alloc /\ f.line.alloc <= order.ordered
      BY DEF Bounded, ValidQuantities
    <3> QED
      BY <1>1, <2>2, <2>3, <3>1, <3>2 DEF Line
  <2>5. /\ shipped' = [shipped EXCEPT ![p.shipment] = IF @ = 0 THEN p.qty ELSE @]
        /\ outbox'.publish = outbox.publish \cup {p.shipment}
    BY <1>3 DEF RecordShipment, PersistShipment, TypeOK, Outbox
  <2> QED
    BY <1>1, <2>3, <2>4, <2>5 DEF ShipmentEvidence, TypeOK
<1> QED
  BY <1>2, <1>3, ShipmentsChange

\* A shipment is published exactly if it is on record, within what was ordered,
\* although it is checked against a packed quantity read before.
THEOREM ShipmentEvidenceCorrect == Spec => []ShipmentEvidence
<1>1. Init => ShipmentEvidence
  BY DEF Init, ShipmentEvidence, NoOrder
<1> QED
  BY <1>1, TypeInit, TypeStep, BoundedInit, BoundedStep, EvidenceStep, PTL DEF Spec

-----------------------------------------------------------------------------
(* Announcements and exceptions, for any number of workers *)

LEMMA ReleaseStep == TypeOK /\ ReleaseIsAnnounced /\ [Next]_vars => ReleaseIsAnnounced'
<1> SUFFICES ASSUME TypeOK, ReleaseIsAnnounced, [Next]_vars PROVE ReleaseIsAnnounced'
  OBVIOUS
<1> USE DEF TypeOK, Order, Outbox, ReleaseIsAnnounced
<1>1. ASSUME NEW w \in Workers, Accept(w) PROVE ReleaseIsAnnounced'
  <2> DEFINE p == Payload[worker[w].event]
  <2>1. order'.release = AcceptedRelease(p) /\ order'.version = p.version
    BY <1>1 DEF Accept, UpsertOrder
  <2>2. outbox'.create = outbox.create \cup CreateKeys(p)
    BY <1>1 DEF Accept
  <2>3. AcceptedRelease(p) = "released" => p.version \in CreateKeys(p)
    BY DEF AcceptedRelease, CreateKeys
  <2> QED
    BY <2>1, <2>2, <2>3
<1>2. ASSUME NEW w \in Workers, Work(w), ~Accept(w)
      PROVE  /\ order'.release = "released" => order' = order
             /\ outbox'.create = outbox.create
  BY <1>2 DEF Work, Claim, LoadOrder, LoadFulfillment, ReadShipment, ReadExceptions, Abort, Park,
     IgnoreAcceptance, WakeParked,
     StaleWarehouseUpdate, ConflictingWarehouseUpdate, ApplyWarehouseUpdate, RecordShipment,
     PersistShipment, RejectShipment, Readback, IgnoreCancellation, RequestCancellation,
     CancelAtOnce
<1> QED
  BY <1>1, <1>2 DEF Next, vars

\* An order on record as released has its message to the warehouse, under the
\* version on record: upsert and append share a transaction.
THEOREM ReleaseIsAnnouncedCorrect == Spec => []ReleaseIsAnnounced
<1>1. Init => ReleaseIsAnnounced
  BY DEF Init, NoOrder, ReleaseIsAnnounced
<1> QED
  BY <1>1, TypeInit, TypeStep, ReleaseStep, PTL DEF Spec

LEMMA EmissionStep == TypeOK /\ EligibleIsEmitted /\ [Next]_vars => EligibleIsEmitted'
<1> SUFFICES ASSUME TypeOK, EligibleIsEmitted, [Next]_vars PROVE EligibleIsEmitted'
  OBVIOUS
<1> USE DEF TypeOK, Process, Outbox, EligibleIsEmitted
<1>1. ASSUME NEW w \in Workers, Readback(w) PROVE EligibleIsEmitted'
  <2> DEFINE scope == Scope(Payload[worker[w].event], worker[w])
             decision == worker[w].decision + 1
  <2>1. scope \in {"none", "full_order", "partial_shipment"}
    BY ScopeType
  <2>2. /\ proc'.eligible = IF scope = "none" THEN "no" ELSE "yes"
        /\ proc'.decision = decision
        /\ outbox'.bill = outbox.bill \cup BillKeys(decision, scope)
    BY <1>1 DEF Readback
  <2>3. scope # "none" => <<decision, scope>> \in BillKeys(decision, scope)
    BY DEF BillKeys
  <2> QED
    BY <2>1, <2>2, <2>3
<1>2. ASSUME NEW w \in Workers, Work(w), ~Readback(w)
      PROVE  /\ proc'.eligible = proc.eligible /\ proc'.decision = proc.decision
             /\ outbox'.bill = outbox.bill
  BY <1>2 DEF Work, Claim, LoadOrder, LoadFulfillment, ReadShipment, ReadExceptions, Abort, Park,
     IgnoreAcceptance, WakeParked, Accept,
     StaleWarehouseUpdate, ConflictingWarehouseUpdate, ApplyWarehouseUpdate, RecordShipment,
     PersistShipment, RejectShipment, IgnoreCancellation, RequestCancellation, CancelAtOnce,
     StepTo
<1> QED
  BY <1>1, <1>2 DEF Next, vars

\* Eligible orders have the billing message of the decision they are marked with,
\* also when two readbacks compute the same decision version.
THEOREM EligibleIsEmittedCorrect == Spec => []EligibleIsEmitted
<1>1. Init => EligibleIsEmitted
  BY DEF Init, NoProcess, EligibleIsEmitted
<1> QED
  BY <1>1, TypeInit, TypeStep, EmissionStep, PTL DEF Spec

\* Only an evaluation appends billing messages, and one that nothing blocks.
LEMMA BillingAppended ==
    ASSUME TypeOK, NEW w \in Workers, Work(w), outbox'.bill # outbox.bill
    PROVE  /\ worker[w].step = "commit"
           /\ Payload[worker[w].event].kind = "readback"
           /\ NothingBlocks(Payload[worker[w].event], worker[w])
           /\ worker[w].ful.line.ship > 0
<1>1. CASE Readback(w)
  <2>1. Scope(Payload[worker[w].event], worker[w]) # "none"
    BY <1>1 DEF Readback, BillKeys, TypeOK, Outbox
  <2>2. worker[w].ful.line.ship \in Nat
    BY DEF TypeOK, WorkerState, Fulfillment, Line
  <2> QED
    BY <1>1, <2>1, <2>2 DEF Readback, Handling, Scope
<1>2. CASE ~Readback(w)
  BY <1>2 DEF TypeOK, Outbox, Work, Claim, LoadOrder, LoadFulfillment, ReadShipment,
     ReadExceptions, Abort, Park, IgnoreAcceptance, WakeParked, Accept, StaleWarehouseUpdate,
     ConflictingWarehouseUpdate, ApplyWarehouseUpdate, RecordShipment, PersistShipment,
     RejectShipment, IgnoreCancellation, RequestCancellation, CancelAtOnce
<1> QED
  BY <1>1, <1>2

\* A worker that has seen a shipment is right that there is one, whatever else it
\* has read is overtaken.
ShippedInv ==
    /\ BilledIsShipped
    /\ \A w \in Workers : worker[w].tracking = "yes" => Shipped

\* What is shipped stays shipped.
LEMMA ShippedStays ==
    ASSUME TypeOK, [Next]_vars, Shipped PROVE Shipped'
<1>1. CASE shipped' = shipped
  BY <1>1 DEF Shipped
<1>2. ASSUME NEW w \in Workers, RecordShipment(w) PROVE Shipped'
  <2> DEFINE p == Payload[worker[w].event]
  <2>1. p \in Message /\ p.qty > 0
    BY <1>2, PayloadType DEF RecordShipment, Handling, ValidShipment
  <2>2. shipped' = [shipped EXCEPT ![p.shipment] = IF @ = 0 THEN p.qty ELSE @]
    BY <1>2 DEF RecordShipment, PersistShipment
  <2>3. p.shipment \in Shipments /\ shipped[p.shipment] \in Nat
    BY <2>1 DEF TypeOK, Message
  <2>4. shipped'[p.shipment] > 0
    BY <2>1, <2>2, <2>3 DEF TypeOK
  <2> QED
    BY <2>3, <2>4 DEF Shipped
<1> QED
  BY <1>1, <1>2, ShipmentsChange

LEMMA ShippedStep == TypeOK /\ ShippedInv /\ [Next]_vars => ShippedInv'
<1> SUFFICES ASSUME TypeOK, ShippedInv, [Next]_vars PROVE ShippedInv'
  OBVIOUS
<1>1. ASSUME NEW v \in Workers, worker'[v].tracking = "yes" PROVE Shipped'
  BY <1>1, ReadsChange, ShippedStays DEF ReadChange, ShippedInv
<1>2. ASSUME outbox'.bill # {} PROVE Shipped'
  <2>1. CASE outbox'.bill = outbox.bill
    BY <1>2, <2>1, ShippedStays DEF ShippedInv, BilledIsShipped, Shipped
  <2>2. ASSUME NEW w \in Workers, Work(w), outbox'.bill # outbox.bill PROVE Shipped'
    <3>1. worker[w].tracking = "yes"
      BY <2>2, BillingAppended DEF NothingBlocks, EvidenceClear
    <3> QED
      BY <3>1, ShippedStays DEF ShippedInv
  <2> QED
    BY <2>1, <2>2 DEF Next, vars
<1> QED
  BY <1>1, <1>2 DEF ShippedInv, BilledIsShipped, Shipped

\* Nobody is billed without a shipment on record, for any number of workers that
\* read without locks: a shipment that was seen is there for good.
THEOREM BilledIsShippedCorrect == Spec => []BilledIsShipped
<1>1. Init => ShippedInv
  BY DEF Init, ShippedInv, BilledIsShipped, IdleWorker
<1>2. ShippedInv => BilledIsShipped
  BY DEF ShippedInv
<1> QED
  BY <1>1, <1>2, TypeInit, TypeStep, ShippedStep, PTL DEF Spec

-----------------------------------------------------------------------------
(* One transaction at a time *)

\* No two workers are inside a handler: there is one worker, or something outside of
\* this code has them take turns.
OneAtATime ==
    \A v, w \in Workers : worker[v].step # "idle" /\ worker[w].step # "idle" => v = w

\* What a worker has read is still on record when it commits.
IsFresh(w) ==
    /\ worker[w].step \notin {"idle", "order"} => worker[w].order = order
    /\ worker[w].step \notin {"idle", "order", "fulfillment"} => worker[w].ful = ful
    /\ worker[w].step = "commit" /\ Payload[worker[w].event].kind = "readback" =>
         /\ worker[w].open = open
         /\ worker[w].tracking = "yes" => Shipped
    /\ worker[w].step = "exceptions" /\ worker[w].tracking = "yes" => Shipped

FreshReads == \A w \in Workers : IsFresh(w)

LEMMA FreshInit == Init => FreshReads
BY DEF Init, FreshReads, IsFresh, IdleWorker

\* A worker's own step leaves its reads fresh.
LEMMA OwnStepFresh ==
    ASSUME TypeOK, NEW w \in Workers, IsFresh(w), Work(w) PROVE IsFresh(w)'
<1> USE DEF IsFresh
<1>0. worker \in [Workers -> WorkerState]
  BY DEF TypeOK
<1>1. CASE Claim(w)
  BY <1>0, <1>1 DEF Claim, IdleWorker
<1>2. CASE LoadOrder(w)
  BY <1>0, <1>2 DEF LoadOrder, WorkerState
<1>3. CASE LoadFulfillment(w)
  <2>1. PICK next \in {"shipment", "commit"} :
          /\ worker' = [worker EXCEPT ![w] =
               [@ EXCEPT !.step = next, !.ful = ful, !.decision = proc.decision]]
          /\ next = "commit" => Payload[worker[w].event].kind # "readback"
    BY <1>3 DEF LoadFulfillment
  <2>2. /\ worker'[w].step = next /\ worker'[w].ful = ful
        /\ worker'[w].order = worker[w].order /\ worker'[w].event = worker[w].event
    BY <1>0, <2>1 DEF WorkerState
  <2> QED
    BY <1>3, <2>1, <2>2 DEF LoadFulfillment
<1>4. CASE ReadShipment(w)
  <2>1. PICK tracking \in {"yes", "no"} :
          /\ worker' = [worker EXCEPT ![w] =
                         [@ EXCEPT !.step = "exceptions", !.tracking = tracking]]
          /\ tracking = "yes" => Shipped
    BY <1>4 DEF ReadShipment, Shipped
  <2>2. /\ worker'[w].step = "exceptions" /\ worker'[w].tracking = tracking
        /\ worker'[w].order = worker[w].order /\ worker'[w].ful = worker[w].ful
    BY <1>0, <2>1 DEF WorkerState
  <2> QED
    BY <1>4, <2>1, <2>2 DEF ReadShipment, Shipped
<1>5. CASE ReadExceptions(w)
  <2>1. /\ worker'[w].step = "commit" /\ worker'[w].open = open
        /\ worker'[w].order = worker[w].order /\ worker'[w].ful = worker[w].ful
        /\ worker'[w].tracking = worker[w].tracking
    BY <1>0, <1>5 DEF ReadExceptions, WorkerState
  <2> QED
    BY <1>5, <2>1 DEF ReadExceptions, Shipped
<1>6. CASE WakeParked(w)
  <2>1. PICK woken :
          worker' = [worker EXCEPT ![w] = [@ EXCEPT !.step = "woken", !.woken = woken]]
    BY <1>6 DEF WakeParked
  <2>2. /\ worker'[w].step = "woken"
        /\ worker'[w].order = worker[w].order /\ worker'[w].ful = worker[w].ful
    BY <1>0, <2>1 DEF WorkerState
  <2> QED
    BY <1>6, <2>2 DEF WakeParked, Handling
<1>7. CASE /\ ~Claim(w) /\ ~LoadOrder(w) /\ ~LoadFulfillment(w)
           /\ ~ReadShipment(w) /\ ~ReadExceptions(w) /\ ~WakeParked(w)
  <2>1. worker' = [worker EXCEPT ![w] = IdleWorker]
    BY <1>7 DEF Work, Finish, Abort, Park, IgnoreAcceptance, Accept,
       StaleWarehouseUpdate, ConflictingWarehouseUpdate, ApplyWarehouseUpdate, RecordShipment,
       RejectShipment, Readback, IgnoreCancellation, RequestCancellation, CancelAtOnce
  <2> QED
    BY <1>0, <2>1 DEF IdleWorker
<1> QED
  BY <1>1, <1>2, <1>3, <1>4, <1>5, <1>6, <1>7

\* The others stay where they are.
LEMMA OthersStay ==
    ASSUME TypeOK, NEW w \in Workers, Work(w)
    PROVE  \A v \in Workers \ {w} : worker'[v] = worker[v]
<1>1. PICK local : worker' = [worker EXCEPT ![w] = local]
  BY DEF Work, Claim, LoadOrder, LoadFulfillment, ReadShipment, ReadExceptions, Abort, Park,
     Finish, IgnoreAcceptance, WakeParked, Accept, StaleWarehouseUpdate,
     ConflictingWarehouseUpdate, ApplyWarehouseUpdate, RecordShipment, RejectShipment, Readback,
     IgnoreCancellation, RequestCancellation, CancelAtOnce
<1> QED
  BY <1>1 DEF TypeOK

LEMMA FreshStep == TypeOK /\ OneAtATime /\ FreshReads /\ [Next]_vars => FreshReads'
<1> SUFFICES ASSUME TypeOK, OneAtATime, FreshReads, [Next]_vars, NEW w \in Workers
             PROVE  IsFresh(w)'
  BY DEF FreshReads
<1>0. IsFresh(w)
  BY DEF FreshReads
<1>1. CASE Work(w)
  BY <1>0, <1>1, OwnStepFresh
<1>2. ASSUME NEW v \in Workers, v # w, Work(v) PROVE IsFresh(w)'
  <2>1. worker'[w] = worker[w]
    BY <1>2, OthersStay
  <2>2. CASE Claim(v)
    BY <1>0, <2>1, <2>2 DEF Claim, IsFresh, Shipped
  <2>3. CASE ~Claim(v)
    <3>1. worker[v].step # "idle"
      BY <1>2, <2>3 DEF Work, LoadOrder, LoadFulfillment, ReadShipment, ReadExceptions, Abort,
         Park, IgnoreAcceptance, WakeParked, Accept,
         StaleWarehouseUpdate, ConflictingWarehouseUpdate, ApplyWarehouseUpdate,
         RecordShipment, RejectShipment, Readback, IgnoreCancellation, RequestCancellation,
         CancelAtOnce, Warehouse, Handling
    <3>2. worker[w].step = "idle"
      BY <1>2, <3>1 DEF OneAtATime
    <3> QED
      BY <2>1, <3>2 DEF IsFresh
  <2> QED
    BY <2>2, <2>3
<1>3. CASE UNCHANGED vars
  BY <1>0, <1>3 DEF vars, IsFresh, Shipped
<1> QED
  BY <1>1, <1>2, <1>3 DEF Next

\* While no two workers are inside a handler, the warehouse version on record never
\* goes back.  The update by id of persistFulfillment needs that.
THEOREM WarehouseVersionCorrect == Spec /\ []OneAtATime => WarehouseVersionNeverRegresses
<1>1. TypeOK /\ FreshReads /\ [Next]_vars => [ful'.version >= ful.version]_ful
  <2> SUFFICES ASSUME TypeOK, FreshReads, NEW w \in Workers, Work(w), ful' # ful
               PROVE  ful'.version >= ful.version
    BY DEF vars, Next
  <2>0. IsFresh(w)
    BY DEF FreshReads
  <2>1. CASE ApplyWarehouseUpdate(w)
    <3> DEFINE p == Payload[worker[w].event]
    <3>1. worker[w].step = "commit" /\ Verdict(w) = "none" /\ ful'.version = p.version
      BY <2>1 DEF ApplyWarehouseUpdate, PersistFulfillment, Warehouse, Handling
    <3>2. p \in Message /\ worker[w].ful = ful
      BY <2>0, <3>1, PayloadType DEF IsFresh
    <3>3. ~Older(p, ful)
      BY <3>1, <3>2 DEF Verdict, WarehouseConflict
    <3> QED
      BY <3>1, <3>2, <3>3 DEF Older, Message, TypeOK, Fulfillment
  <2>2. CASE Accept(w)
    BY <2>2 DEF Accept, TypeOK, Fulfillment
  <2>3. CASE Work(w) /\ ~ApplyWarehouseUpdate(w) /\ ~Accept(w)
    BY <2>3 DEF Work, Claim, LoadOrder, LoadFulfillment, ReadShipment, ReadExceptions, Abort,
       Park, IgnoreAcceptance, WakeParked,
       StaleWarehouseUpdate, ConflictingWarehouseUpdate, RecordShipment, RejectShipment,
       Readback, IgnoreCancellation, RequestCancellation, CancelAtOnce
  <2> QED
    BY <2>1, <2>2, <2>3
<1> QED
  BY <1>1, TypeInit, TypeStep, FreshInit, FreshStep, PTL
     DEF Spec, WarehouseVersionNeverRegresses

\* While no two workers are inside a handler, billing is asked for only when nothing
\* on record speaks against it; the evaluation itself reads without locks.
THEOREM BillingIsSoundCorrect == Spec /\ []OneAtATime => BillingIsSound
<1> DEFINE Sound == /\ open = {}
                    /\ order.release # "cancelled"
                    /\ ful.line.short = 0
                    /\ 0 < ful.line.ship /\ ful.line.ship <= order.ordered
                    /\ \E s \in Shipments : shipped[s] > 0
<1>1. TypeOK /\ Bounded /\ FreshReads /\ [Next]_vars
        => [outbox'.bill # outbox.bill => Sound]_outbox
  <2> SUFFICES ASSUME TypeOK, Bounded, FreshReads, NEW w \in Workers, Work(w),
                      outbox'.bill # outbox.bill
               PROVE  Sound
    BY DEF vars, Next
  <2>1. IsFresh(w)
    BY DEF FreshReads
  <2>2. /\ worker[w].step = "commit" /\ Payload[worker[w].event].kind = "readback"
        /\ NothingBlocks(Payload[worker[w].event], worker[w])
        /\ worker[w].ful.line.ship > 0
    BY BillingAppended
  <2>3. worker[w].ful = ful /\ worker[w].order = order /\ worker[w].open = open
    BY <2>1, <2>2 DEF IsFresh
  <2>4. ful.line \in Line /\ order.ordered \in Nat
    BY DEF TypeOK, Fulfillment, Order
  <2>5. 0 < ful.line.ship /\ ful.line.ship <= order.ordered
    BY <2>2, <2>3, <2>4 DEF Bounded, ValidQuantities, Line
  <2>6. worker[w].tracking = "yes"
    BY <2>2, <2>3, <2>5 DEF NothingBlocks, EvidenceClear
  <2>7. \E s \in Shipments : shipped[s] > 0
    BY <2>1, <2>2, <2>6 DEF IsFresh, Shipped
  <2> QED
    BY <2>2, <2>3, <2>5, <2>7 DEF NothingBlocks, EvidenceClear
<1> QED
  BY <1>1, TypeInit, TypeStep, BoundedInit, BoundedStep, FreshInit, FreshStep, PTL
     DEF Spec, BillingIsSound

\* A single worker takes turns with nobody.
THEOREM SingleWorker ==
    ASSUME NEW w, Workers = {w}
    PROVE  Spec => WarehouseVersionNeverRegresses /\ BillingIsSound
<1>1. OneAtATime
  BY DEF OneAtATime
<1> QED
  BY <1>1, WarehouseVersionCorrect, BillingIsSoundCorrect, PTL

-----------------------------------------------------------------------------
(* The handlers keep the ledger of events, for any number of workers *)

\* Workers are about events of their own that are in processing, and an order that a
\* worker has read is still there.  Without an order there is no release either.
ClaimInv ==
    /\ \A w \in Workers : worker[w].step # "idle" => event[worker[w].event] = "processing"
    /\ \A v, w \in Workers :
         /\ worker[v].step # "idle" /\ worker[w].step # "idle"
         /\ worker[v].event = worker[w].event
         => v = w
    /\ order.version = 0 => order.release = "none"
    /\ \A w \in Workers :
         /\ worker[w].order.version # 0 => order.version # 0
         /\ worker[w].order.version = 0 => worker[w].order.release = "none"

LEMMA ClaimInvInit == Init => ClaimInv
BY DEF Init, ClaimInv, IdleWorker, NoOrder

\* The order never goes away, and one without a version has no release.
LEMMA OrderStays ==
    ASSUME TypeOK, ClaimInv, [Next]_vars
    PROVE  /\ order.version # 0 => order'.version # 0
           /\ order'.version = 0 => order'.release = "none"
<1> USE DEF TypeOK, Order, ClaimInv
<1>1. ASSUME NEW w \in Workers, Accept(w) PROVE order'.version # 0
  <2>1. order'.version = Payload[worker[w].event].version
    BY <1>1 DEF Accept, UpsertOrder
  <2>2. worker[w].event \in Events /\ Payload[worker[w].event].kind = "accepted"
    BY <1>1 DEF Accept
  <2> QED
    BY <2>1, <2>2, PayloadAssumption
<1>2. ASSUME NEW w \in Workers,
             \/ ApplyWarehouseUpdate(w) \/ RequestCancellation(w) \/ CancelAtOnce(w)
      PROVE  order'.version = order.version /\ worker[w].order.version # 0
  BY <1>2 DEF ApplyWarehouseUpdate, RequestCancellation, CancelAtOnce, Warehouse
<1>3. ASSUME NEW w \in Workers, Work(w), ~Accept(w), ~ApplyWarehouseUpdate(w),
             ~RequestCancellation(w), ~CancelAtOnce(w)
      PROVE  order' = order
  BY <1>3 DEF Work, Claim, LoadOrder, LoadFulfillment, ReadShipment, ReadExceptions, Abort, Park,
     IgnoreAcceptance, WakeParked,
     StaleWarehouseUpdate, ConflictingWarehouseUpdate, RecordShipment,
     RejectShipment, Readback, IgnoreCancellation
<1>4. CASE UNCHANGED vars
  BY <1>4 DEF vars
<1> QED
  BY <1>1, <1>2, <1>3, <1>4 DEF Next

\* A worker goes on about its event, which nothing else happens to.
Goes(w) ==
    /\ worker[w].step # "idle" /\ worker'[w].step # "idle"
    /\ worker'[w].event = worker[w].event
    /\ \A v \in Workers \ {w} : worker'[v] = worker[v]
    /\ event' = event
    /\ worker'[w].step = "woken" => WakeParked(w)

LEMMA WhoGoes ==
    ASSUME TypeOK, NEW w \in Workers,
           \/ LoadOrder(w) \/ LoadFulfillment(w) \/ ReadShipment(w) \/ ReadExceptions(w)
           \/ WakeParked(w)
    PROVE  Goes(w)
<1>0. worker \in [Workers -> WorkerState]
  BY DEF TypeOK
<1>1. CASE LoadOrder(w)
  BY <1>0, <1>1 DEF LoadOrder, Goes, WorkerState
<1>2. CASE LoadFulfillment(w)
  <2>1. PICK next \in {"shipment", "commit"} :
          worker' = [worker EXCEPT ![w] =
            [@ EXCEPT !.step = next, !.ful = ful, !.decision = proc.decision]]
    BY <1>2 DEF LoadFulfillment
  <2> QED
    BY <1>0, <1>2, <2>1 DEF LoadFulfillment, Goes, WorkerState
<1>3. CASE ReadShipment(w)
  <2>1. PICK tracking : worker' = [worker EXCEPT ![w] =
                          [@ EXCEPT !.step = "exceptions", !.tracking = tracking]]
    BY <1>3 DEF ReadShipment
  <2> QED
    BY <1>0, <1>3, <2>1 DEF ReadShipment, Goes, WorkerState
<1>4. CASE ReadExceptions(w)
  BY <1>0, <1>4 DEF ReadExceptions, Goes, WorkerState
<1>5. CASE WakeParked(w)
  <2>1. PICK woken :
          worker' = [worker EXCEPT ![w] = [@ EXCEPT !.step = "woken", !.woken = woken]]
    BY <1>5 DEF WakeParked
  <2> QED
    BY <1>0, <1>5, <2>1 DEF WakeParked, Handling, Goes, WorkerState
<1> QED
  BY <1>1, <1>2, <1>3, <1>4, <1>5

\* A worker that ends takes the event it is about out of processing; of the others
\* at most those that it has called change.
Ends(w) ==
    /\ worker[w].step # "idle"
    /\ worker' = [worker EXCEPT ![w] = IdleWorker]
    /\ \A e \in Events : e # worker[w].event =>
         event'[e] = event[e] \/ (worker[w].step = "woken" /\ e \in worker[w].woken)

LEMMA WhoEnds ==
    ASSUME TypeOK, NEW w \in Workers, Work(w), ~Claim(w), ~LoadOrder(w), ~LoadFulfillment(w),
           ~ReadShipment(w), ~ReadExceptions(w), ~WakeParked(w)
    PROVE  Ends(w)
<1> USE DEF TypeOK, Ends, Handling
<1>1. CASE Accept(w)
  BY <1>1 DEF Accept, Finish
<1>2. CASE Abort(w)
  BY <1>2 DEF Abort
<1>3. CASE ~Accept(w) /\ ~Abort(w)
  <2>1. PICK outcome \in {"processed", "ignored", "parked"} :
          Finish(w, event, outcome) /\ worker[w].step = "commit"
    BY <1>3 DEF Work, Park, IgnoreAcceptance, Warehouse,
       StaleWarehouseUpdate, ConflictingWarehouseUpdate, ApplyWarehouseUpdate, RecordShipment,
       RejectShipment, Readback, IgnoreCancellation, RequestCancellation, CancelAtOnce
  <2> QED
    BY <2>1 DEF Finish
<1> QED
  BY <1>1, <1>2, <1>3

\* At most one worker has called parked events, and they are still parked.
WakeInv ==
    /\ \A v, w \in Workers : worker[v].step = "woken" /\ worker[w].step = "woken" => v = w
    /\ \A w \in Workers :
         worker[w].step = "woken" => \A e \in worker[w].woken : event[e] = "parked"

LEMMA WakeInvInit == Init => WakeInv
BY DEF Init, WakeInv, IdleWorker

LEMMA ClaimInvStep == TypeOK /\ ClaimInv /\ WakeInv /\ [Next]_vars => ClaimInv'
<1> SUFFICES ASSUME TypeOK, ClaimInv, WakeInv, [Next]_vars PROVE ClaimInv'
  OBVIOUS
<1>0. /\ order.version # 0 => order'.version # 0
      /\ order'.version = 0 => order'.release = "none"
  BY OrderStays
<1>a. ASSUME NEW v \in Workers
      PROVE  /\ worker'[v].order.version # 0 => order'.version # 0
             /\ worker'[v].order.version = 0 => worker'[v].order.release = "none"
  <2>1. worker'[v].order \in {NoOrder, order, worker[v].order}
    BY ReadsChange DEF ReadChange
  <2> QED
    BY <1>0, <2>1 DEF ClaimInv, NoOrder
<1>1. ASSUME NEW w \in Workers, Claim(w) PROVE ClaimInv'
  <2>1. PICK e \in Events :
          /\ event[e] = "received"
          /\ event' = [event EXCEPT ![e] = "processing"]
          /\ worker' = [worker EXCEPT ![w] = [IdleWorker EXCEPT !.step = "order", !.event = e]]
    BY <1>1 DEF Claim
  <2>2. /\ worker'[w].event = e /\ event'[e] = "processing"
        /\ \A v \in Workers \ {w} : worker'[v] = worker[v]
        /\ \A f \in Events \ {e} : event'[f] = event[f]
    BY <2>1 DEF TypeOK, IdleWorker
  <2>3. \A v \in Workers : worker[v].step # "idle" => worker[v].event \in Events \ {e}
    BY <2>1 DEF TypeOK, ClaimInv
  <2>4. ASSUME NEW v \in Workers, worker'[v].step # "idle"
        PROVE  event'[worker'[v].event] = "processing"
    BY <2>2, <2>3, <2>4 DEF ClaimInv
  <2>5. ASSUME NEW u \in Workers, NEW v \in Workers,
               worker'[u].step # "idle", worker'[v].step # "idle",
               worker'[u].event = worker'[v].event
        PROVE  u = v
    BY <2>2, <2>3, <2>5 DEF ClaimInv
  <2>6. \A v \in Workers : worker'[v].step # "idle" => event'[worker'[v].event] = "processing"
    BY <2>4
  <2>7. \A u, v \in Workers :
          /\ worker'[u].step # "idle" /\ worker'[v].step # "idle"
          /\ worker'[u].event = worker'[v].event
          => u = v
    BY <2>5
  <2>8. \A v \in Workers : worker'[v].order.version # 0 => order'.version # 0
    BY <1>a
  <2>9. \A v \in Workers : worker'[v].order.version = 0 => worker'[v].order.release = "none"
    BY <1>a
  <2> QED
    BY ONLY <1>0, <2>6, <2>7, <2>8, <2>9, Zenon DEF ClaimInv
<1>2. ASSUME NEW w \in Workers,
             \/ LoadOrder(w) \/ LoadFulfillment(w) \/ ReadShipment(w) \/ ReadExceptions(w)
             \/ WakeParked(w)
      PROVE  ClaimInv'
  <2>1. Goes(w)
    BY <1>2, WhoGoes
  <2> QED
    BY <1>0, <1>a, <2>1 DEF ClaimInv, Goes
<1>3. ASSUME NEW w \in Workers, Work(w), ~Claim(w), ~LoadOrder(w), ~LoadFulfillment(w),
             ~ReadShipment(w), ~ReadExceptions(w), ~WakeParked(w)
      PROVE  ClaimInv'
  <2>1. Ends(w)
    BY <1>3, WhoEnds
  <2>2. worker'[w].step = "idle" /\ \A v \in Workers \ {w} : worker'[v] = worker[v]
    BY <2>1 DEF Ends, TypeOK, IdleWorker
  <2>3. ASSUME NEW v \in Workers, worker'[v].step # "idle"
        PROVE  event'[worker'[v].event] = "processing"
    <3>1. v # w /\ worker'[v] = worker[v]
      BY <2>2, <2>3
    <3>2. /\ worker[v].event \in Events /\ worker[v].event # worker[w].event
          /\ event[worker[v].event] = "processing"
      BY <2>1, <2>3, <3>1 DEF Ends, TypeOK, ClaimInv
    <3>3. ~(worker[w].step = "woken" /\ worker[v].event \in worker[w].woken)
      BY <3>2 DEF WakeInv
    <3> QED
      BY <2>1, <3>1, <3>2, <3>3 DEF Ends
  <2> QED
    BY <1>0, <1>a, <2>2, <2>3 DEF ClaimInv
<1>4. CASE UNCHANGED vars
  BY <1>4 DEF vars, ClaimInv
<1> QED
  BY <1>1, <1>2, <1>3, <1>4 DEF Next

LEMMA WakeInvStep == TypeOK /\ ClaimInv /\ WakeInv /\ [Next]_vars => WakeInv'
<1> SUFFICES ASSUME TypeOK, ClaimInv, WakeInv, [Next]_vars PROVE WakeInv'
  OBVIOUS
<1>0. worker \in [Workers -> WorkerState] /\ event \in [Events ->
        {"received", "processing", "processed", "ignored", "parked"}]
  BY DEF TypeOK
<1>1. ASSUME NEW w \in Workers, Claim(w) PROVE WakeInv'
  <2>1. PICK e \in Events :
          /\ event[e] = "received"
          /\ event' = [event EXCEPT ![e] = "processing"]
          /\ worker' = [worker EXCEPT ![w] = [IdleWorker EXCEPT !.step = "order", !.event = e]]
    BY <1>1 DEF Claim
  <2>2. /\ worker'[w].step = "order"
        /\ \A v \in Workers \ {w} : worker'[v] = worker[v]
    BY <1>0, <2>1 DEF IdleWorker
  <2>3. \A f \in Events : event[f] = "parked" => event'[f] = "parked"
    BY <1>0, <2>1
  <2>4. \A v \in Workers : worker[v].woken \subseteq Events
    BY <1>0 DEF WorkerState
  <2> QED
    BY <2>2, <2>3, <2>4 DEF WakeInv
<1>2. ASSUME NEW w \in Workers,
             LoadOrder(w) \/ LoadFulfillment(w) \/ ReadShipment(w) \/ ReadExceptions(w)
      PROVE  WakeInv'
  <2>1. Goes(w)
    BY <1>2, WhoGoes
  <2>2. ~WakeParked(w)
    BY <1>2 DEF LoadOrder, LoadFulfillment, ReadShipment, ReadExceptions, WakeParked, Handling
  <2> QED
    BY <2>1, <2>2 DEF WakeInv, Goes
<1>3. ASSUME NEW w \in Workers, WakeParked(w) PROVE WakeInv'
  <2> DEFINE parked == {e \in Events : event[e] = "parked"}
  <2>1. /\ worker' = [worker EXCEPT ![w] = [@ EXCEPT !.step = "woken", !.woken = parked]]
        /\ RowsAreFree /\ event' = event
    BY <1>3 DEF WakeParked
  <2> HIDE DEF parked
  <2>2. worker'[w].woken = parked /\ \A v \in Workers \ {w} : worker'[v].step # "woken"
    BY <1>0, <2>1 DEF RowsAreFree, WorkerState
  <2> QED
    BY <2>1, <2>2 DEF WakeInv, parked
<1>4. ASSUME NEW w \in Workers, Work(w), ~Claim(w), ~LoadOrder(w), ~LoadFulfillment(w),
             ~ReadShipment(w), ~ReadExceptions(w), ~WakeParked(w)
      PROVE  WakeInv'
  <2>1. Ends(w)
    BY <1>4, WhoEnds
  <2>2. worker'[w].step = "idle" /\ \A v \in Workers \ {w} : worker'[v] = worker[v]
    BY <1>0, <2>1 DEF Ends, IdleWorker
  <2>3. ASSUME NEW v \in Workers, worker'[v].step = "woken", NEW e \in worker'[v].woken
        PROVE  event'[e] = "parked"
    <3>1. v # w /\ worker[v].step = "woken" /\ e \in worker[v].woken
      BY <2>2, <2>3
    <3>2. event[e] = "parked" /\ e \in Events /\ worker[w].step # "woken"
      BY <1>0, <3>1 DEF WakeInv, WorkerState
    <3>3. e # worker[w].event
      BY <2>1, <3>2 DEF ClaimInv, Ends
    <3> QED
      BY <2>1, <3>2, <3>3 DEF Ends
  <2> QED
    BY <2>2, <2>3 DEF WakeInv
<1>5. CASE UNCHANGED vars
  BY <1>5 DEF vars, WakeInv
<1> QED
  BY <1>1, <1>2, <1>3, <1>4, <1>5 DEF Next

\* A step of nobody who calls changes neither who calls nor who is called.
LEMMA CallersStay ==
    ASSUME \A w \in Workers : worker[w].step = "woken" \/ worker'[w].step = "woken"
                                => worker'[w] = worker[w]
    PROVE  UNCHANGED <<Calling, Heard>>
<1>1. Waking' = Waking
  BY DEF Waking
<1>2. \A w \in Waking : worker'[w] = worker[w]
  BY DEF Waking
<1> QED
  BY <1>1, <1>2 DEF Calling, Heard

\* Nor does a worker that starts and ends outside of the call.
LEMMA CallerStays ==
    ASSUME NEW w \in Workers, \A v \in Workers \ {w} : worker'[v] = worker[v],
           worker[w].step # "woken", worker'[w].step # "woken"
    PROVE  UNCHANGED <<Calling, Heard>>
BY CallersStay

\* The one that calls is alone, and when it ends nobody calls.
LEMMA Caller ==
    ASSUME TypeOK, WakeInv, NEW w \in Workers, worker[w].step = "woken"
    PROVE  /\ Calling = {worker[w].event} /\ Heard = worker[w].woken
           /\ worker' = [worker EXCEPT ![w] = IdleWorker] => Calling' = {} /\ Heard' = {}
<1>1. Waking = {w}
  BY DEF WakeInv, Waking
<1>2. ASSUME worker' = [worker EXCEPT ![w] = IdleWorker] PROVE Waking' = {}
  BY <1>2 DEF TypeOK, WakeInv, Waking, IdleWorker
<1> QED
  BY <1>1, <1>2 DEF Calling, Heard

LEMMA LedgerInit == Init => Ledger!LInit
<1> SUFFICES ASSUME Init PROVE Ledger!LInit
  OBVIOUS
<1>1. Waking = {}
  BY DEF Init, Waking, IdleWorker
<1>2. Calling = {} /\ Heard = {}
  BY <1>1 DEF Calling, Heard
<1> QED
  BY <1>2 DEF Init, NoOrder, Ledger!LInit

\* What a worker works on is in processing.
LEMMA AtWork ==
    ASSUME TypeOK, ClaimInv, NEW w \in Workers, worker[w].step # "idle"
    PROVE  \E e \in Events : e = worker[w].event /\ event[e] = "processing"
BY DEF TypeOK, ClaimInv

\* A handler that ends without having called anybody.
LEMMA FinishTurn ==
    ASSUME TypeOK, NEW w \in Workers, worker[w].step = "commit",
           NEW outcome, Finish(w, event, outcome), order'.version = order.version,
           NEW e \in Events, e = worker[w].event, event[e] = "processing"
    PROVE  Ledger!Turn(e, "processing", outcome)
<1>1. worker'[w].step = "idle" /\ \A v \in Workers \ {w} : worker'[v] = worker[v]
  BY DEF Finish, TypeOK, IdleWorker
<1>2. UNCHANGED <<Calling, Heard>>
  BY <1>1, CallerStays
<1> QED
  BY <1>2 DEF Finish, Ledger!Turn

LEMMA LedgerStep == TypeOK /\ ClaimInv /\ WakeInv /\ [Next]_vars => [Ledger!LNext]_(Ledger!lvars)
<1> SUFFICES ASSUME TypeOK, ClaimInv, WakeInv, [Next]_vars
             PROVE  [Ledger!LNext]_(Ledger!lvars)
  OBVIOUS
<1>a. ASSUME event' = event, order'.version = order.version, UNCHANGED <<Calling, Heard>>
      PROVE  UNCHANGED Ledger!lvars
  BY <1>a DEF Ledger!lvars
<1>1. ASSUME NEW w \in Workers, Claim(w) PROVE [Ledger!LNext]_(Ledger!lvars)
  <2>1. PICK e \in Events :
          /\ event[e] = "received"
          /\ event' = [event EXCEPT ![e] = "processing"]
          /\ worker' = [worker EXCEPT ![w] = [IdleWorker EXCEPT !.step = "order", !.event = e]]
    BY <1>1 DEF Claim
  <2>2. worker'[w].step = "order" /\ \A v \in Workers \ {w} : worker'[v] = worker[v]
    BY <2>1 DEF TypeOK, IdleWorker
  <2>3. UNCHANGED <<Calling, Heard>>
    BY <1>1, <2>2, CallerStays DEF Claim
  <2> QED
    BY <1>1, <2>1, <2>3 DEF Claim, Ledger!LNext, Ledger!Claim, Ledger!Turn
<1>2. ASSUME NEW w \in Workers,
             LoadOrder(w) \/ LoadFulfillment(w) \/ ReadShipment(w) \/ ReadExceptions(w)
      PROVE  [Ledger!LNext]_(Ledger!lvars)
  <2>1. /\ worker[w].step # "woken" /\ ~WakeParked(w) /\ UNCHANGED <<event, order>>
    BY <1>2 DEF LoadOrder, LoadFulfillment, ReadShipment, ReadExceptions, WakeParked, Handling
  <2>2. UNCHANGED <<Calling, Heard>>
    BY <1>2, <2>1, WhoGoes, CallerStays DEF Goes
  <2> QED
    BY <1>a, <2>1, <2>2
<1>9. ASSUME NEW w \in Workers, WakeParked(w) PROVE [Ledger!LNext]_(Ledger!lvars)
  <2> DEFINE parked == {f \in Events : event[f] = "parked"}
  <2>1. /\ worker' = [worker EXCEPT ![w] = [@ EXCEPT !.step = "woken", !.woken = parked]]
        /\ RowsAreFree /\ UNCHANGED <<event, order>>
        /\ worker[w].step = "commit" /\ Payload[worker[w].event].kind = "accepted"
    BY <1>9 DEF WakeParked, Handling
  <2>2. PICK e \in Events : e = worker[w].event /\ event[e] = "processing"
    BY <2>1, AtWork
  <2>3. Calling = {}
    BY <2>1 DEF RowsAreFree, Waking, Calling
  <2> HIDE DEF parked
  <2>4. /\ worker'[w].step = "woken" /\ worker'[w].event = e /\ worker'[w].woken = parked
        /\ \A v \in Workers \ {w} : worker'[v] = worker[v]
    BY <2>1, <2>2 DEF TypeOK, WorkerState
  <2>5. Waking' = {w}
    BY <2>1, <2>4 DEF RowsAreFree, Waking
  <2>6. Calling' = {e} /\ Heard' = parked
    BY <2>4, <2>5 DEF Calling, Heard
  <2>7. parked = {f \in Events \ {} : event[f] = "parked"}
    BY DEF parked
  <2> QED
    BY <2>1, <2>2, <2>3, <2>6, <2>7 DEF Ledger!LNext, Ledger!Call
<1>3. ASSUME NEW w \in Workers, Accept(w) PROVE [Ledger!LNext]_(Ledger!lvars)
  <2>1. worker[w].step = "woken" /\ worker' = [worker EXCEPT ![w] = IdleWorker]
    BY <1>3 DEF Accept, Finish
  <2>2. PICK e \in Events :
          e = worker[w].event /\ event[e] = "processing" /\ Payload[e].kind = "accepted"
    BY <2>1, AtWork DEF TypeOK
  <2>3. order'.version # 0
    BY <1>3, <2>2, PayloadAssumption DEF Accept, UpsertOrder
  <2>4. /\ e \in Calling /\ Heard = worker[w].woken
        /\ Calling' = {} /\ Heard' = {}
    BY <2>1, <2>2, Caller
  <2>5. event' = [f \in Events |->
                   IF f = e THEN "processed"
                   ELSE IF f \in Heard THEN "received" ELSE event[f]]
    BY <1>3, <2>2, <2>4 DEF Accept, Finish
  <2> QED
    BY <2>3, <2>4, <2>5 DEF Ledger!LNext, Ledger!Create
<1>4. ASSUME NEW w \in Workers, Abort(w) PROVE [Ledger!LNext]_(Ledger!lvars)
  <2>1. PICK e \in Events : e = worker[w].event /\ event[e] = "processing"
    BY <1>4, AtWork DEF Abort
  <2>2. /\ event' = [event EXCEPT ![e] = "received"] /\ order' = order
        /\ worker' = [worker EXCEPT ![w] = IdleWorker]
    BY <1>4, <2>1 DEF Abort
  <2>3. CASE worker[w].step = "woken"
    <3>1. e \in Calling /\ Calling' = {} /\ Heard' = {}
      BY <2>1, <2>2, <2>3, Caller
    <3> QED
      BY <2>2, <3>1 DEF Ledger!LNext, Ledger!Retract
  <2>4. CASE worker[w].step # "woken"
    <3>1. worker'[w].step = "idle" /\ \A v \in Workers \ {w} : worker'[v] = worker[v]
      BY <2>2 DEF TypeOK, IdleWorker
    <3>2. UNCHANGED <<Calling, Heard>>
      BY <2>4, <3>1, CallerStays
    <3> QED
      BY <2>1, <2>2, <3>2 DEF Ledger!LNext, Ledger!GiveBack, Ledger!Turn
  <2> QED
    BY <2>3, <2>4
<1>5. ASSUME NEW w \in Workers, Park(w) PROVE [Ledger!LNext]_(Ledger!lvars)
  <2>1. /\ worker[w].step = "commit" /\ Finish(w, event, "parked") /\ order' = order
        /\ Payload[worker[w].event].kind # "accepted"
    BY <1>5 DEF Park
  <2>2. PICK e \in Events : e = worker[w].event /\ event[e] = "processing"
    BY <2>1, AtWork
  <2>3. Ledger!Turn(e, "processing", "parked")
    BY <2>1, <2>2, FinishTurn
  <2> QED
    BY <2>1, <2>2, <2>3 DEF Ledger!LNext, Ledger!Park
<1>6. ASSUME NEW w \in Workers, IgnoreAcceptance(w) \/ IgnoreCancellation(w)
                                \/ StaleWarehouseUpdate(w)
      PROVE  [Ledger!LNext]_(Ledger!lvars)
  <2>1. /\ worker[w].step = "commit" /\ worker[w].order.version # 0
        /\ Finish(w, event, "ignored") /\ order' = order
    BY <1>6 DEF IgnoreAcceptance, IgnoreCancellation, StaleWarehouseUpdate, Warehouse, Handling,
                Newer, ClaimInv
  <2>2. PICK e \in Events : e = worker[w].event /\ event[e] = "processing"
    BY <2>1, AtWork
  <2>3. order.version # 0
    BY <2>1 DEF ClaimInv
  <2>4. Ledger!Turn(e, "processing", "ignored")
    BY <2>1, <2>2, FinishTurn
  <2> QED
    BY <2>3, <2>4 DEF Ledger!LNext, Ledger!Ignore
<1>7. ASSUME NEW w \in Workers,
             \/ ConflictingWarehouseUpdate(w) \/ ApplyWarehouseUpdate(w)
             \/ RecordShipment(w) \/ RejectShipment(w) \/ Readback(w)
             \/ RequestCancellation(w) \/ CancelAtOnce(w)
      PROVE  [Ledger!LNext]_(Ledger!lvars)
  <2>1. /\ worker[w].step = "commit" /\ worker[w].order.version # 0
        /\ Finish(w, event, "processed") /\ order'.version = order.version
        /\ Payload[worker[w].event].kind # "accepted"
    BY <1>7 DEF ConflictingWarehouseUpdate, ApplyWarehouseUpdate, RecordShipment, RejectShipment,
                Readback, RequestCancellation, CancelAtOnce, Warehouse, Handling, ClaimInv,
                TypeOK, Order
  <2>2. PICK e \in Events : e = worker[w].event /\ event[e] = "processing"
    BY <2>1, AtWork
  <2>3. order.version # 0
    BY <2>1 DEF ClaimInv
  <2>4. Ledger!Turn(e, "processing", "processed")
    BY <2>1, <2>2, FinishTurn
  <2> QED
    BY <2>1, <2>2, <2>3, <2>4 DEF Ledger!LNext, Ledger!Apply
<1>8. CASE UNCHANGED vars
  <2>1. UNCHANGED <<Calling, Heard>>
    BY <1>8, CallersStay DEF vars
  <2> QED
    BY <1>8, <1>a, <2>1 DEF vars
<1> QED
  BY <1>1, <1>2, <1>3, <1>4, <1>5, <1>6, <1>7, <1>8, <1>9 DEF Next, Work

\* The handlers move events as EventLedger says: whatever they decide on stale reads,
\* what they suppose of claiming, parking and waking is what the inbox provides.  An
\* acceptance wakes those that were parked when it called them, not all those that
\* are parked when it commits.
THEOREM HandlersKeepLedger == Spec => KeepsLedger
BY TypeInit, TypeStep, ClaimInvInit, ClaimInvStep, WakeInvInit, WakeInvStep, LedgerInit,
   LedgerStep, PTL
   DEF Spec, KeepsLedger, Ledger!LSpec
=============================================================================
