------------------------ MODULE MCFulfillmentProcess ------------------------
EXTENDS FulfillmentProcess, TLC

OneShipment == {"s1"}

Quantities(alloc, pick, pack, ship, short) ==
    [alloc |-> alloc, pick |-> pick, pack |-> pack, ship |-> ship, short |-> short]

Blank(kind) ==
    [kind |-> kind, version |-> 0, envelope |-> 0, says |-> "reflected", qty |-> 0,
     warehouse |-> 0, lines |-> "omitted", line |-> ZeroLine, correction |-> "no",
      shipment |-> "s1"]

Accepted(version, says, qty) ==
    [Blank("accepted") EXCEPT !.version = version, !.envelope = version, !.says = says,
                              !.qty = qty]
WarehouseSays(version, says, line) ==
    [Blank("warehouse") EXCEPT !.version = version, !.says = says, !.warehouse = 1,
                               !.lines = "given", !.line = line]
Acknowledged == [Blank("warehouse") EXCEPT !.version = 1, !.says = "acknowledged",
                                           !.warehouse = 1]
ShipmentOf(shipment, qty) ==
    [Blank("shipment") EXCEPT !.shipment = shipment, !.qty = qty]
ReadbackOf(qty) == [Blank("readback") EXCEPT !.qty = qty]
Cancelled == Blank("cancelled")

Packed == WarehouseSays(2, "packed", Quantities(2, 2, 2, 0, 0))
ShippedOne == WarehouseSays(3, "shipped", Quantities(2, 2, 2, 1, 0))

\* From acceptance to invoice, with everything that can go wrong on the way: a
\* partial shipment, a regressing and an overallocating update and a shipment of
\* more than was packed.
HandoffEvents == {"accept", "pack", "ship", "regress", "overalloc", "shipment",
                  "oversize", "readback"}
HandoffPayload == [e \in HandoffEvents |->
    CASE e = "accept" -> Accepted(1, "release", 2)
      [] e = "pack" -> Packed
      [] e = "ship" -> ShippedOne
      [] e = "regress" -> WarehouseSays(4, "picking", Quantities(2, 2, 1, 1, 0))
      [] e = "overalloc" -> WarehouseSays(4, "picking", Quantities(3, 2, 2, 2, 0))
      [] e = "shipment" -> ShipmentOf("s1", 1)
      [] e = "oversize" -> ShipmentOf("s1", 3)
      [] e = "readback" -> ReadbackOf(1)]

\* The same, with a cancellation that comes too late and an update of a foreign
\* warehouse order.
ConflictEvents == HandoffEvents \cup {"late", "foreign"}
ConflictPayload == [e \in ConflictEvents |->
    CASE e = "late" -> WarehouseSays(5, "cancelled", Quantities(2, 2, 2, 1, 0))
      [] e = "foreign" -> [WarehouseSays(5, "picking", Quantities(2, 2, 2, 1, 0))
                           EXCEPT !.warehouse = 2]
      [] OTHER -> HandoffPayload[e]]

\* Revisions of the order, one of them without a version on its envelope, racing a
\* cancellation and the warehouse, which leaves its order id out in the end.
RevisionEvents == {"hold", "release", "revise", "cancel", "cancel2", "ack", "stop"}
RevisionPayload == [e \in RevisionEvents |->
    CASE e = "hold" -> Accepted(1, "no_sku", 2)
      [] e = "release" -> [Accepted(2, "release", 2) EXCEPT !.envelope = 0]
      [] e = "revise" -> Accepted(3, "hold", 2)
      [] e \in {"cancel", "cancel2"} -> Cancelled
      [] e = "ack" -> Acknowledged
      [] e = "stop" -> [WarehouseSays(2, "cancelled", ZeroLine) EXCEPT !.warehouse = 0]]

\* Workers are interchangeable.
Symmetric == Permutations(Workers)
=============================================================================
