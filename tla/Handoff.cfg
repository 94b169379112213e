SPECIFICATION Spec
CONSTANTS
    Events <- HandoffEvents
    Payload <- HandoffPayload
    Shipments <- OneShipment
    Workers = {w1, w2}
    Null = Null
    AllowPartial = "yes"
SYMMETRY Symmetric
INVARIANTS
    QuantityChain
    BilledIsShipped
    ShipmentEvidence
    EligibleIsEmitted
\* Once every event is settled nothing is left to do.
CHECK_DEADLOCK FALSE
