SPECIFICATION Spec
CONSTANTS
    Events <- RevisionEvents
    Payload <- RevisionPayload
    Shipments <- OneShipment
    Workers = {w1, w2}
    Null = Null
    AllowPartial = "no"
SYMMETRY Symmetric
INVARIANTS
    ReleaseIsAnnounced
\* Once every event is settled nothing is left to do.
CHECK_DEADLOCK FALSE
