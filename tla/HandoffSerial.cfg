SPECIFICATION Spec
CONSTANTS
    Events <- ConflictEvents
    Payload <- ConflictPayload
    Shipments <- OneShipment
    Workers = {w1}
    Null = Null
    AllowPartial = "yes"
PROPERTIES
    BillingIsSound
\* Once every event is settled nothing is left to do.
CHECK_DEADLOCK FALSE
