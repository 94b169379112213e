SPECIFICATION Spec
CONSTANTS
    Null = Null
    Contents = {a, b}
    ResourceStatuses = {"missing", "reflected"}
    MaxVersion = 2
    Runners = {r1, r2}
    Keys = {k1}
    CheckedPairs = {"commerce_order", "warehouse_fulfillment", "carrier_shipment", "shipment_commerce_fulfillment"}
    EmptyPairs = {"carrier_shipment"}
    Overlap = 1
    LeaseDuration = 1
    Lookback = 1
    MaxTime = 2
    MaxEvents = 3
SYMMETRY Symmetric
INVARIANTS
    WatermarkIsEnumerated
    CompletedRunsAreExact
    AbandonedRunsPaidFor
    RepairsAreBacked
PROPERTIES
    OvertakenRunsAreFenced
\* Nobody is obliged to start another run.
CHECK_DEADLOCK FALSE
