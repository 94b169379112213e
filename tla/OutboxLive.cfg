SPECIFICATION FairSpec
CONSTANTS
    Messages = {m1}
    Workers = {w1, w2, w3}
    Null = Null
    MaxAttempts = 2
    ReceiptKinds = {"match"}
    MaxFaults = 2
    MaxManualRetries = 1
INVARIANTS
    ReceiptTrail
PROPERTIES
    ImplementsDelivery
    EventuallySettled
\* Once every message is settled nothing is left to do.
CHECK_DEADLOCK FALSE
