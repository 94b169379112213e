SPECIFICATION Spec
CONSTANTS
    Messages = {m1, m2}
    Workers = {w1, w2}
    Null = Null
    MaxAttempts = 2
    ReceiptKinds = {"none", "match", "mismatch"}
    MaxFaults = 2
    MaxManualRetries = 0
SYMMETRY Symmetric
INVARIANTS
    LeaseFence
    SentAfterOneEffect
    AttemptsPaidFor
\* Once every message is settled nothing is left to do.
CHECK_DEADLOCK FALSE
