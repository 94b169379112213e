SPECIFICATION FairSpec
CONSTANTS
    Operations = {o1}
    Processes = {p1, p2}
    WorkerId <- SharedWorkerId
    Null = Null
    MaxFaults = 2
    MaxRefusals = 1
    MaxRequeues = 1
INVARIANTS
    TokenFence
    RecreationsPaidFor
    AttemptsBackTheRow
PROPERTIES
    ImplementsRemoteOperation
    EventuallyRests
\* Once every operation rests nothing is left to do.
CHECK_DEADLOCK FALSE
