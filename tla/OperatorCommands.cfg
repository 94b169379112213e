SPECIFICATION Spec
CONSTANTS
    Exceptions <- OrderExceptions
    Type <- OrderTypes
    Severity <- OrderSeverity
    Requests <- OrderRequests
    Command <- OrderCommands
    Keys <- OrderKeys
    Sessions = {s1, s2}
    Null = Null
    MaxDecisions = 1
SYMMETRY Symmetric
INVARIANTS
    VersionsCountCommands
    CommandsAreIdempotent
    ClosedByOneCommand
    EligibleIsBilled
    CommandsNeverDeadlock
PROPERTIES
    CommandsAreAtomic
\* Every request may have been answered for good.
CHECK_DEADLOCK FALSE
