SPECIFICATION Spec
CONSTANTS
    Requests = {r1, r2, r3, r4}
    Limit = 2
    Window = 2
    Slack = 1
    Skew = 1
    Null = Null
    MaxTime = 4
    MaxFaults = 2
    MaxRestarts = 1
SYMMETRY RequestSymmetry
INVARIANTS
    AdmittedPerBucket
    RefusedForCause
    LastingKeysPaidFor
\* The requests end, and so does time.
CHECK_DEADLOCK FALSE
