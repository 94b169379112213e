SPECIFICATION FairSpec
CONSTANTS
    Events <- SomeEvents
    Creators <- SomeCreators
    Unhandled = {}
    Gated <- SomeStrays
    Misaddressed <- SomeStrays
    Version <- SomeVersions
    Stored <- SomeStored
    Stream <- SomeStreams
    Receivers = {r1}
    Workers = {w1}
    Null = Null
    MaxAttempts = 2
    MaxCrashes = 0
INVARIANTS
    NobodyLeftParked
PROPERTIES
    RegressionsAreUnversioned
    EventuallyDisposed
