SPECIFICATION Spec
CONSTANTS
    Events <- AllEvents
    Creators <- AllCreators
    Unhandled <- AllUnhandled
    Gated <- AllUnhandled
    Misaddressed = {}
    Version <- AllVersions
    Stored <- AllStored
    Stream <- AllStreams
    Receivers = {r1}
    Workers = {w1, w2}
    Null = Null
    MaxAttempts = 2
    MaxCrashes = 1
SYMMETRY Symmetric
INVARIANTS
    ClaimIsSecure
    OneEffect
    StaleIsOvertaken
    StrandedPaidFor
    AttemptsBounded
PROPERTIES
    ImplementsLedger
