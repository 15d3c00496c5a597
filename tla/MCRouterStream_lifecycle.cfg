\* One call, three providers in any ranked order: every way a stream can open,
\* die, end, restart or be closed, with the router closed at any point and a
\* consumer that keeps iterating; the caller's contract.
SPECIFICATION FairStreamSpec
CONSTANTS
    p1 = p1
    p2 = p2
    p3 = p3
    RateLimitCooldown = 1
    FailureCooldown = 1
    FailureThreshold = 2
    Calls = {c1}
    Providers = {p1, p2, p3}
    ProviderList <- ThreeProviders
    Disabled = {}
    Keyless = {}
    Unmatched = {}
    Errors <- DropOrFault
    Policy = "score_based"
    MaxOrder = 3
    RetryCeiling = 1
    RetryScope = "none"
    RetrySelected = {}
    CustomFactory = FALSE
    OwnedStore = FALSE
    StoreFaults = FALSE
    Streams = TRUE
    MaxTime = 0
    MaxResets = 0
    MaxChunks = 2
    FailurePolicies = {"restart", "raise"}
    CallbackMayRaise = FALSE
INVARIANTS
    StreamTypeOK
    AttemptRecordedOnce
    AttemptsAccounted
    NoStreamLeaked
    ServedMeansFinished
    RestartsMoveForward
PROPERTIES
    ImplementsStreamContract
    EveryStreamEnds
