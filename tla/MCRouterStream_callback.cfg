\* on_restart raises while a stream restarts.
SPECIFICATION StreamSpec
CONSTANTS
    p1 = p1
    p2 = p2
    p3 = p3
    RateLimitCooldown = 1
    FailureCooldown = 1
    FailureThreshold = 2
    Calls = {c1}
    Providers = {p1, p2}
    ProviderList <- TwoProviders
    Disabled = {}
    Keyless = {}
    Unmatched = {}
    Errors <- DropOnly
    Policy = "round_robin"
    MaxOrder = 2
    RetryCeiling = 1
    RetryScope = "none"
    RetrySelected = {}
    CustomFactory = FALSE
    OwnedStore = TRUE
    StoreFaults = FALSE
    Streams = TRUE
    MaxTime = 0
    MaxResets = 0
    MaxChunks = 2
    FailurePolicies = {"restart"}
    CallbackMayRaise = TRUE
INVARIANTS
    AttemptRecordedOnce
