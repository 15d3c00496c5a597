\* Two calls on one router, each of which may become a stream, with an
\* on_restart that may raise.
SPECIFICATION StreamSpec
CONSTANTS
    p1 = p1
    p2 = p2
    p3 = p3
    RateLimitCooldown = 1
    FailureCooldown = 1
    FailureThreshold = 3
    Calls = {c1, c2}
    Providers = {p1, p2}
    ProviderList <- TwoProviders
    Disabled = {}
    Keyless = {}
    Unmatched = {}
    Errors <- DropOrAuth
    Policy = "round_robin"
    MaxOrder = 2
    RetryCeiling = 1
    RetryScope = "none"
    RetrySelected = {}
    CustomFactory = FALSE
    OwnedStore = TRUE
    StoreFaults = FALSE
    Streams = TRUE
    MaxTime = 0
    MaxResets = 0
    MaxChunks = 1
    FailurePolicies = {"restart"}
    CallbackMayRaise = TRUE
SYMMETRY CallSymmetry
INVARIANTS
    HealthConsistent
PROPERTIES
    OpeningForgivesNothing
