\* Score-based ordering after close().
SPECIFICATION Spec
CONSTANTS
    p1 = p1
    p2 = p2
    p3 = p3
    RateLimitCooldown = 1
    FailureCooldown = 1
    FailureThreshold = 1
    Calls = {c1, c2}
    Providers = {p1, p2}
    ProviderList <- TwoProviders
    Disabled = {}
    Keyless = {}
    Unmatched = {}
    Errors <- RuleErrors
    Policy = "score_based"
    MaxOrder = 2
    RetryCeiling = 1
    RetryScope = "none"
    RetrySelected = {}
    CustomFactory = FALSE
    OwnedStore = TRUE
    StoreFaults = FALSE
    Streams = FALSE
    MaxTime = 0
    MaxResets = 0
SYMMETRY CallSymmetry
INVARIANTS
    ClosedHoldsNoConnection
