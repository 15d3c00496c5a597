\* A call in flight when another one benches the provider for auth.
SPECIFICATION Spec
CONSTANTS
    p1 = p1
    p2 = p2
    p3 = p3
    RateLimitCooldown = 1
    FailureCooldown = 1
    FailureThreshold = 1
    Calls = {c1, c2}
    Providers = {p1, p2}
    ProviderList <- OneProvider
    Disabled = {}
    Keyless = {}
    Unmatched = {}
    Errors <- RuleErrors
    Policy = "round_robin"
    MaxOrder = 1
    RetryCeiling = 1
    RetryScope = "none"
    RetrySelected = {}
    CustomFactory = FALSE
    OwnedStore = TRUE
    StoreFaults = FALSE
    Streams = FALSE
    MaxTime = 0
    MaxResets = 0
SYMMETRY CallSymmetry
INVARIANTS
    AuthBenchVisible
