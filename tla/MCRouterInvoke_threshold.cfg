\* Two fair calls, with retries, to one provider that benches at its second
\* counted failure, on a store whose writes may fail.
SPECIFICATION FairSpec
CONSTANTS
    p1 = p1
    p2 = p2
    p3 = p3
    RateLimitCooldown = 2
    FailureCooldown = 2
    FailureThreshold = 2
    Calls = {c1, c2}
    Providers = {p1}
    ProviderList <- OneProvider
    Disabled = {}
    Keyless = {}
    Unmatched = {}
    Errors <- ProviderErrors
    Policy = "round_robin"
    MaxOrder = 1
    RetryCeiling = 2
    RetryScope = "first"
    RetrySelected = {}
    CustomFactory = FALSE
    OwnedStore = TRUE
    StoreFaults = TRUE
    Streams = FALSE
    MaxTime = 3
    MaxResets = 1
INVARIANTS
    HealthConsistent
    StorageTroubleReported
PROPERTIES
    AuthBenchOnlyReset
    FailuresOnlyForgiven
    CooldownNeverShortened
    EveryInvokeReturns
