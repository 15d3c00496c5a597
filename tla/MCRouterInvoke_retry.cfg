\* One call under a custom policy that may repeat providers and a custom
\* retry policy that may answer anything; the caller's contract.
SPECIFICATION Spec
CONSTANTS
    p1 = p1
    p2 = p2
    p3 = p3
    RateLimitCooldown = 1
    FailureCooldown = 1
    FailureThreshold = 6
    Calls = {c1}
    Providers = {p1, p2}
    ProviderList <- TwoProviders
    Disabled = {}
    Keyless = {}
    Unmatched = {}
    Errors <- RetryErrors
    Policy = "custom"
    MaxOrder = 3
    RetryCeiling = 3
    RetryScope = "custom"
    RetrySelected = {}
    CustomFactory = TRUE
    OwnedStore = TRUE
    StoreFaults = FALSE
    Streams = TRUE
    MaxTime = 0
    MaxResets = 0
INVARIANTS
    AttemptsBounded
PROPERTIES
    ImplementsContract
