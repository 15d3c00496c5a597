\* Two calls share two providers under round robin and a retry policy that may
\* answer anything; every failure rule and close interleave.
SPECIFICATION Spec
CONSTANTS
    p1 = p1
    p2 = p2
    p3 = p3
    RateLimitCooldown = 1
    FailureCooldown = 1
    FailureThreshold = 2
    Calls = {c1, c2}
    Providers = {p1, p2}
    ProviderList <- TwoProviders
    Disabled = {}
    Keyless = {}
    Unmatched = {}
    Errors <- RuleErrors
    Policy = "round_robin"
    MaxOrder = 2
    RetryCeiling = 2
    RetryScope = "custom"
    RetrySelected = {}
    CustomFactory = FALSE
    OwnedStore = TRUE
    StoreFaults = FALSE
    Streams = FALSE
    MaxTime = 0
    MaxResets = 0
SYMMETRY CallSymmetry
INVARIANTS
    TypeOK
    BlameNeedsEvidence
    ExhaustedMeansTriedAll
    ClosedHoldsNoConnection
    RefusalRespected
