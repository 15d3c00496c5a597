\* The metrics file, the PostgreSQL store, the ranking and an adapter, one at a
\* time: two stores and a command on a file, two threads and a creator on a
\* server, three configured providers, and two callers of a Responses adapter.
SPECIFICATION ComponentsSpec
CONSTANTS
    Parts = {"local", "postgres", "ranking", "adapter"}
    Stores = {s1, s2}
    Admins = {a1}
    Rows = {r1, r2}
    Backends = {"sqlite", "duckdb"}
    InitialStates = {"absent", "current", "no_index", "implicit_v1", "newer"}
    MaxFiles = 2
    MaxFaults = 1
    Threads = {s1, s2}
    Batches = {batch1, batch2}
    Chunks <- ChunksValue
    Creators = {c1}
    MaxPools = 2
    MaxServerFaults = 1
    Configured <- ConfiguredValue
    Recorded = {p1, p2}
    RankingPolicies <- PoliciesValue
    Happenings <- HappeningsValue
    Reference = 2
    Pretend = 1
    MaxAge = 1
    MaxEvents = 2
    MaxSteps = 3
    Callers = {s1, s2}
    Protocol = "responses"
    RotateAnytime = FALSE
    MaxKey = 2
    MaxCalls = 2
    MaxStreamEvents = 1
    p1 = p1
    p2 = p2
    p3 = p3
    batch1 = batch1
    batch2 = batch2
SYMMETRY ComponentsSymmetry
INVARIANTS
    LocalTypeOK
    RowsSurvive
    RowsOnlyInCurrent
    TargetWhole
    PgTypeOK
    OnePoolAtATime
    RowsNeedCheckedSchema
    AggregatesAgree
    RotationFair
    AdapterTypeOK
    KeyTakesEffect
    ClientsReused
PROPERTIES
    BackupFaithful
    ImplementsMetricsLog
    OrderSound
    FailureNeverPays
    ImplementsNormalizedStream
