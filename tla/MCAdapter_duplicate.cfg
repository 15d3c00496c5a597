\* Two threads make their first calls to an adapter, under one key.
SPECIFICATION AdapterSpec
CONSTANTS
    Callers = {t1, t2}
    Protocol = "chat"
    RotateAnytime = FALSE
    MaxKey = 1
    MaxCalls = 2
    MaxStreamEvents = 1
SYMMETRY CallerSymmetry
INVARIANT OneClientPerKey
