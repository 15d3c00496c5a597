\* Two threads share an adapter while the key is corrected.
SPECIFICATION AdapterSpec
CONSTANTS
    Callers = {t1, t2}
    Protocol = "chat"
    RotateAnytime = TRUE
    MaxKey = 2
    MaxCalls = 3
    MaxStreamEvents = 1
SYMMETRY CallerSymmetry
INVARIANT NextCallUsesKey
