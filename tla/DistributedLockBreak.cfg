SPECIFICATION Spec
CONSTANTS
    Instance = {i1, i2, i3}
    Nobody = Nobody
    Timeout = 3
    MaxTtl = 10
    MaxLate = 0
    BreakStale = TRUE
    RedisFails = FALSE
INVARIANTS
    MutualExclusion
CHECK_DEADLOCK FALSE
