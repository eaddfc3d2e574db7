SPECIFICATION FairSpec
CONSTANTS
    Instance = {i1, i2, i3}
    Nobody = Nobody
    Timeout = 3
    MaxTtl = 10
    MaxLate = 1
    BreakStale = TRUE
    RedisFails = TRUE
INVARIANTS
    TypeOK
PROPERTIES
    LeaseEndsByOwner
    LeaseEnds
CHECK_DEADLOCK FALSE
