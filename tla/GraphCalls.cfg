SPECIFICATION CallsSpec
CONSTANTS
    Caller = {c1, c2, c3}
    MaxRetries = 1
    Threshold = 3
    Recovery = 1
    Budget = 2
    Window = 2
    MaxWait = 2
    MaxCalls = 1
INVARIANTS
    CallsTypeOK
    RateBounded
PROPERTIES
    CallsEnd
CHECK_DEADLOCK FALSE
