SPECIFICATION Spec
CONSTANTS
    Caller = {c1}
    Bypassing = {}
    Processor = {p1}
    Key = {k1}
    NoKey = NoKey
    Priority = {1}
    MaxRetries = 2
    BatchSize = 2
    MaxRecipients = 1
    MaxRows = 1
    MaxDeaths = 0
INVARIANTS
    ImmediateIsSelected
CHECK_DEADLOCK FALSE
