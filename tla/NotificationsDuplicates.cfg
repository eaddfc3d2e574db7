SPECIFICATION Spec
CONSTANTS
    Caller = {c1, c2}
    Bypassing = {}
    Processor = {p1}
    Key = {k1}
    NoKey = NoKey
    Priority = {1}
    MaxRetries = 2
    BatchSize = 2
    MaxRecipients = 1
    MaxRows = 2
    MaxDeaths = 0
INVARIANTS
    NoDuplicates
CHECK_DEADLOCK FALSE
