SPECIFICATION Spec
SYMMETRY Symmetry
CONSTANTS
    Caller = {c1, c2, c3}
    Bypassing = {c3}
    Processor = {p1, p2}
    Key = {k1}
    NoKey = NoKey
    Priority = {1}
    MaxRetries = 2
    BatchSize = 2
    MaxRecipients = 2
    MaxRows = 2
    MaxDeaths = 1
INVARIANTS
    TypeOK
    DedupBounded
    AttemptsBounded
    NothingStranded
CHECK_DEADLOCK FALSE
