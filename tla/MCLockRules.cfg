SPECIFICATION Spec
CONSTANTS
    r1 = r1  r2 = r2
    i1 = i1  i2 = i2
    Request <- MCRequest
    Rule <- MCRule
    None = None
    Offset = {0, 1}
    TValue = {0, 1}
    MaxUpdates = 1
    Standard <- MCStandard
SYMMETRY Symmetry
INVARIANTS
    TypeOK
    OneRuleInForce
CHECK_DEADLOCK FALSE
