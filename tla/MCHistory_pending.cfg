CONSTANTS
    Ids = {a, b, c}
    Keys = {x}
    Values = {v}
    NotFound = NotFound
    MaxCalls = 3
SPECIFICATION Spec
SYMMETRY IdSymmetry
INVARIANTS
    CheckIsComplete
CHECK_DEADLOCK FALSE
