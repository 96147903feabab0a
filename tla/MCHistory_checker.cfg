CONSTANTS
    Ids = {a, b, c}
    Keys = {x}
    Values = {v}
    NotFound = NotFound
    MaxCalls = 3
SPECIFICATION Spec
SYMMETRY IdSymmetry
INVARIANTS
    CheckIsSound
    CheckIsExact
CHECK_DEADLOCK FALSE
