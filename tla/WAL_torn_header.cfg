CONSTANTS
    Writers = {w1}
    SegmentLimit = 2
    TornHeaders = TRUE
    MaxRecords = 4
    MaxOpens = 3
SPECIFICATION Spec
INVARIANTS
    Openable
CHECK_DEADLOCK FALSE
