CONSTANTS
    Writers = {w1,w2}
    SegmentLimit = 2
    TornHeaders = FALSE
    MaxRecords = 4
    MaxOpens = 3
SPECIFICATION Spec
INVARIANTS
    PromisedDurable
    GroupInv
PROPERTIES
    AppendReturns
    ImplementsDurableLog
CHECK_DEADLOCK FALSE
