CONSTANTS
    Server = {s1,s2}
    None = None
    Value = {v1}
    Peers <- PeersOf
    MaxBatch = 1
    SnapshotLogN = 100
    Changes = {}
    Campaigners = {s1,s2}
    Crashers = {s1}
    Resend = FALSE
    Capacity = 2
    MaxTerm = 3
    MaxIndex = 3
    MaxReads = 2
    MaxRestarts = 1
    Founders = {s1,s2}
SYMMETRY Sym
SPECIFICATION Spec
INVARIANTS
    ReadsCurrent
    ReadInv
PROPERTIES
    ImplementsThroughCrashes
CHECK_DEADLOCK FALSE
