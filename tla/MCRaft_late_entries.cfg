CONSTANTS
    Server = {s1,s2}
    None = None
    Value = {v1}
    Peers <- PeersOf
    MaxBatch = 64
    SnapshotLogN = 1
    Changes = {}
    Campaigners = {s1}
    Crashers = {}
    Resend = FALSE
    Capacity = 2
    MaxTerm = 1
    MaxIndex = 4
    MaxReads = 0
    MaxRestarts = 0
    Founders = {s1,s2}
SPECIFICATION Spec
INVARIANTS
    StateMachineSafety
CHECK_DEADLOCK FALSE
