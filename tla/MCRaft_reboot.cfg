CONSTANTS
    Server = {s1,s2}
    None = None
    Value = {v1}
    Peers <- PeersOf
    MaxBatch = 64
    SnapshotLogN = 1
    Changes <- Join
    Campaigners = {s1}
    Crashers = {s2}
    Resend = FALSE
    Capacity = 1
    MaxTerm = 1
    MaxIndex = 3
    MaxReads = 0
    MaxRestarts = 1
    Founders = {s1}
SPECIFICATION Spec
INVARIANTS
    StateMachineSafety
CHECK_DEADLOCK FALSE
