CONSTANTS
    Server = {s1,s2}
    None = None
    Value = {v1}
    Peers <- PeersOf
    MaxBatch = 64
    SnapshotLogN = 2
    Changes <- Join
    Campaigners = {s1,s2}
    Crashers = {}
    Resend = FALSE
    Capacity = 1
    MaxTerm = 2
    MaxIndex = 2
    MaxReads = 0
    MaxRestarts = 0
    Founders = {s1}
SPECIFICATION Spec
INVARIANTS
    LeaderCompleteness
CHECK_DEADLOCK FALSE
