CONSTANTS
    Server = {s1,s2,s3}
    None = None
    Value = {v1}
    Peers <- PeersOf
    MaxBatch = 64
    SnapshotLogN = 2
    Changes = {}
    Campaigners = {s1}
    Crashers = {}
    Resend = FALSE
    Capacity = 1
    MaxTerm = 1
    MaxIndex = 2
    MaxReads = 0
    MaxRestarts = 0
    Founders = {s1,s2,s3}
SPECIFICATION Spec
INVARIANTS
    AckedDurable
CHECK_DEADLOCK FALSE
