CONSTANTS
    Server = {s1,s2,s3}
    None = None
    Value = {v1}
    Peers <- PeersOf
    MaxBatch = 1
    SnapshotLogN = 9
    Changes = {}
    Campaigners = {s1,s2}
    Crashers = {s1}
    Resend = FALSE
    Capacity = 1
    MaxTerm = 2
    MaxIndex = 2
    MaxReads = 0
    MaxRestarts = 1
    Founders = {s1,s2,s3}
SPECIFICATION Spec
INVARIANTS
    MatchIndexSound
CHECK_DEADLOCK FALSE
