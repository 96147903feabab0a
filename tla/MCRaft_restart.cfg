CONSTANTS
    Server = {s1,s2,s3}
    None = None
    Value = {v1}
    Peers <- PeersOf
    MaxBatch = 64
    SnapshotLogN = 100
    Changes = {}
    Campaigners = {s1,s2}
    Crashers = {s3}
    Resend = FALSE
    Capacity = 1
    MaxTerm = 2
    MaxIndex = 1
    MaxReads = 0
    MaxRestarts = 1
    Founders = {s1,s2,s3}
SYMMETRY Sym
SPECIFICATION Spec
INVARIANTS
    ElectionSafety
    ElectionInv
    Recoverable
PROPERTIES
    VoteKept
CHECK_DEADLOCK FALSE
