CONSTANTS
    Server = {s1,s2,s3}
    None = None
    Value = {v1}
    Peers <- PeersOf
    MaxBatch = 64
    SnapshotLogN = 100
    Changes <- JoinOrLeave
    Campaigners = {s1,s2}
    Crashers = {}
    Resend = FALSE
    Capacity = 1
    MaxTerm = 2
    MaxIndex = 3
    MaxReads = 0
    MaxRestarts = 0
    Founders = {s1,s2}
SYMMETRY Sym
SPECIFICATION Spec
INVARIANTS
    TypeOK
    ElectionSafety
    LeaderCompleteness
    MatchIndexSound
PROPERTIES
    LeaderAppendOnly
    CommitMonotone
    ImplementsReplicatedLog
CHECK_DEADLOCK FALSE
