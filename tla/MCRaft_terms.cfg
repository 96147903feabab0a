CONSTANTS
    Server = {s1,s2,s3}
    None = None
    Value = {v1}
    Peers <- PeersOf
    MaxBatch = 1
    SnapshotLogN = 100
    Changes = {}
    Campaigners = {s1,s2}
    Crashers = {}
    Resend = FALSE
    Capacity = 1
    MaxTerm = 3
    MaxIndex = 1
    MaxReads = 0
    MaxRestarts = 0
    Founders = {s1,s2,s3}
CONSTRAINT FewMessages
SYMMETRY Sym
SPECIFICATION Spec
INVARIANTS
    LogMatching
    LeaderCompleteness
    StateMachineSafety
    LogInv
    MatchInv
CHECK_DEADLOCK FALSE
