CONSTANTS
    alice = alice
    bob = bob
    idA = idA
    noId = noId
    Clients = {alice, bob}
    Ids = {idA, noId}
    Anonymous = noId
    IdOf <- SharedIds
    OpsOf <- AllOps
    Replicas = {r1, r2}
    Keys = {k1}
    None = None
    LateSnapshots = FALSE
    MaxAttempts = 3
    MaxNumber = 3
    MaxRestarts = 0
SPECIFICATION OneClockSpec
INVARIANTS
    AnswerIsOwn
SYMMETRY ReplicaSymmetry
CHECK_DEADLOCK FALSE
