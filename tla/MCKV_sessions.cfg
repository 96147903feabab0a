CONSTANTS
    alice = alice
    bob = bob
    idA = idA
    noId = noId
    Clients = {alice, bob}
    Ids = {idA, noId}
    Anonymous = noId
    IdOf <- OwnIds
    OpsOf <- SomeOps
    Replicas = {r1, r2}
    Keys = {k1}
    None = None
    LateSnapshots = FALSE
    MaxAttempts = 3
    MaxNumber = 2
    MaxRestarts = 1
SPECIFICATION Spec
INVARIANTS
    TypeOK
    EffectsOnce
    SessionsOfLog
    UnrivalledIsOwn
PROPERTIES
    ImplementsAtomicStore
SYMMETRY ReplicaSymmetry
CHECK_DEADLOCK FALSE
