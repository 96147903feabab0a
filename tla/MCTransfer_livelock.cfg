CONSTANTS
    None = None
    MaxSnapshots = 1
    Chunks <- ChunksOf
    First = 3
    Size = 3
    Slots = {1, 2}
    MaxFaults = 2
SPECIFICATION Spec
PROPERTY EventuallyInstalled
