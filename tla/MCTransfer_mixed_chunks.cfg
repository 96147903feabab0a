CONSTANTS
    None = None
    MaxSnapshots = 2
    Chunks <- ChunksOf
    First = 2
    Size = 2
    Slots = {1, 2}
    MaxFaults = 2
SPECIFICATION Spec
INVARIANT InstalledWhole
