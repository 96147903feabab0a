CONSTANTS
    None = None
    MaxSnapshots = 2
    Chunks <- ChunksOf
    First = 1
    Size = 3
    Slots = {1, 2}
    MaxFaults = 4
SPECIFICATION Spec
INVARIANTS
    InstalledWhole
PROPERTIES
    InstalledWhenAlone
