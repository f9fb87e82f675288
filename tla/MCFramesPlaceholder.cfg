SPECIFICATION Spec
CONSTANTS
    Var = {"n", "buf"}
    Stride <- MCStride
    Cells  <- MCCells
    TombstoneCapacity = 1
    MaxFrames = 2
    MaxBirths = 1
    MaxBlocks = 2
INVARIANTS
    PlaceholderNeverObserved
CHECK_DEADLOCK FALSE
