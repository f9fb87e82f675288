SPECIFICATION Spec
CONSTANTS
    Var = {"n", "buf"}
    Stride <- MCStride
    Cells  <- MCCells
    TombstoneCapacity = 1
    MaxFrames = 3
    MaxBirths = 2
    MaxBlocks = 2
INVARIANTS
    TypeOK
    ShelfIsPaired
    DerefIsHonest
    PointersFollowLifetimes
    HolesAreOwed
CHECK_DEADLOCK FALSE
