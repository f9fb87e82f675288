SPECIFICATION Spec
CONSTANTS
    MaxActors   = 3
    MaxMessages = 4
    MaxAsks     = 3
    MaxWait     = 1
    MaxThrows   = 0
    Policies    = {"none"}
    Knows       <- Crossing
INVARIANTS
    DeadlockIsRequestCycle
