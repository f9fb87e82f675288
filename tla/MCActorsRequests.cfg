SPECIFICATION Spec
CONSTANTS
    MaxActors   = 3
    MaxMessages = 3
    MaxAsks     = 2
    MaxWait     = 2
    MaxThrows   = 1
    Policies    = {"Stop"}
    Knows       <- Mutual
INVARIANTS
    TypeOK
    SerialTurns
    RequestsAccounted
PROPERTIES
    ActorModelSpec
