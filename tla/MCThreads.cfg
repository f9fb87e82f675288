SPECIFICATION FairSpec
CONSTANTS
    MaxThreads = 3
    MaxMap     = 2
    MaxSends   = 2
    Chan       = {c1}
INVARIANTS
    TypeOK
    JoinsWellFounded
    HandleTakenOnce
    FaultsSurface
    MapIsOrdered
    ChannelsAreFifo
PROPERTIES
    AlwaysEnds
    ValuesReachReceivers
CHECK_DEADLOCK FALSE
