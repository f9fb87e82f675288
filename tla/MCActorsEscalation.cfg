SPECIFICATION FairSpec
CONSTANTS
    MaxActors   = 3
    MaxMessages = 3
    MaxAsks     = 2
    MaxWait     = 1
    MaxThrows   = 0
    Policies    = {"none", "Restart", "Escalate"}
    Knows       <- Hierarchy
INVARIANTS
    StoppedIsSilent
    DeferredActionsAgree
    NoStaleState
    EscalationStopsChain
    QuiescentEnd
    DiagnosesAreTrue
PROPERTIES
    AlwaysEnds
