SPECIFICATION Spec
CONSTANTS
    MaxActors   = 2
    MaxMessages = 3
    MaxAsks     = 3
    MaxWait     = 1
    MaxThrows   = 1
    Policies    = {"none"}
    Knows       <- Hierarchy
INVARIANTS
    FieldsResolve
