SPECIFICATION FairSpec
CONSTANTS
    Tests = 3
    SuiteSizes = {2, 3, 4}
INVARIANTS
    TypeOK
PROPERTIES
    SuiteSpec
    VerdictsAreTrue
    NeverRerun
    AlwaysEnds
