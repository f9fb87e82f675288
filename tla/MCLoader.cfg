SPECIFICATION FairSpec
CONSTANTS
    Dirs = {1, 2}
    Names = {1, 2, 3}
    Decls = {1}
    Projects <- AllProjects
INVARIANTS
    TypeOK
    ImportsLeftFirst
    AcceptedIsVisible
    VerdictIsExact
PROPERTIES
    Terminates
