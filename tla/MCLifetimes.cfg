SPECIFICATION Spec
CONSTANTS
    p = p
    q = q
    r = r
    s = s
    Pointers <- Three
    Aggregates <- One
    Fresh = Fresh
    Live = Live
    Forms = {"conditional", "always", "binder",
             "self copy", "part store", "unseen copy", "unseen free"}
    MaxDepth = 2
    MaxStatements = 4
SYMMETRY Symmetry
INVARIANTS
    TypeOK
    GroupsAreBoxes
PROPERTIES
    ReportsAreTheFaults
CHECK_DEADLOCK FALSE
