SPECIFICATION Spec
CONSTANTS
    N = 4
    Graphs <- AllGraphs
INVARIANTS
    MarkedIsRecursive
    UnmarkedIsWellFounded
CHECK_DEADLOCK FALSE
