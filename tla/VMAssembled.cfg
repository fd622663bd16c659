SPECIFICATION Spec
CONSTANTS
    Char = {"a", "b"}
    Names = {"L"}
    NoName = ""
    Programs <- TriedPrograms
    Inputs <- Texts
    MaxMatches = 1
    MaxHeight = 4
    MaxTree = 6
CONSTRAINT Bounded
INVARIANTS
    TypeOK
    SlicesNested
    NoDangling
    CursorInInput
PROPERTIES
    FfpNeverMovesBack
CHECK_DEADLOCK FALSE
