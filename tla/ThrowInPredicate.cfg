SPECIFICATION ParseSpec
CONSTANTS
    Char = {"a", "b"}
    Names = {"S", "A", "B", "L"}
    NoName = ""
    NameOrder <- Alphabetical
    Sources <- ThrowingPredicates
    Programs <- CompiledSources
    Inputs <- AllInputs
    MaxMatches = 1
INVARIANT
    ThrowsStayInPredicates
CHECK_DEADLOCK FALSE
