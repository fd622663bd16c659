SPECIFICATION ParseSpec
CONSTANTS
    Char = {"a", "b"}
    Names = {"S", "A", "B", "L"}
    NoName = ""
    NameOrder <- Alphabetical
    Sources <- LRStart
    Programs <- CompiledSources
    Inputs <- AllInputs
    MaxMatches = 1
INVARIANT
    LRDataOfLRFrames
CHECK_DEADLOCK FALSE
