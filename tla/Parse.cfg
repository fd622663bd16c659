SPECIFICATION ParseSpec
CONSTANTS
    Char = {"a", "b"}
    Names = {"S", "A", "B", "L"}
    NoName = ""
    NameOrder <- Alphabetical
    Sources <- ParseSources
    Programs <- CompiledSources
    Inputs <- AllInputs
    MaxMatches = 2
INVARIANTS
    ResultAgrees
    TreeAgrees
    FfpAgrees
    FrameKindExpected
    MatchLeavesNothing
    NoPanic
    LRFramesHaveMemo
PROPERTIES
    LRResultGrows
    Terminates
    NoRiskTerminates
CHECK_DEADLOCK FALSE
