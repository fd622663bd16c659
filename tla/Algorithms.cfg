SPECIFICATION Spec
CONSTANTS
    Stride = 3
    Base = 4
    Group = 4
    DepthHalf = 3
    Worker = {"w1", "w2", "w3"}
    Char <- Tokens
    Names <- RuleNames
    NoName = ""
INVARIANTS
    PositionsAreExact
    ProgramsAreRead
    GrammarsRoundTrip
    EditorFindsNames
    BracketsAreFound
    PoolKeepsOrder
CHECK_DEADLOCK FALSE
