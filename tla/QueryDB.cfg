SPECIFICATION Spec
CONSTANTS
    A = A
    B = B
    Builtins = Builtins
    Missing = Missing
    File <- Files
    Text <- Texts
    ChoiceText = {"choice"}
    Contents <- MCContents
    HandleSpaces = TRUE
    Asked <- MCAsked
    MaxEdits = 2
INVARIANTS TypeOK FreshCache UserRulesCapturedOnce
PROPERTIES GetReturns
CHECK_DEADLOCK FALSE
