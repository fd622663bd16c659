SPECIFICATION AppSpec
CONSTANTS
    Grammar = {1, 2, 3}
    Valid = {1, 3}
    Input = {1, 2, 3}
    Loops <- MCLoops
    Handles = {}
    MaxCalls = 9
    MaxWorkers = 1
    LastProject = 3
    LastInput = 3
INVARIANTS MatchersHeld NoUseAfterFree ShowsCurrent
PROPERTIES NeverGoesBack BecomesQuiet
CHECK_DEADLOCK FALSE
