SPECIFICATION Spec
CONSTANTS
    Grammar = {"good", "bad"}
    Valid = {"good"}
    Input = {"i", "j"}
    Loops <- MCLoops
    Handles = {1}
    MaxCalls = 3
    MaxWorkers = 2
INVARIANTS AnswersInOrder
PROPERTIES Serves Settles
CHECK_DEADLOCK FALSE
