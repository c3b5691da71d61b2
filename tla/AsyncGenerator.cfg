SPECIFICATION Spec
CONSTANTS
    MaxRequests = 5
    MaxAwaits = 2
    AwaitMayFail = TRUE
INVARIANTS
    AssertionsHold
    OneThreadOfControl
    NobodyForgotten
    AnsweredInOrder
    DoneIsFinal
CHECK_DEADLOCK FALSE
