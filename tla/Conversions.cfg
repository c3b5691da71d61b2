SPECIFICATION Spec
CONSTANTS
    W = 4
    P = 6
    D = 9
    F = 1
INVARIANTS
    EngineConversionsRight
    ValuesSurvive
CHECK_DEADLOCK FALSE
