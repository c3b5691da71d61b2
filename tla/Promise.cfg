SPECIFICATION Spec
CONSTANTS
    Initial = 2
    MaxOps = 3
    MaxDepth = 1
    Combinators = {"all", "allSettled", "any", "race"}
    MaxItems = 2
    AnyOrder = FALSE
INVARIANTS
    OneWayToSettle
    ReactionsInOrder
    CombinatorsRight
    OneContinuation
CHECK_DEADLOCK FALSE
