SPECIFICATION FairSpec
CONSTANTS
    Threads = {m, a, b}
    CanBlock = {a, b}
    Cells = {x, y}
    Values = {0, 1}
    InitialValue = 0
    MaxCalls = 4
    NoThread = NoThread
INVARIANTS
    ListHoldsWaiters
    NoLostWakeup
    OkMeansNotified
PROPERTIES
    WaitsEnd
CHECK_DEADLOCK FALSE
