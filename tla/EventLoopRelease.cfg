SPECIFICATION Spec
CONSTANTS
    Contexts = {a, b}
    MaxJobs = 0
    MaxTimers = 2
    MaxObservers = 2
    JobsMayThrow = FALSE
    EarlyRelease = TRUE
SYMMETRY ContextSymmetry
INVARIANTS
    NoDanglingUse
