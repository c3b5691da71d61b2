SPECIFICATION Spec
CONSTANTS
    Contexts = {a, b}
    MaxValues = 2
    MaxTimers = 1
SYMMETRY ContextSymmetry
INVARIANTS
    AbortsOnlyOverLeftovers
CHECK_DEADLOCK FALSE
