SPECIFICATION Spec
CONSTANTS
    Objects = {o1, o2}
    Aux = {s, x}
    Contexts = {x}
    NoNode = NoNode
    MaxEdges = 4
SYMMETRY ObjectSymmetry
INVARIANTS
    CollectsExactly
    CountsRestored
    AssertionsHold
CHECK_DEADLOCK FALSE
