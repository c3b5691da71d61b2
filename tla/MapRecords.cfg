SPECIFICATION Spec
CONSTANTS
    Keys <- MCKeys
    Hash <- MCHash
    Iterators = {i, j}
    Calls = {f}
    MaxRecords = 3
    FirstThreshold = 2
    Slacks = {0, 1}
SYMMETRY Symmetry
INVARIANTS
    
    HashFinds

    
CHECK_DEADLOCK FALSE
