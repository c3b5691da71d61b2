SPECIFICATION Spec
CONSTANTS
    Natives <- MCNatives
    Files <- ThreeFiles
    OtherNames <- MCOtherNames
    Texts <- ThreeTexts
    RootTexts <- ThreeRootTexts
    MaxDefs = 7
    MaxDepth = 1
    Reentrant = FALSE
INVARIANTS
    RequestsLoaded
    EvaluatedAfterImports
    NothingHalfDone
CHECK_DEADLOCK FALSE
