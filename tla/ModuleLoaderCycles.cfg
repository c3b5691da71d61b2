SPECIFICATION FairSpec
CONSTANTS
    Natives <- MCNatives
    Files <- MCFiles
    OtherNames <- MCOtherNames
    Texts <- CyclicTexts
    RootTexts <- CyclicRootTexts
    MaxDefs = 5
    MaxDepth = 2
    Reentrant = TRUE
INVARIANTS
    OneDefinitionPerFile
PROPERTIES
    FramesKeepModules
    EvaluationEnds
CHECK_DEADLOCK FALSE
