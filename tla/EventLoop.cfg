SPECIFICATION FairSpec
CONSTANTS
    Contexts = {a, b}
    MaxJobs = 3
    MaxTimers = 2
    MaxObservers = 2
    JobsMayThrow = TRUE
    EarlyRelease = FALSE
INVARIANTS
    JobsRunInOrder
    SleepsWithJobsOnlyAfterException
    CallReportsItsOwnException
    NoDanglingUse
PROPERTIES
    EveryJobRuns
    EveryTimerFires
