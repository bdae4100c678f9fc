SPECIFICATION FairSpec
CONSTANTS
    j1 = j1
    j2 = j2
    j3 = j3
    Jobs = {j1, j2, j3}
    Prio <- PrioMixed
    workerCount = 2
    overloadThreshold = 2
    recoverThreshold = 0
    MaxStarts = 2
INVARIANTS
    TypeOK
    DepthExact
    TablesFollowJobs
    StateTellsDepth
    StopLeavesNothing
PROPERTIES
    ImplementsContract
    TakenJobsEnd
    StopReturns
CHECK_DEADLOCK FALSE
