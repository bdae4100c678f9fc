SPECIFICATION Spec
CONSTANTS
    NodeIds = {1, 2}
    JobClasses = {0, 2}
    maxNodes = 2
    maxJobClasses = 2
    bucketCount = 2
    bucketSize = 1
    nodePeriod = 2
    cellPeriod = 2
    bucketPeriod = 2
    nodeWarm = 1
    cellWarm = 1
    bucketWarm = 2
    minMultiplier = 2
    maxMultiplier = 24
    Unit = 8
    stealThreshold = 1
    j1 = j1
    j2 = j2
    Jobs = {j1, j2}
    bulkToLow = 1
    lowToNormal = 1
    normalToHigh = 2
    highToCritical = 1
    highToCriticalEnabled = FALSE
    MaxTime = 6
    Setups <- AllSetups
    Kinds <- ThreeKinds
    Observed <- FastAndSlow
    overloadThreshold = 2
    scanInterval = 1
    CursorRange = 4
    MaxObservations = 2
INVARIANTS
    TypeOK
    ObservationsAgree
    AgingOnTime
PROPERTIES
    RestoresOneModel
    NoDominatedChoice
CHECK_DEADLOCK FALSE
