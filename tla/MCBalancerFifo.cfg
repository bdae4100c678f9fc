SPECIFICATION Spec
CONSTANTS
    j1 = j1
    j2 = j2
    NoJob = NoJob
    Jobs = {j1, j2}
    Prio <- PrioOneBand
    HasDeadline = {}
    MaxRetries = 0
    Capacity = 2
    Calls = {}
PROPERTIES
    FifoWithinBand
CHECK_DEADLOCK FALSE
