SPECIFICATION FairSpec
CONSTANTS
    j1 = j1
    j2 = j2
    NoJob = NoJob
    Jobs = {j1, j2}
    Prio <- PrioTwoBands
    HasDeadline = {}
    MaxRetries = 0
    Capacity = 2
    Calls = {"switchPolicy", "destroy"}
INVARIANTS
    QuiescentSwap
PROPERTIES
    EveryJobEnds
    SwitchCompletes
    DestructionCompletes
