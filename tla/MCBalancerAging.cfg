SPECIFICATION Spec
CONSTANTS
    j1 = j1
    j2 = j2
    NoJob = NoJob
    Jobs = {j1, j2}
    Prio <- PrioTwoBands
    HasDeadline = {j1}
    MaxRetries = 1
    Capacity = 1
    Calls = {"cancel", "setAgingEnabled", "destroy"}
INVARIANTS
    TypeOK
    CountExact
    SlotsExact
    OneHolder
    FinalizedOnce
    NoResidue
    SafeDestruction
PROPERTIES
    UsesNodesByContract
    ImplementsLifecycle
