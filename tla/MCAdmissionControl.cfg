SPECIFICATION Spec
CONSTANTS
    Threads = {t1, t2}
    Priorities = {"High", "Normal", "Bulk"}
    Rate <- RateBulk
    PartsPerToken = 2
    Capacity = 1
    MaxTime = 2
INVARIANTS
    TypeOK
    RateBound
    DepthExact
    ModesObeyed
PROPERTIES
    AtomicSlots
