SPECIFICATION FairSpec
CONSTANTS
    Callers = {main}
    CompositeChain <- DefaultNames
    MaxInFlight = 1
    UnavailablePercent = 25
    OverloadPercent = 75
    LatencyThreshold = 2
    FractionUnit = 99
    NodeCount = 2
    Latencies = {2}
    States = {"Idle", "Failed", "Overloaded", "Recovering"}
    Calls = {"tick", "nn", "push", "feature", "warm", "switch"}
    Pushed = {"alert.latency", "alert.unknown"}
    Wanted = {"policy.composite"}
    MaxChanges = 2
    MaxUserCalls = 2
INVARIANTS
    TypeOK
    SupervisorAgrees
    SnapshotAgrees
PROPERTIES
    AlertSettles
    CallsReturn
