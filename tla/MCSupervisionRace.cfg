SPECIFICATION Spec
CONSTANTS
    Callers = {a, b}
    CompositeChain <- DefaultNames
    MaxInFlight = 1
    UnavailablePercent = 25
    OverloadPercent = 75
    LatencyThreshold = 2
    FractionUnit = 99
    NodeCount = 2
    Latencies = {}
    States = {}
    Calls = {"push"}
    Pushed = {"", "alert.overload", "alert.latency"}
    Wanted = {}
    MaxChanges = 0
    MaxUserCalls = 5
INVARIANT SupervisorAgrees
CHECK_DEADLOCK FALSE
