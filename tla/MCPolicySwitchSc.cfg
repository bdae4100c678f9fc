SPECIFICATION FairSpec
CONSTANTS
    Submitters = {s1, s2}
    Switchers = {w1, w2}
    Rounds = 2
    SeqCst = TRUE
INVARIANTS
    TypeOK
    OnePolicyPerJob
PROPERTIES
    SwitchesComplete
    ImplementsGate
