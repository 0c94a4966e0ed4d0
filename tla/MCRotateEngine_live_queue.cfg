SPECIFICATION FairSpec
CONSTANTS
    p1 = p1
    p2 = p2
    o1 = o1
    o2 = o2
    o3 = o3
    Ops = {o1, o2}
    Proxies = {p1, p2}
    ProxyOf <- TwoProxies
    MaxConcurrent = 1
    MaxAttempts = 1
    Faults = {"database"}
INVARIANTS
    FarmCap
PROPERTIES
    EveryRotationEnds
\* Every call of Rotate may be over.
CHECK_DEADLOCK FALSE
