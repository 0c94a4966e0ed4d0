SPECIFICATION Spec
CONSTANTS
    p1 = p1
    p2 = p2
    o1 = o1
    o2 = o2
    o3 = o3
    Ops = {o1, o2}
    Proxies = {p1}
    ProxyOf <- OneProxy
    MaxConcurrent = 2
    MaxAttempts = 2
    Faults = {"nft", "switch", "database"}
SYMMETRY Symmetric
INVARIANTS
    OneLivePerProxy
    FenceIsOwed
    DataIsOwed
PROPERTIES
    ImplementsLedger
\* Every call of Rotate may be over.
CHECK_DEADLOCK FALSE
