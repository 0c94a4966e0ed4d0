SPECIFICATION FairSpec
CONSTANTS
    p1 = p1
    p2 = p2
    o1 = o1
    o2 = o2
    o3 = o3
    Ops = {o1}
    Proxies = {p1}
    ProxyOf <- OneProxy
    MaxConcurrent = 1
    MaxAttempts = 2
    Faults = {"nft", "switch", "database", "shutdown", "crash"}
INVARIANTS
    NothingAfterDrain
PROPERTIES
    ClosedRowsAreFrozen
    EveryRowCloses
\* Every call of Rotate may be over.
CHECK_DEADLOCK FALSE
