SPECIFICATION FairSpec
CONSTANTS
    o1 = o1
    o2 = o2
    Ops = {o1, o2}
    KindOf <- RebootAndRotate
    Budget = 1
    Faults = {"switch", "shutdown", "crash", "database"}
PROPERTIES
    EveryTaskEnds
    EveryRowCloses
\* Every call may be over.
CHECK_DEADLOCK FALSE
