SPECIFICATION Spec
CONSTANTS
    o1 = o1
    o2 = o2
    Ops = {o1, o2}
    KindOf <- MixedTasks
    Budget = 1
    Faults = {"switch", "shutdown", "crash", "database"}
INVARIANTS
    NothingAfterDrain
    DataIsOwed
    TwoTasksMeanALostRow
    DoneTellsTheRow
PROPERTIES
    ImplementsLedger
\* Every call may be over.
CHECK_DEADLOCK FALSE
