SPECIFICATION MCVerdictSpec
CONSTANTS
    HoldEscalate <- Production
    MaxAttempts = 3
    WaitConnect = 9
    DisconnectCap = 3
    VerifyTimeout = 2
    HardDeadline = 18
    PollInterval = 1
    CallMax = 4
    ReleaseTimeout = 1
    FinishDeadline = 2
    Addresses = {"a", "b"}
    Nated = TRUE
    Echoes <- DefaultEchoEndpoints
    EchoTimeout = 10
    DialTimeout = 5
    ProbeBudget = 10
    Ifaces = {"lo", "eth0", "dg01", "dg02"}
    Dongles = {"dg01", "dg02"}
    Publics = {"eth0"}
    Slot = "dg01"
    Conns = {"c1", "c2"}
INVARIANTS
    EgressIsContained
    ReportsAreTrue
    OutlivesItsRowBriefly
    MeasuredVerdictsAreTrue
\* A rotation and a probe end.
CHECK_DEADLOCK FALSE
