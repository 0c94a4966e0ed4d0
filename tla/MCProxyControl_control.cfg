SPECIFICATION FairSpec
CONSTANTS
    u1 = u1
    n1 = n1
    Users = {u1}
    OddUsers = {}
    Nets = {n1}
    SixNets = {}
    OwnNets = {}
    Modes <- WithLists
    Forever = 1
    SupFaults = {"systemctl", "probe", "install", "process", "crash", "database"}
INVARIANTS
    OkMeansApplied
    SessionsAreGranted
    InstallsVerified
PROPERTIES
    Converges
