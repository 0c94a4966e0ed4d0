SPECIFICATION MCAccessSpec
CONSTANTS
    Clients = {"ann", "bob"}
    Threshold = 2
    Window = 2
    Penalty = 2
    MaxPenalty = 4
    Ttl = 1
    Keys = {"key"}
    Links = {"link", "second"}
    Requests = {"one", "other"}
    Customers = {"carol"}
    Burst = 1
    LinkCooldown = 1
    Callers = {"poll", "task"}
    SimFaults = {"timeout", "lost"}
    MaxAttempts = 2
    BatchSize = 1
    Openers = {"serve"}
    Savers = {"timer", "admin"}
    BackupKeep = 2
    Seconds = 2
INVARIANTS
    TriesAreBounded
    RevokedStaysOut
    OncePerCall
    LastBackupIsThere
\* A client that is closed has no calls, and a clock that stands has no seconds.
CHECK_DEADLOCK FALSE
