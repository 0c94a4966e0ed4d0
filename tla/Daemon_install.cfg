SPECIFICATION InstallSpec
CONSTANTS
    PublicHosts = {"203.0.113.7"}
    ShutdownGrace = 1
    TimeoutStop = 2
    StartLimit = 2
    MaxReboots = 0
PROPERTY ComesUp
\* A unit that has failed too often stays down.
CHECK_DEADLOCK FALSE
