CONSTANTS
    Procs <- MCProcs
    HostFaults = {"netlink", "device", "write", "database", "rule_added", "reboot", "restart"}
SPECIFICATION MCSpec
INVARIANTS
    RollbackRestoresTheTables
PROPERTIES
    ManagerKeepsOrder
    EnrolledIsWhole
CHECK_DEADLOCK FALSE
