SPECIFICATION MCNodeSpec
CONSTANTS
    Procs = {"daemon"}
    HostFaults = {"netlink", "observe", "rule_lost", "rule_added", "table_lost", "unplug", "reboot"}
    After = 2
    Grace = 1
    Cooldown = 1
    PerDay = 1
    MinInterval = 1
    MaxDelay = 1
    SlowEvery = 1
PROPERTIES
    NodeHeals
    RebootsTheSilent
    DeadIsRebooted
