SPECIFICATION FairSpec
CONSTANTS
    CPU = {0, 1}
    Period = 4
    Runtime = 2
    Deltas = {2}
    TimeMax = 4
    Overruns = {1}
    Partitions <- Partitions2
    Sysctls = {1}
    Hotplug = {1}
    Admins = {"partition", "hotplug", "sysctl"}
INVARIANTS
    Conserved
PROPERTIES
    ThrottleEnds
CHECK_DEADLOCK FALSE
