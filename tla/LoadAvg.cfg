SPECIFICATION FairSpec
CONSTANTS
    CPU = {0, 1}
    Threads = 1
    Drift = 1
    Events = 2
    Freq = 2
    Window = 1
    Jumps = {3}
    Hotplug = {1}
INVARIANTS
    NothingLost
    SkipsAtMostOne
    IdleLeavesNoMark
PROPERTIES
    AllArrives
