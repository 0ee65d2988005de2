SPECIFICATION Spec
CONSTANTS
    t1 = t1
    t2 = t2
    t3 = t3
    Idle = Idle
    Task <- Two
    NPrio = 3
    ForeSlice = 1
    BackSlice = 1
    UMax = 25
    StageWidth = 1
    WideLiteral = FALSE
    Build = "rmlfq"
    Policies = {"WRR"}
    Resets = {FALSE}
    Donors = {}
    Boot <- EntryBoot
    Ops = {"setscheduler", "nice", "yield", "group"}
SYMMETRY Symmetry2
INVARIANTS
    QueueInv
    TimesBounded
PROPERTIES
    LevelOrderKept
    PickAgreesWithPreempt
CHECK_DEADLOCK FALSE
