SPECIFICATION RSpec
CONSTANTS
    t1 = t1
    t2 = t2
    Idle = Idle
    Task <- Two
    NPrio = 2
    ForeSlice = 2
    BackSlice = 1
    UMax = 25
    StageWidth = 1
    WideLiteral = FALSE
    Build = "basic"
    Policies = {"NORMAL", "FIFO", "WRR"}
    Resets = {TRUE, FALSE}
    Donors = {0}
    Boot <- MixedBoot
    Ops = {"setscheduler", "fork", "pi"}
SYMMETRY Symmetry2
INVARIANTS
    NoPickBug
    OtherRequestsHonoured
    PolicyNamesClass
PROPERTIES
    ClassOrderKept
    ForkResets
CHECK_DEADLOCK FALSE
