SPECIFICATION FairSpec
CONSTANTS
    t1 = t1
    t2 = t2
    t3 = t3
    Idle = Idle
    Task <- Three
    NPrio = 2
    ForeSlice = 2
    BackSlice = 1
    UMax = 25
    StageWidth = 1
    WideLiteral = FALSE
    Build = "basic"
    Policies = {}
    Resets = {FALSE}
    Donors = {0}
    Boot <- WrrBoot
    Ops = {"fork", "yield", "pi"}
INVARIANTS
    TypeOK
    RunnableIsQueued
    SliceLeft
    HigherClassGoesFirst
PROPERTIES
    YieldGivesWay
    EveryoneGetsATurn
CHECK_DEADLOCK FALSE
