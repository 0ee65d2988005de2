SPECIFICATION FairSpec
CONSTANTS
    p1 = p1
    p2 = p2
    p3 = p3
    fg = fg
    bg = bg
    Root = Root
    Idle = Idle
    Task <- Threads
    Group <- TwoGroups
    Parent <- Nested
    Background = {bg}
    NPrio = 3
    ForeSlice = 2
    BackSlice = 1
    UMax = 3
    Boots <- MixedBoots
    Changes = 2
INVARIANTS
    QueueExact
PROPERTIES
    TurnComes
CHECK_DEADLOCK FALSE
