SPECIFICATION FairSpec
CONSTANTS
    Group = {1, 2, 3}
    Root = Root
    None = None
    Task = {p}
    Sysctls <- Limits
    Cases <- AllCases
    Inf <- MinusOne
    Unit = 2
INVARIANTS
    WalksAllocated
    RtSumsFit
    QuotasFit
PROPERTIES
    WalksEnd
