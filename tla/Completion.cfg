SPECIFICATION Spec
CONSTANTS
    Thread = {t1, t2, t3}
    Sleepers = {t1}
    Calls <- TwoCalls
    UMax = 7
    Ones = 2
    Alls = 1
INVARIANTS
    EntriesLive
    WokenForDone
PROPERTIES
    CountsEvents
CHECK_DEADLOCK FALSE
