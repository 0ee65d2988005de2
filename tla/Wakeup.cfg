SPECIFICATION FairSpec
CONSTANTS
    t1 = t1
    t2 = t2
    Idle = Idle
    Stop = Stop
    Nobody = Nobody
    CPU <- TwoCpu
    Task <- TwoTask
    Execs = {}
    Masks = {}
    Wakers = {0, 1}
    Hotplug = {}
    Switches = {"irqs_off", "irqs_on"}
PROPERTIES
    SleepsAndWakes
    BusyEnds
