SPECIFICATION Spec
CONSTANTS
    t1 = t1
    t2 = t2
    Idle = Idle
    Stop = Stop
    Nobody = Nobody
    CPU <- TwoCpu
    Task <- TwoTask
    Execs <- TwoTask
    Masks = {{0}}
    Wakers = {0}
    Hotplug = {1}
    Switches = {"irqs_off"}
SYMMETRY Symmetry
INVARIANTS
    WakingIsDelivered
    NoCircularWait
PROPERTIES
    MovesAreAllowed
