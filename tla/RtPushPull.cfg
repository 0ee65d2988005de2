SPECIFICATION Spec
CONSTANTS
    CPU = {0, 1}
    Thread = {p1, p2, p3}
    Idle = idle
    MAX_RT_PRIO = 3
    Masks = {{0}, {1}, {0, 1}}
    Changes = 1
    Hotplug = {1}
SYMMETRY Alike
INVARIANTS
    NoPushBug
    RootDomainTrue
    Balanced
