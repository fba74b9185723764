\* Three routers linked in a cycle.
SPECIFICATION Spec
CONSTANTS
    r1 = r1
    r2 = r2
    r3 = r3
    l1 = l1
    l2 = l2
    l3 = l3
    Routers = {r1, r2, r3}
    Nets = {l1}
    Home <- TriangleHome
    Calls <- TriangleCalls
    MaxActs = 2
    MaxCuts = 0
    Patient = FALSE
    Considerate = FALSE
PROPERTIES OwnMessagesIgnored
CHECK_DEADLOCK FALSE
