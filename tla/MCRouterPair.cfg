\* Two routers that may lose the link between them.
SPECIFICATION Spec
CONSTANTS
    r1 = r1
    r2 = r2
    r3 = r3
    l1 = l1
    l2 = l2
    l3 = l3
    Routers = {r1, r2}
    Nets = {l1, l2}
    Home <- PairHome
    Calls <- PairCalls
    MaxActs = 4
    MaxCuts = 2
    Patient = TRUE
    Considerate = TRUE
INVARIANTS UsersAgree UsersRoutable 
CHECK_DEADLOCK FALSE
