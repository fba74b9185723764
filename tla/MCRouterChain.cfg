\* Three routers in a row; nothing happens once the bounded acts are over.
SPECIFICATION Spec
CONSTANTS
    r1 = r1
    r2 = r2
    r3 = r3
    l1 = l1
    l2 = l2
    l3 = l3
    Routers = {r1, r2, r3}
    Nets = {l1, l3}
    Home <- ChainHome
    Calls <- ChainCalls
    MaxActs = 3
    MaxCuts = 0
    Patient = TRUE
    Considerate = TRUE
INVARIANTS RoutesTrue RoutesComplete UsersAgree MovesAway
PROPERTIES Settles
CHECK_DEADLOCK FALSE
