SPECIFICATION TraySpec
INVARIANTS
    Reachable
    BlinksForUnseen
CHECK_DEADLOCK FALSE
