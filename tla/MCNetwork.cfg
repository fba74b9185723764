SPECIFICATION Spec
CONSTANTS
    Ports <- ThreePorts
    Step = 2
    Begin = 1
    End = 3
    Ranges <- OneRange
    Usual = {1, 2}
    MaxEdits = 2
    Masks = {m}
    m = m
    Groups = {g, h}
    g = g
    h = h
    Bad = Bad
    Rivals = {2}
    Servers <- OneServer
    None = None
    Patient = TRUE
INVARIANTS
    LinkFollowsSettings
    DialogShowsSettings
    DetectionComplete
    
PROPERTIES
    StoredAsEntered
CHECK_DEADLOCK FALSE
