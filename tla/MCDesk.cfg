SPECIFICATION Spec
CONSTANTS
    Null = Null
    Nicks = {1, 3}
    MyNicks = {2, 4}
    Blocks = {1, 2}
    Modes = {"normal", "offline"}
    Ignorable = {1}
    MaxWindows = 1
    MaxOwn = 2
INVARIANTS
    WindowsReach
    ListsAgree
    
CHECK_DEADLOCK FALSE
