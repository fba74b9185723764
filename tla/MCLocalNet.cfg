\* Two clients and a remote user.
SPECIFICATION Spec
CONSTANTS
    c1 = c1
    c2 = c2
    Clients = {c1, c2}
    Nicks <- MCNicks
    Remotes = {"rem"}
    None = None
    UidModulus = 65536
    MaxSocket = 3
    MaxLost = 1
    MaxStays = 2
    MaxRenames = 1
    MaxVisits = 1
    MaxTexts = 1
    Unhurried = TRUE
INVARIANTS NothingLeftBehind  
  
