SPECIFICATION Spec
CONSTANTS
    Main = "Main"
    NoUser = NoUser
    Nicks = {a, b}
    Frail = {b}
    a = a
    b = b
    Blocks = {1, 2, 3}
    Chans = {"Main"}
    Persistent <- PersistentChannels
    Modes = {"normal"}
    Preferences <- TwoPreferences
    Patient = TRUE
INVARIANTS
    NamesUnique
    HilitesTrue
    
    ToldIsOpen
    VanishedForgotten
PROPERTIES
    HeardAreKept
CHECK_DEADLOCK FALSE
