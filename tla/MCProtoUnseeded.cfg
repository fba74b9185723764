SPECIFICATION ProtoSpec
CONSTANTS
    Hosts = {"ann", "bob"}
    Lib <- TwoClients
    Protos = {"vypress"}
    Nets = {1}
    Window = 2
    Usual <- Texts
    MaxSent = 2
    Copies <- Each
    MaxStarts = 1
PROPERTIES
    OnlyDuplicatesIgnored
