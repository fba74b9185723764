SPECIFICATION ProtoSpec
CONSTANTS
    Hosts = {"router", "client"}
    Lib <- ARouterAndAClient
    Protos = {"vypress", "qchat"}
    Nets = {1}
    Window = 2
    Usual <- TextsAndLeaves
    MaxSent = 3
    Copies <- ClientHears
    MaxStarts = 2
INVARIANTS
    PassedOnOnce
    ArrivesAsSent
