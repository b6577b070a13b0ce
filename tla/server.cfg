SPECIFICATION FairSpec
CONSTANTS
    Providers = {p1, p2}
    Frames = {}
    Clients = {c1, c2}
    MaxConnects = 2
    MaxFrames = 1
    MaxQueue = 2
INVARIANTS
    SessionsComplete
    ToldEachOnce
    NoProviderFreedEarly
    NoFrameFreedEarly
PROPERTIES
    EveryReadyTold
CHECK_DEADLOCK FALSE
