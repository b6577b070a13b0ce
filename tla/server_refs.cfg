SPECIFICATION Spec
CONSTANTS
    Providers = {p1, p2}
    Frames = {}
    Clients = {c1}
    MaxConnects = 1
    MaxFrames = 1
    MaxQueue = 2
INVARIANTS
    ProviderRefsReturned
CHECK_DEADLOCK FALSE
