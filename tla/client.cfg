SPECIFICATION FairSpec
CONSTANTS
    Providers = {p1, p2}
    Frames = {}
    Tags = {7}
    MaxNodes = 3
    MaxQueue = 3
    MaxDebug = 2
INVARIANTS
    TypeOK
    UpdateBookkeeping
    ReportsNeverStall
    AnnouncedInOrder
PROPERTIES
    ImplementsFeed
    EveryNodeAnnounced
CHECK_DEADLOCK FALSE
