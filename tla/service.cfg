SPECIFICATION FairSpec
CONSTANTS
    Nodes = {"n1", "n2", "n3"}
    Servers = {"s1", "s2"}
    Hosts = {"h1", "h2"}
    HostOf <- HostOfDef
    MaxHostChanges = 1
INVARIANTS
    DroppedStaysDropped
    OnlyNeighboursAbort
PROPERTIES
    EveryNodePublished
CHECK_DEADLOCK FALSE
