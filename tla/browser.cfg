CONSTANTS
    v1 = v1
    v2 = v2
    s1 = s1
    s2 = s2
    Services = {v1, v2}
    Servers = {s1, s2}
    HostOf <- HostOfDef
    NodeData <- NodeDataDef
    NodeAddr <- NodeAddrDef
    BlockSize = 16
    UIDLength = 2
    MimeMax = 3
    MaxKnown = 1
    MaxFrames = 1
    MaxBreaks = 1
SYMMETRY ServerSymmetry
SPECIFICATION Spec
INVARIANTS
    RecordsAgree
    DebugFromItsNode
    EnumerationCovers
    PacketsFit
CHECK_DEADLOCK FALSE
