SPECIFICATION SourceFairSpec
CONSTANTS
    p1 = p1
    p2 = p2
    p3 = p3
    Packets = {p1, p2, p3}
    NoPacket = NoPacket
    Length <- Lengths
INVARIANTS
    OutWhileQueued
    CurTxIsHead
    WireIsPackets
PROPERTIES
    ImplementsChannel
    EveryPacketSent
CHECK_DEADLOCK FALSE
