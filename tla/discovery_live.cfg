SPECIFICATION FairSpec
CONSTANTS
    a = a
    b = b
    p1 = p1
    p2 = p2
    Nodes = {a, b}
    Ports = {p1, p2}
    EndPointCount <- TwoAndOne
    Faults = {}
    MaxFound <- TwoAndOne
    MaxRestarts = 1
INVARIANTS
    ClaimAgreement
PROPERTIES
    FoundBecomesReady
CHECK_DEADLOCK FALSE
