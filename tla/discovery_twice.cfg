SPECIFICATION Spec
CONSTANTS
    a = a
    b = b
    p1 = p1
    p2 = p2
    Nodes = {a, b}
    Ports = {p1, p2}
    EndPointCount <- TwoAndOne
    Faults = {}
    MaxFound <- TwoAndOne
    MaxRestarts = 0
INVARIANTS
    ReadyMeansClaimed
CHECK_DEADLOCK FALSE
