SPECIFICATION Spec
CONSTANTS
    a = a
    b = b
    p1 = p1
    p2 = p2
    Nodes = {a}
    Ports = {p1, p2}
    EndPointCount <- JustTwo
    Faults = {"lose", "duplicate"}
    MaxFound <- JustTwo
    MaxRestarts = 1
INVARIANTS
    TypeOK
    EndPointsComplete
    OneRecordProgresses
    ClaimAgreement
PROPERTIES
    ImplementsRegistry
SYMMETRY SomePort
CHECK_DEADLOCK FALSE
