CONSTANTS
    Invocations = {1, 2, 3}
    CellSize = 256
    Addresses <- AddressesDef
    Lengths = {256, 512, 1024}
    Values = {1}
    MaxChanges = 2
SPECIFICATION Spec
INVARIANTS
    OnlyCopy
    ParentTells
    RegionsKeepTheirData
PROPERTIES
    StopTakesEffect
CHECK_DEADLOCK FALSE
