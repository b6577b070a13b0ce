CONSTANTS
    c1 = c1
    c2 = c2
    Conns <- ConnsDef
    Resources <- ResourcesDef
    Loaded <- LoadedDef
    Bodies <- BodiesDef
    FormBodies <- FormBodiesDef
    ParsedAs <- ParsedAsDef
    IDString <- IDStringDef
    Failures <- Fallible
    Asked <- AskedDef
    Growth = 2
    MaxID = 2
SYMMETRY ConnSymmetry
SPECIFICATION Spec
INVARIANTS
    IssuedOnce
    LocationLeads
    MostSpecificLinked
    RelationshipsJoinObjects
    BufferHoldsData
PROPERTIES
    RefusedChangesNothing
CHECK_DEADLOCK FALSE
