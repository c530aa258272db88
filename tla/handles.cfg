\* One more engine pointer than slots, for instances and for dictionaries.
SPECIFICATION Spec
CONSTANTS
    NULL = NULL
    Eci = {e1, e2, e3}
    Dict = {d1, d2, d3}
    Filter = {}
    Buf = {b1, b2}
    MaxHandles = 2
    MaxId <- Ids
    MaxIds = 4
SYMMETRY Symmetry
INVARIANTS
    TypeOK
    HandlesConsistent
    EventRouting
    BuffersOwned
    ObjectsLive
PROPERTIES
    ImplementsHandleTable
\* The client thread ends at Disconnect.
CHECK_DEADLOCK FALSE
