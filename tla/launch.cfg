\* One host and up to three bridges, one after the other.
SPECIFICATION FairSpec
CONSTANTS
    NULL = NULL
    Host = {h1}
    MaxBridge = 3
    Backlog = 2
INVARIANTS
    TypeOK
    SameBridge
    TakesStalePathOnly
    HandshakesOwed
PROPERTIES
    ConnectEnds
\* The bridges are used up.
CHECK_DEADLOCK FALSE
