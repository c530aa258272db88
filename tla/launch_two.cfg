\* Two hosts that need a bridge at the same time.
SPECIFICATION Spec
CONSTANTS
    NULL = NULL
    Host = {h1, h2}
    MaxBridge = 2
    Backlog = 2
INVARIANT SameBridge
\* The bridges are used up.
CHECK_DEADLOCK FALSE
