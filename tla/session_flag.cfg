\* Two threads notice the same crash.
SPECIFICATION Spec
CONSTANTS
    NULL = NULL
    Thread = {t1, t2}
    Creator = {t1}
    Speaker = {t2}
    MAX_CB_HANDLES = 2
    MaxSess = 3
    MaxCrash = 1
    MaxCalls = 5
    MaxBuf = 1
    MaxReader = 1
INVARIANTS
    OneSession
\* The host stops calling, and without a bridge the shim has nothing to do.
CHECK_DEADLOCK FALSE
