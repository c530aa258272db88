\* Two threads, one of which makes instances; the bridge does not crash.
SPECIFICATION FairSpec
CONSTANTS
    NULL = NULL
    Thread = {t1, t2}
    Creator = {t1}
    Speaker = {t2}
    MAX_CB_HANDLES = 1
    MaxSess = 1
    MaxCrash = 0
    MaxCalls = 5
    MaxBuf = 2
    MaxReader = 1
INVARIANT EngineInStep
PROPERTIES
    CallsReturn
\* The host stops calling, and without a bridge the shim has nothing to do.
CHECK_DEADLOCK FALSE
