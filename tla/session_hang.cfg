\* One thread uses the shim again after a crash of the bridge.
SPECIFICATION FairSpec
CONSTANTS
    NULL = NULL
    Thread = {t1}
    Creator = {t1}
    Speaker = {t1}
    MAX_CB_HANDLES = 2
    MaxSess = 2
    MaxCrash = 1
    MaxCalls = 5
    MaxBuf = 1
    MaxReader = 1
PROPERTIES
    CallsReturn
\* The host stops calling, and without a bridge the shim has nothing to do.
CHECK_DEADLOCK FALSE
