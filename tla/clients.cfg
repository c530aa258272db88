\* Two hosts; an engine with as many pointers, so that one may come back.
SPECIFICATION FairSpec
CONSTANTS
    NULL = NULL
    MaxClient = 2
    Host = {h1, h2}
    Ptr = {p1, p2}
INVARIANTS
    TypeOK
    RegistryExact
    OwnChannel
    CbFound
    InstancesOwned
PROPERTIES
    GoneFreed
    ChannelJoins
\* The hosts have gone, or the bridge has exited.
CHECK_DEADLOCK FALSE
