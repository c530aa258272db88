\* Two hosts; an engine that gives a deleted instance's pointer to the next.
SPECIFICATION Spec
CONSTANTS
    NULL = NULL
    MaxClient = 2
    Host = {h1, h2}
    Ptr = {p1}
PROPERTY EventsHome
\* The hosts have gone, or the bridge has exited.
CHECK_DEADLOCK FALSE
