SPECIFICATION Spec
CONSTANTS
    p1 = p1
    MaxMessages = 3
    Pages = {p1}
    NoPage = NoPage
    Page <- MCPage
    CacheSize = 1
    MaxDisturbances = 1
INVARIANT ShutdownFlushes
CHECK_DEADLOCK FALSE
