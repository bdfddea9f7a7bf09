SPECIFICATION FairSpec
CONSTANTS
    p1 = p1
    MaxMessages = 3
    Pages = {p1}
    NoPage = NoPage
    Page <- MCPage
    CacheSize = 1
    MaxDisturbances = 2
INVARIANTS
    NoneSwallowed
    OneDocumentPerPage
PROPERTIES
    LargeBatchFlushed
    PauseEnds
CHECK_DEADLOCK FALSE
