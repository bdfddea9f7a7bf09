SPECIFICATION FairSpec
CONSTANTS
    h1 = h1
    h2 = h2
    t1 = t1
    b1 = b1
    b2 = b2
    a1 = a1
    Hits = {h1, t1}
    Tests = {t1}
    Browser <- MCBrowser
    Article <- MCArticle
    Undefined = Undefined
    MaxEpochs = 1
INVARIANTS
    EveryEventAccounted
PROPERTIES
    FatesKept
    EveryEventResolved
CHECK_DEADLOCK FALSE
