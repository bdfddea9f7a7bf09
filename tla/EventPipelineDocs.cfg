SPECIFICATION Spec
CONSTANTS
    h1 = h1
    h2 = h2
    t1 = t1
    b1 = b1
    b2 = b2
    a1 = a1
    Hits = {h1, h2}
    Tests = {}
    Browser <- MCBrowser
    Article <- MCArticle
    Undefined = Undefined
    MaxEpochs = 0
INVARIANT OneDocumentPerBrowserAndArticle
CHECK_DEADLOCK FALSE
