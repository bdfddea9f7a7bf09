SPECIFICATION MCServicesSpec
CONSTANTS
    a1 = a1
    a2 = a2
    b1 = b1
    r1 = r1
    r2 = r2
    l1 = l1
    c1 = c1
    c2 = c2
    new1 = new1
    new2 = new2
    old = old
    q1 = q1
    q2 = q2
    f = f
    g = g
    s = s
    t = t
    x = x
    y = y
    i1 = i1
    i2 = i2
    Records = {a1, a2, b1}
    Collection <- MCCollection
    Unconvertible <- MCUnconvertible
    PageSize = 1
    Ahead = 1
    MaxUpdates = 3
    MaxMishaps = 1
    NReaders = 4
    Limit = 2
    MaxParts = 2
    Readers = {r1, r2}
    Labels = {l1}
    Calls = {c1, c2}
    PerPage = 1
    MaxRelabels = 2
    MaxErrors = 1
    Articles = {new1, new2, old}
    Recent = {new1, new2}
    Size = 2
    Spare = 1
    MaxViews = 2
    MaxTurns = 2
    Posts = {1, 2, 3}
    Questions = {{1, 2}, {1, 2, 3}}
    Requests = {q1, q2}
    Largest = 2
    Most = 1
    MaxPostViews = 1
    Filters = {f, g}
    Settings = {s, t}
    Fetches = {x, y}
    Daily = {i1}
    Named = {i2}
    Customers = {r1, r2}
    MostReaders = 2
    MaxRuns = 3
    MaxNews = 1
    MaxDayErrors = 1
INVARIANTS
    ServicesTypeOK
    PassedExplained
    ProfileExplained
    RecentFirst
    MissingExplained
    LoadedAsChosen
    ViewersCounted
PROPERTIES
    ReadIsCopied
    FewPassedOver
    QueueHandsOver
    WebNeverFalls
SYMMETRY Interchangeable
CHECK_DEADLOCK FALSE
