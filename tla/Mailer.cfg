SPECIFICATION MailerSpec
CONSTANTS
    r1 = r1
    p1 = p1
    p2 = p2
    m1 = m1
    m2 = m2
    l1 = l1
    a = a
    b = b
    d1 = d1
    d2 = d2
    Readers = {r1}
    Posts = {p1, p2}
    Scheduled = {m1}
    Requested = {m2}
    MaxFailures = 1
    Loads = {l1}
    MaxMishaps = 1
    Reports = {a, b}
    LastDay = {b}
    Deletions = {d1, d2}
INVARIANTS
    OrphansExplained
PROPERTIES
    DueIsTaken
    TimersExplained
CHECK_DEADLOCK FALSE
