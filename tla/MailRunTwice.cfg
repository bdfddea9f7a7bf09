SPECIFICATION Spec
CONSTANTS
    r1 = r1
    r2 = r2
    p1 = p1
    p2 = p2
    m1 = m1
    m2 = m2
    Readers = {r1, r2}
    Posts = {p1, p2}
    Scheduled = {m1}
    Requested = {}
    MaxFailures = 0
INVARIANT NobodyMailedTwice
CHECK_DEADLOCK FALSE
