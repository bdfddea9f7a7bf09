SPECIFICATION PipelinesSpec
CONSTANTS
    d1 = d1
    d2 = d2
    i1 = i1
    l1 = l1
    l2 = l2
    p1 = p1
    p2 = p2
    Daemon = {d1, d2}
    Cli = {i1}
    MaxFailures = 2
    Loads = {l1, l2}
    MaxMishaps = 1
    Pipelines <- MCPipelines
    MaxEdits = 2
INVARIANTS
    NoOrphanLock
PROPERTIES
    LockReleased
    RunsInTurn
    TimersFollow
