\* Two monitors at a time, one client thread.
SPECIFICATION FairSpec
CONSTANTS
    m1 = m1
    m2 = m2
    c1 = c1
    c2 = c2
    Monitors = {m1, m2}
    Callers = {c1}
    MaxWait = 30
INVARIANTS TypeOK EngagedIsWatched ReportsLoss ReportsOnce
PROPERTIES MonitorsEnd KeepsProbing
