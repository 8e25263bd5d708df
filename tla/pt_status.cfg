\* A client that waits for the status and answers Prepare, every kind of
\* configuration, and everything that can fail failing.
SPECIFICATION Spec
CONSTANTS
    root = root
    v1 = v1
    v2 = v2
    p1 = p1
    p2 = p2
    s1 = s1
    s2 = s2
    i1 = i1
    i2 = i2
    r1 = r1
    NoEscort = NoEscort
    NoConf = NoConf
    Root = root
    Escorts = {root, v1}
    DownCallers = {s1, s2}
    RestartLimit = 1
    Forgiveable = {}
    StartMayFail = TRUE
    MaxClosers = 1
    ReadyCallers = {r1}
    Starts = {p1, p2}
    Stops = {s1, s2}
    Interrupts = {}
    CoreMayFail = TRUE
    ChildMayExit = TRUE
    MaxTimers = 1
    Manners = {"status", "vpn"}
    Configs <- HostileConfigs
SYMMETRY WorkerSymmetry
INVARIANTS WorkersExclusive NoCoreLeaked
CHECK_DEADLOCK FALSE
