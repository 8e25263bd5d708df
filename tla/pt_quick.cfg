\* RunLoop right after "Closed".
SPECIFICATION Spec
CONSTANTS
    root = root
    v1 = v1
    v2 = v2
    p1 = p1
    p2 = p2
    s1 = s1
    s2 = s2
    i1 = i1
    i2 = i2
    r1 = r1
    NoEscort = NoEscort
    NoConf = NoConf
    Root = root
    Escorts = {root, v1}
    DownCallers = {s1}
    RestartLimit = 2
    Forgiveable = {}
    StartMayFail = FALSE
    MaxClosers = 1
    ReadyCallers = {r1}
    Starts = {p1}
    Stops = {s1}
    Interrupts = {}
    CoreMayFail = FALSE
    ChildMayExit = FALSE
    MaxTimers = 1
    Manners = {"status", "context", "vpn"}
    Configs <- VpnConfigs
INVARIANTS RestartsUnexpectedExitsOnly
CHECK_DEADLOCK FALSE
