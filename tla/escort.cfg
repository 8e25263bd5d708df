\* A VPN and a root object, one goroutine that calls EscortingDown; Start may
\* fail.
SPECIFICATION FairSpec
CONSTANTS
    vpn = vpn
    root = root
    d1 = d1
    Escorts = {vpn, root}
    DownCallers = {d1}
    RestartLimit = 2
    Forgiveable = {}
    StartMayFail = TRUE
    MaxClosers = 2
    Roots = {root}
    RootLists = {TRUE, FALSE}
INVARIANTS TypeOK AtMostOneAlive TrackedOrInFlight CloserWaits
PROPERTIES DownReturnsUnlessSpent RestartsStop
CHECK_DEADLOCK FALSE
