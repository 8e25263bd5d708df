SPECIFICATION Spec
CONSTANTS
    c1 = c1
    c2 = c2
    p1 = p1
    p2 = p2
    d1 = d1
    d2 = d2
    Contexts = {c1, c2}
    Paths = {p1, p2}
    NoPath = NoPath
    Dirs = {d1, d2}
    DefaultDir = d1
    NoAssign = NoAssign
    l1 = l1
    l2 = l2
    Loaders = {l1, l2}
    Lookers = {l1, l2, picker, scanner}
    NoContext = NoContext
    Picker = picker
    Scanner = scanner
    Indep = {"dns.conf"}
    Dep = {"tun2socks"}
    MaxVersion = 2
    DiskMayFail = TRUE
    NoAsset = NoAsset
    NoConf = NoConf
    Service = c1
    Template = "dns.conf"
    Groups = {g1, g2}
    Pieces = {1, 2, 3}
    Needed <- MCNeeded
    Legacy = {x1}
    Nothing = Nothing
    a1 = a1
    a2 = a2
    Dials = {a1, a2}
    NetOf <- MCNetOf
    Domains = {"example.org"}
    MaxSessions = 2
    Descriptors = {1, 2}
    NoDescriptor = NoDescriptor
    NoWrite = NoWrite
    Lives <- MCLives
INVARIANTS
    TypeOK
    SelectionAgrees
    LoadsWhatItGuessed
    MarkedIsExported
    ServesItsBinaries
    
    ServesWholeOrPrefix
    AnnouncedFinishIsSafe
    CompleteIsAnnounced
    LosesOnlyRefused
    DialsCurrentAddress
    FirstVpnSessionDialsSafely
PROPERTIES
    SavesWhatWasAnnounced
SYMMETRY LoaderSymmetry
CHECK_DEADLOCK FALSE
