SPECIFICATION FairSessionSpec
CONSTANTS
    h1 = h1
    Hosts <- MCHosts
    Selectors = {}
    Targets <- MCTargets
    Pages <- MCPages
    StartPages <- MCStartPages
    NoticeSize = 1
    MAXALLOWEDCACHE = 3
    MallocMayFail = TRUE
    MaxDepth = 2
    BUFMAX = 3
    HDRLEN = 2
    TIMEOUT = 2
    HTTP_TIMEOUT = 1
    MaxBody = 5
    DiskFaults <- MCDiskFaults
    Names = {"f", "g"}
    MaxWords = 3
INVARIANTS
    NoLeak
    FileOnlyIfSaved
    GopherExact
    FailureTold
PROPERTIES
    DiskKept
    ImplementsBrowser
    UserGetsControl
