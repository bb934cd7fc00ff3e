SPECIFICATION FairSpec
CONSTANTS
    h1 = h1
    Hosts <- MCHosts
    Selectors <- MCSelectors
    Targets <- MCTargets
    Pages <- MCPages
    StartPages <- MCStartPages
    NoticeSize = 1
    PAGEBUFSZ = 2
    MAXALLOWEDCACHE = 3
    MallocMayFail = TRUE
    MaxDepth = 4
INVARIANTS
    ShownIsCached
    OnlyHeadIsSaved
    NoDetour
    EmbeddedRebuilt
    CacheBudget
    QueryOnlyOnRequest
PROPERTIES
    BelowHeadKept
    Navigates
    Settles
