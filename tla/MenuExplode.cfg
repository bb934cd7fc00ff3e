SPECIFICATION ExplodeSpec
CONSTANTS
    SCREENW = 6
    MAXMENULINES = 4
    OFFSETS = 6
    COLIDS = 3
    Sources <- MCSources
    Ends <- MCEnds
    MaxSources = 4
INVARIANTS
    EveryLinkListed
    DescriptionsShown
CHECK_DEADLOCK FALSE
