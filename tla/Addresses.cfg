SPECIFICATION Spec
CONSTANTS
    Chars <- MCChars
    Typed <- MCTyped
    maxlen = 16
    maxdisplaylen = 4
    MARGIN = 2
    MAXHOSTLEN = 3
    MAXSELLEN = 6
    MAXURLLEN = 16
    MAXNAMELEN = 4
    Memory <- MCMemory
    Shady <- MCShady
    Pages <- MCPages
    Links <- MCLinks
    MaxChanges = 2
INVARIANTS
    CursorInField
    EnteredAgain
    LinkLeadsThere
    GoodName
PROPERTIES
    IsTextField
CHECK_DEADLOCK FALSE
