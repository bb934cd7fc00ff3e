SPECIFICATION FilterSpec
CONSTANTS
    BufferSizes = {6, 13}
    NAMELEN = 2
    Elements <- MCElements
    MaxElements = 4
INVARIANTS
    TextCopied
CHECK_DEADLOCK FALSE
