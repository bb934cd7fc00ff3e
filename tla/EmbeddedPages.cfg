SPECIFICATION Spec
CONSTANTS
    Dictionary <- MCDictionary
    GramLen = 2
    LineRoom = 3
    NoBookmarks <- MCNoBookmarks
    Texts <- MCTexts
    Closings <- MCClosings
    Files <- MCFiles
    Rooms <- MCRooms
    SIZE_MAX = 255
INVARIANTS
    PageIsAssembled
    StaysInBuffer
CHECK_DEADLOCK FALSE
