SPECIFICATION Spec
CONSTANTS
    Rows = 5
    MaxLines = 7
INVARIANTS
    SelectedIsLink
    ArrowsReachEnds
    DownSelectsAll
