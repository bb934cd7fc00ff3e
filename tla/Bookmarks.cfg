SPECIFICATION Spec
CONSTANTS
    MaxBookmarks = 5
    Locations <- MCLocations
    Defaults <- MCDefaults
    Files <- MCFiles
    Lower <- MCLower
    TooLong <- MCTooLong
INVARIANTS
    NoDuplicates
    SavedLeadsBack
PROPERTIES
    DeleteHits
