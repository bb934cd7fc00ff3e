SPECIFICATION DeleteSpec
CONSTANTS
    CHUNK = 3
    Lengths <- MCLengths
INVARIANTS
    OnlyVictimGone
    AtMostOneTorn
CHECK_DEADLOCK FALSE
