SPECIFICATION Spec
CONSTANTS
    Rows = 5
    Width = 3
    Texts <- MCTexts
INVARIANTS
    EndMeansAllSeen
    WrapFaithful
PROPERTIES
    PageUpUndoes
