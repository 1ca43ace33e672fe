SPECIFICATION Spec
CONSTANTS
    Letter = Letter
    Space = Space
    Texts <- MCTexts
    MaxTexts = 2
    MaxHarm = 1
INVARIANTS
    TextShown
    Room
CHECK_DEADLOCK FALSE
