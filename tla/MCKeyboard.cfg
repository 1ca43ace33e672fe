SPECIFICATION Spec
CONSTANTS
    Digits <- MCDigits
    MAX_LENGTH_ID = 3
INVARIANTS
    TypeOK
    SequenceIsArmed
PROPERTIES
    EditorSpec
