SPECIFICATION Spec
CONSTANTS
    IDs <- MCIDs
    Retention = 1
    MaxRetries = 2
    MaxScans = 2
    MaxTime = 2
    MaxCrashes = 1
INVARIANTS
    SavedIsVouched
    CursorRowPresent
    ChronologicalRows
    OneRowPerScan
    LedTracksStreak
PROPERTIES
    PurgeOnlyOld
    LedgerSpec
