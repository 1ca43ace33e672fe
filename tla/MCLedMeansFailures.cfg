SPECIFICATION LedSpec
CONSTANTS
    IDs = {1, 2}
    Retention = 1
    MaxRetries = 2
    MaxScans = 2
    MaxTime = 2
    MaxCrashes = 1
INVARIANT
    LedMeansFailures
