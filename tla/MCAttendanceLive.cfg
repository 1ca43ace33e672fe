SPECIFICATION FairSpec
CONSTANTS
    IDs <- MCOneID
    Retention = 0
    MaxRetries = 1
    MaxScans = 2
    MaxTime = 1
    MaxCrashes = 1
PROPERTIES
    UploadProgress
    ScanEnds
