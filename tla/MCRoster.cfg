SPECIFICATION FairSpec
CONSTANTS
    Persons = {p1, p2}
    MaxRetries = 2
    FaultSets <- MCFaultSets
    MaxID = 2
    MaxCrashes = 2
INVARIANTS
    RosterAgreement
    EmployeesReported
    NoOrphan
PROPERTIES
    FreshPages
    StruckOffAreGone
    DeletionHonoured
