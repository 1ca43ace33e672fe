SPECIFICATION Spec
CONSTANTS
    Persons = {p1, p2}
    MaxRetries = 2
    FaultSets <- MCFaultSets
    MaxID = 3
    MaxCrashes = 1
INVARIANTS
    AcknowledgedMeansAbsent
