\* The threads really stop for good once curl_easy_init has failed; every other
\* standstill is excluded by NoWaitCycle and the liveness properties.
SPECIFICATION FairSpec
CONSTANTS
    MaxRetries = 2
    MaxRows = 1
    MaxItems = 2
INVARIANTS
    SectionsExclusive
    LocksReleased
    NoWaitCycle
PROPERTIES
    KeysHandled
    PassesEnd
    ListsAskedFor
CHECK_DEADLOCK FALSE
