SPECIFICATION FairSpec
CONSTANTS
    main = main
    deletion = deletion
    Threads <- MCThreads
    Replies <- MCReplies
    Silence = Silence
    Noise = {4}
    MaxRetries = 2
    MaxCommands = 3
    MaxShort = 1
    MaxFaults = 1
INVARIANTS
    InStep
PROPERTIES
    OwnAnswer
    RepliesAreReal
    CommandsReturn
    CommandSpec
\* The counters for the bounds stop the model.
CHECK_DEADLOCK FALSE
