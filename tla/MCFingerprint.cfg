SPECIFICATION FairSpec
CONSTANTS
    main = main
    deletion = deletion
    f1 = f1
    f2 = f2
    NoFinger = NoFinger
    Silence = Silence
    Threads <- MCThreads
    Fingers <- MCFingers
    Libraries <- MCLibraries
    Answers <- MCAnswers
    Errors <- MCErrors
    Pages = {1, 2}
    SearchPages = {1}
    NumLimit = 2
    MaxProcedures = 2
    MaxEvents = 2
PROPERTIES
    EnrolTellsTruth
    LibrarySpec
    NoSecondTemplate
    MatchIsTrue
    DeletedIsGone
    ProceduresEnd
CHECK_DEADLOCK FALSE
