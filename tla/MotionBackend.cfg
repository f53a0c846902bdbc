SPECIFICATION BackendSpec
CONSTANTS
    Main = main
    Callers <- MainOnly
    Rechecks = 2
    Period = 1
    CommandTimeout = 2
    SendTimeout = 2
    StopTimeout = 1
    MaxTime = 5
    MaxSeq = 2
INVARIANTS
    SendStatusIsHonest
    SuccessorShowsTheCommand
    ReaderOutlivesTheStream
PROPERTIES
    NoCommandAfterFailure
    FeedbackOutlastsTheSend
    ImplementsArmHold
