SPECIFICATION BackendSpec
CONSTANTS
    Main = main
    Callers <- MainOnly
    Rechecks = 1
    Period = 1
    CommandTimeout = 2
    SendTimeout = 2
    StopTimeout = 1
    MaxTime = 2
    MaxSeq = 1
PROPERTY
    DriftBoundsTheSubmission
