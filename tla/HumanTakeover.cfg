SPECIFICATION Spec
CONSTANTS
    None = None
    MaxAge = 1
    ReleaseHold = 2
    MaxTime = 4
    MaxReports = 5
INVARIANTS
    RowsAreAdmissible
    SilenceNeedsObservedZero
    HumanWins
PROPERTY PolicyResumesAfterHold
CHECK_DEADLOCK FALSE
