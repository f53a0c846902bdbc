SPECIFICATION Spec
CONSTANTS
    None = None
    MaxAge = 1
    ReleaseHold = 2
    MaxTime = 3
    MaxReports = 4
INVARIANT GateWaitIsNotAFault
CHECK_DEADLOCK FALSE
