SPECIFICATION LiveSpec
CONSTANTS
    c1 = c1
    c2 = c2
    Callers <- TwoCallers
    Period = 1
    CommandTimeout = 3
    SendTimeout = 2
    StopTimeout = 2
    MaxTime = 4
    MaxSeq = 2
INVARIANTS
    ConfirmedStopIsStill
    AcknowledgedTargetActed
PROPERTIES
    LateSendEndsPublication
    ImplementsLeasedPublisher
    LapsedLeaseHalts
    EveryCallReturns
    HaltEndsInHold
