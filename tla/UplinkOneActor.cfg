SPECIFICATION Spec
CONSTANTS
    Sessions = 1
    Steps = 3
    QueueCapacity = 1
    Terminal <- LastStep
    Autonomous <- LastStep
    UtdRatio = 1
    MinOnline = 2
    CheckpointInterval = 2
    EpisodeInterval = 1
    MaxLives = 2
INVARIANTS
    ConfirmedIsAcknowledged
    ReplayIsExactlyOnceInOrder
    NoGapIsAcknowledged
    UpdateCreditIsExact
    ExitPreserves
PROPERTIES
    CleanExitDelivers
    ImplementsTransitionLog
CHECK_DEADLOCK FALSE
