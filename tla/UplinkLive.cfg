SPECIFICATION LiveSpec
CONSTANTS
    Sessions = 2
    Steps = 1
    QueueCapacity = 1
    Terminal <- LastStep
    Autonomous <- NoStep
    UtdRatio = 1
    MinOnline = 1
    CheckpointInterval = 2
    EpisodeInterval = 1
    MaxLives = 1
PROPERTIES
    EnqueuedRowIsFinished
    AcknowledgedRowIsApplied
CHECK_DEADLOCK FALSE
