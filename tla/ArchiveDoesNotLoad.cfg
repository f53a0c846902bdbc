SPECIFICATION Spec
CONSTANTS
    Sessions = 1
    Steps = 1
    QueueCapacity = 1
    Terminal <- LastStep
    Autonomous <- LastStep
    UtdRatio = 1
    MinOnline = 1
    CheckpointInterval = 2
    EpisodeInterval = 1
    MaxLives = 1
INVARIANTS
    ArchiveLoads
CHECK_DEADLOCK FALSE
