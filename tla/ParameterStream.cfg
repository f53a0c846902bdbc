SPECIFICATION LiveSpec
CONSTANTS
    Actors = 2
    QueueCapacity = 1
    PublishInterval = 2
    MaxVersion = 2
    MaxLives = 2
    MaxRepeats = 2
INVARIANTS
    NothingIsRefused
    ActorRunsPublished
PROPERTY PublicationArrives
CHECK_DEADLOCK FALSE
