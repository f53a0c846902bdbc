SPECIFICATION LiveSpec
CONSTANTS
    None = None
    MaxSteps = 3
    MaxEpisodes = 3
INVARIANTS
    NoStepIsForgotten
    CommandsStayInTheirEpisode
    CoordinatorNeverRefuses
    OneBackendAtATime
    StopConfirmedIsHonest
PROPERTIES
    UplinkGetsWholeEpisodes
    LabelClosesTheStepItSaw
    LabelEndsTheEpisode
CHECK_DEADLOCK FALSE
