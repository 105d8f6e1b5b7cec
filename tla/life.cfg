SPECIFICATION FairSpec
CONSTANTS
    EnvLine <- MCEnvLine
    RescuerLine <- MCRescuerLine
    EmergencyLine <- MCEmergencyLine
    FileLines = 3
    MaxEnvLines = 12
    MaxConfLines = 2
    MaxTypes = 1
    MaxRequests = 2
    MaxCoordinate = 4
    MaxAmount = 3
    MaxSpeed = 1
    MaxRequired = 2
    MaxTime = 2
    PriorityNumbers = {0}
    NoLine = NoLine
    Catalogue <- MCCatalogue
    Worker = {w1}
    Request <- MCRequest
    MqRoom = 1
    LogRoom = 8
    MaxSent = 1
    MaxTicks = 2
    NoEmergency = NoEmergency
INVARIANTS
    CatalogueSound
    NoTickSleptThrough
    RoundsNumbered
    LastOneOut
PROPERTIES
    StopEnds
    TickTaken
CHECK_DEADLOCK FALSE
