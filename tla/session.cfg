SPECIFICATION FairSpec
CONSTANTS
    Client = {c1, c2}
    MaxStarts = 2
    MaxFailing = 1
    MqRoom = 1
    LogRoom = 1
    MaxFileLines = 1
INVARIANTS
    Restartable
    MemoryComplete
    LogOutlivesClients
PROPERTIES
    ClientEnds
    ServerCloses
CHECK_DEADLOCK FALSE
