SPECIFICATION FairSpec
CONSTANTS
    Levels = 2
    Item = {i1, i2}
    Popper = {p1, p2, p3}
    Null = Null
    Nothing = Nothing
    Prio <- MCPrio
    MaxItems = 2
INVARIANTS
    TypeOK
    SizeCounts
    NoneStranded
PROPERTIES
    ImplementsQueue
