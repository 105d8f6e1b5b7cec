SPECIFICATION FairSpec
CONSTANTS
    Width = 5
    Height = 4
    Speed = 2
INVARIANTS
    TypeOK
    NeverOvershoots
    NoDetour
    OnTheMap
PROPERTIES
    ImplementsWalk
    Arrives
