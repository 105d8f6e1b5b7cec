SPECIFICATION FairSpec
CONSTANTS
    Emergency = {low, high}
    Twin = {f1}
    Worker = {w1, w2}
    Width = 3
    Site <- MCSite
    BaseLevel <- MCBaseLevel
    Required <- MCOneEach
    TimeToManage <- MCTimeToManage
    TimeBeforePromotion <- MCTimeBeforePromotion
    TimeBeforeTimeout <- MCTimeBeforeTimeout
    Signal = {}
    RescuerType = {fire}
    low = low  mid = mid  high = high
    fire = fire  ambulance = ambulance
    f1 = f1  f2 = f2  a1 = a1
    Height = 1
    Levels = 3
    TypeOf <- MCTypeOf
    Base <- MCBase
    Speed <- MCSpeed
    NoTimeout <- MCSentinel
    NoPromotion <- MCSentinel
    NoEmergency = NoEmergency
    NoCell = NoCell
PROPERTIES
    PausedIsServed
