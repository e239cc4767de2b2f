SPECIFICATION Spec
CONSTANTS
    c1 = c1
    Chores = {c1}
    MaxTime = 2
    Lookback = 1
    Day = 2
    NagTimes = {0}
INVARIANTS
    TypeOK
    AnnouncedOnce
    OneNagWindow
PROPERTIES
    NoFlood
