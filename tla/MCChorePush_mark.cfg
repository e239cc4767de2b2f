SPECIFICATION Spec
CONSTANTS
    c1 = c1
    Chores = {c1}
    MaxTime = 3
    Lookback = 2
    Day = 2
    NagTimes = {0}
INVARIANTS
    MarkedMinuteWasSaid
