SPECIFICATION Spec
CONSTANTS
    c1 = c1
    c2 = c2
    t1 = t1
    t2 = t2
    Chores = {c1, c2}
    MaxTime = 0
    Taps = {t1, t2}
    Listed <- Both
    Others = FALSE
PROPERTIES
    LinesStay
