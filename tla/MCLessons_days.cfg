SPECIFICATION Spec
CONSTANTS
    c1 = c1
    h1 = h1
    h2 = h2
    Courses <- MCCourses
    Handlers <- MCHandlers
    DayLen = 3
    FirstDay = 0
    LastDay = 1
    Timetable <- MCTimetable
    Delay = 1
    Notice <- MCNotice
    WeekLen = 7
    Opening <- MCOpening
    MaxActs = 2
    MaxStops = 1
SYMMETRY MCSymmetry
INVARIANTS
    TypeOK
    AskedOrMarked
    SpokenOnce
    AnswerIsRecord
    PaidOnce
PROPERTIES
    PaidThroughIsQuiet
CHECK_DEADLOCK FALSE
