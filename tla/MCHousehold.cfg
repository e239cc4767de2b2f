SPECIFICATION SpecHousehold
CONSTANTS
    u1 = u1
    t1 = t1
    t2 = t2
    h1 = h1
    h2 = h2
    Users <- MCUsers
    Titles <- MCTitles
    Captures <- MCCaptures
    Forms <- MCForms
    Moments <- MCMoments
    Amounts <- MCAmounts
    Clerks <- MCClerks
    DayLen = 2
    WeekDays = 2
    PageSize = 1
    MaxAppointments = 1
    FeedBack = 1
    CardTTL = 0
    AwaitTTL = 0
    CostDelay = 1
    Lookback = 2
    LastMoment = 1
    MaxVisits = 2
    MaxTaps = 3
    MaxAsks = 2
    MaxBoots = 2
    d1 = d1
    d2 = d2
    NoValue = NoValue
    Absent = Absent
    SeedAddresses <- MCSeedAddresses
    SeedTariffs <- MCSeedTariffs
    SeedUtilities <- MCSeedUtilities
    Names <- MCNames
    Periods <- MCPeriods
    TariffForms <- MCTariffForms
    ReadingForms <- MCReadingForms
    Desks <- MCDesks
    MaxReadings = 2
    MaxTariffs = 3
    MaxUtilities = 2
    MaxSaves = 3
    tr = tr
    Nobody = Nobody
    Trainers <- MCTrainers
    CourseForms <- MCCourseForms
    SlotForms <- MCSlotForms
    Absences <- MCAbsences
    HourLen = 2
    LessonHorizon = 5
    LastClock = 4
    MaxCourses = 2
    MaxSlots = 2
    MaxAbsences = 1
    MaxMoves = 4
    Billings <- MCBillings
    PayForms <- MCPayForms
    VisitDates <- MCVisitDates
    CourseDays <- MCCourseDays
    CourseAbsences <- MCCourseAbsences
    MonthLens <- MCMonthLens
    WeekLen = 2
    Notice = 3
    LowThreshold = 1
    LastDay = 3
    MaxPayments = 2
    MaxPosts = 4
SYMMETRY Handlers
INVARIANTS
    HouseholdTypeOK
    PendingIsTheCard
    OneQuestion
    AnswersTheLastQuestion
    GroupIsTold
    EveryVisitListed
    PricedAsBilled
    MonthIsSummed
    PastStands
    CalendarIsAsked
    OneWarning
    LedgerAgrees
    PaidAhead
CHECK_DEADLOCK FALSE
