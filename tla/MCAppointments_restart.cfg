SPECIFICATION SpecAppointments
CONSTANTS
    u1 = u1
    t1 = t1
    t2 = t2
    h1 = h1
    Users <- MCUsers
    Titles <- MCTitles
    Captures <- MCCaptures
    Forms <- MCForms
    Moments <- MCMoments
    Amounts <- MCAmounts
    Clerks <- MCClerks
    DayLen = 2
    WeekDays = 2
    PageSize = 1
    MaxAppointments = 1
    FeedBack = 1
    CardTTL = 1
    AwaitTTL = 1
    CostDelay = 1
    Lookback = 2
    LastMoment = 2
    MaxVisits = 2
    MaxTaps = 3
    MaxAsks = 1
    MaxBoots = 2
INVARIANT CardsOutliveNothing
CHECK_DEADLOCK FALSE
