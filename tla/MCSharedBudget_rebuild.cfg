SPECIFICATION SpecBoth
CONSTANTS
    Cap = 4
    DayHours = 2
    Thread = {r1, r2}
    MaxChanges = 2
    LastHour = 6
    MaxAge <- Ages
    PublishedOn <- Days
    NewsDays = 3
    PageSize = 2
    MaxPages = 2
    LookbackDays = 2
    ClusterWindow = 1
    ClusterInsiders = 2
    Statement = {1, 2}
    Income = {1}
    CacheDays = 2
    MovesDays = 2
    MaxDay = 4
    Filings <- SomeFilings
    Focus <- OneAtATime
PROPERTY RebuildDestroysNothing
SYMMETRY AnyThread
CHECK_DEADLOCK FALSE
