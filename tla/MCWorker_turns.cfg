SPECIFICATION Spec
CONSTANTS
    Session = {1, 2, 4, 5, 7, 8}
    BackfillDays = 5
    WindowDays = 1
    BackDays = 1
    ForwardDays = 1
    Series = {"gdp"}
    MonthDays = 2
    Sector = {"tech"}
    FredHours = 2
    ReadHours = 1
    Company = {1, 2, 3}
    MaxCandidates = 2
    Found <- SomeFinds
    DayHours = 2
    FirstDay = 4
    MaxHour = 9
    DueHour <- Hours
    MaxScans = 2
    MaxDeaths = 1
    Focus <- OneAtATime
INVARIANTS TypeOK FredWithinTwoWindows PagesAreTheProviders SuccessIsComplete
CHECK_DEADLOCK FALSE
