SPECIFICATION Spec
CONSTANTS
    Session = {4}
    BackfillDays = 1
    WindowDays = 1
    BackDays = 1
    ForwardDays = 1
    Series = {}
    MonthDays = 2
    Sector = {"tech"}
    FredHours = 2
    ReadHours = 1
    Company = {1}
    MaxCandidates = 2
    Found <- OneFind
    DayHours = 2
    FirstDay = 4
    MaxHour = 5
    DueHour <- Hours
    MaxScans = 2
    MaxDeaths = 1
    Focus <- Together
PROPERTIES JobIsTaken ScanEnds DueIsRun
CHECK_DEADLOCK FALSE
