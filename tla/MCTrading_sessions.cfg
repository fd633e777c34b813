SPECIFICATION Spec
CONSTANTS
    Week = 3
    Month = 2
    Quarter = 4
    Year = 6
    DailySpan = 5
    WeeklySpan = 5
    MonthlySpan = 5
    GapLookback = 3
    SmaWindow = 2
    SmaMin = 2
    VolumeWindow = 2
    VolumeMin = 2
    PriorWindow = 2
    PriorMin = 2
    Window = 2
    AdvWindow = 3
    Sustained = 3
    Early = 2
    Unknown = Unknown
    DivergenceLookback = 8
    StopBuffer = 1
    MinProfitPct = 5
    MaxDaysHeld = 6
    WarnDays = 1
    Close <- Sessions
    Trades <- TradeDays
    Earnings = {5, 8}
INVARIANT AdviceHasGrounds
PROPERTIES OpenBarOnlyWidens GapsKeepTheirRecord StopIsHonoured StreakGrowsOrEnds
CHECK_DEADLOCK FALSE
