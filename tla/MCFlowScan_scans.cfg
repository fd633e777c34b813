SPECIFICATION Spec
CONSTANTS
    t1 = t1
    f = f
    g = g
    Ticker = {t1}
    Fund = {f, g}
    Key <- Keys
    Wording <- Worded
    Filing <- Rows
    Dedup = 1
    Lookback = 1
    FirstNow = 2
    MaxNow = 5
    MaxFault = 1
    MaxDelete = 1
    MaxPost = 2
INVARIANTS NoRepeatWithinWeek RowSurfacesOnce
PROPERTIES WindowIsCovered
CHECK_DEADLOCK FALSE
