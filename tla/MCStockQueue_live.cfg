SPECIFICATION FairSpec
CONSTANTS
    Ticker = {t1, t2}
    MaxJob = 2
    Req = {r1}
    Ops <- SweepingOps
    StaleAfter = 0
    MaxNow = 1
    MaxCrash = 1
PROPERTIES PendingIsClaimed EveryJobSettles
CHECK_DEADLOCK FALSE
