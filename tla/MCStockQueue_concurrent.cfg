SPECIFICATION Spec
CONSTANTS
    Ticker = {t1}
    MaxJob = 2
    Req = {r1, r2}
    Ops <- RacingOps
    StaleAfter = 0
    MaxNow = 1
    MaxCrash = 1
INVARIANTS HeldJobIsRunning PromiseKeptWhilePending
PROPERTIES BoardSpec
CHECK_DEADLOCK FALSE
SYMMETRY Threads
