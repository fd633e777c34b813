SPECIFICATION Spec
CONSTANTS
    Ticker = {t1}
    MaxJob = 2
    Req = {r1}
    Ops <- EveryOp
    StaleAfter = 0
    MaxNow = 1
    MaxCrash = 1
INVARIANTS OneActivePerTicker UntrackedLeavesNoWork
CHECK_DEADLOCK FALSE
