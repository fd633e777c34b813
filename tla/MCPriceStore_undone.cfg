SPECIFICATION Spec
CONSTANTS
    Puller = {w}
    Sweeper = {s}
    Chart = {}
    MaxDay = 1
    MaxRestated = 1
    MaxGap = 1
    Overlap = 1
PROPERTIES NeverUndone
CHECK_DEADLOCK FALSE
