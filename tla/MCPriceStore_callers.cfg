SPECIFICATION Spec
CONSTANTS
    Puller = {w}
    Sweeper = {s}
    Chart = {w}
    MaxDay = 3
    MaxRestated = 1
    MaxGap = 1
    Overlap = 1
INVARIANT StoredIsSettled
PROPERTIES DeltaEqualsFull NeverShrinks
CHECK_DEADLOCK FALSE
