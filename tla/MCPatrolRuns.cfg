SPECIFICATION FairSpec
CONSTANTS
    MaxRuns = 3
    MaxNow = 2
    MaxStops = 2
    Period = 2
    Offset <- MCOffset
INVARIANTS RunningInHand SlotServedOnce
PROPERTY RowsTerminate
CHECK_DEADLOCK FALSE
