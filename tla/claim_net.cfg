SPECIFICATION TotalsSpec
CONSTANTS
    SessionIds = {s1}
    DeductionIds = {d1, d2}
    NoId = NoId
    Kinds = {"lunch"}
    Roundings = {6}
    Midnights = {}
    UndoWindow = 1
    Retention = 3
    SleepThreshold = 1
    WorkThreshold = 2
    LunchThreshold = 2
    Snoozes = {1}
    TypedTimes = {}
    MaxTime = 12
SYMMETRY TotalsSymmetry
\* Commands stop at MaxTime: the end of the model, not of the system.
CHECK_DEADLOCK FALSE
INVARIANT NetIsNotNegative
