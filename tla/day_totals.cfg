SPECIFICATION TotalsSpec
CONSTANTS
    SessionIds = {s1, s2}
    DeductionIds = {d1, d2}
    NoId = NoId
    Kinds = {"lunch"}
    Roundings = {1, 4}
    Midnights = {4}
    UndoWindow = 1
    Retention = 3
    SleepThreshold = 1
    WorkThreshold = 2
    LunchThreshold = 2
    Snoozes = {1}
    TypedTimes = {1, 3, 5}
    MaxTime = 7
SYMMETRY TotalsSymmetry
\* Commands stop at MaxTime: the end of the model, not of the system.
CHECK_DEADLOCK FALSE
INVARIANT TotalsAgree
