SPECIFICATION RecoverySpec
CONSTANTS
    SessionIds = {s1, s2}
    DeductionIds = {d1, d2}
    NoId = NoId
    Kinds = {"lunch"}
    Roundings = {1, 4}
    Midnights = {4}
    UndoWindow = 3
    Retention = 3
    SleepThreshold = 1
    WorkThreshold = 2
    LunchThreshold = 2
    Snoozes = {1}
    TypedTimes = {1, 3, 4, 6}
    MaxTime = 7
\* Commands stop at MaxTime: the end of the model, not of the system.
CHECK_DEADLOCK FALSE
INVARIANT IntervalsAreBlocked
