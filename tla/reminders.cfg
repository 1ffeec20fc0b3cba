SPECIFICATION RemindersSpec
CONSTANTS
    SessionIds = {s1, s2}
    DeductionIds = {d1, d2}
    NoId = NoId
    Kinds = {"lunch"}
    Roundings = {1}
    Midnights = {4}
    UndoWindow = 2
    Retention = 3
    SleepThreshold = 1
    WorkThreshold = 2
    LunchThreshold = 1
    Snoozes = {1, 3}
    TypedTimes = {2}
    MaxTime = 7
SYMMETRY Symmetry
\* Commands stop at MaxTime: the end of the model, not of the system.
CHECK_DEADLOCK FALSE
INVARIANT RemindersKeepPromises
