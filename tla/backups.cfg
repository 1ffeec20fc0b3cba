SPECIFICATION Spec
CONSTANTS
    Folder = {f1, f2}
    Default = f1
    Keep = 1
    MaxDay = 2
    MaxFacts = 1
    MaxEvents = 2
INVARIANTS RestoreLosesNothing BackupsAreWhole SuccessMeansBackup
PROPERTIES LiveStaysWhole EveryDayIsBackedUp
CHECK_DEADLOCK FALSE
