SPECIFICATION Spec
CONSTANTS
    Row = {r1, r2}
    Session = {s1, s2}
    MaxEdits = 2
INVARIANTS CancelledMeansUntouched VerifiedMeansAgreed
PROPERTIES NoBlindOverwrite CancelEnds
CHECK_DEADLOCK FALSE
