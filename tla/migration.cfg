SPECIFICATION Spec
CONSTANTS
    a = a
    b = b
    Machine <- MCMachine
    History = {h1, h2}
    LegacyRows = {r1, r2}
    MaxBackups = 2
INVARIANTS NobodyLeftBehind
PROPERTIES ActivatedAsShown OneLog
SYMMETRY Symmetry
CHECK_DEADLOCK FALSE
