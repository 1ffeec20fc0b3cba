SPECIFICATION Spec
CONSTANTS
    Procs = {p1, p2}
    Nobody = Nobody
    Controllers = 2
INVARIANTS
    OwnerUsesData
    FirstRequestServed
PROPERTIES
    RestoreAlone
    ExitCompletes
