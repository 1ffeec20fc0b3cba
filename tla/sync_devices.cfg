SPECIFICATION Spec
CONSTANTS
    a = a
    b = b
    k1 = k1
    k2 = k2
    narrow = narrow
    wide = wide
    Device <- MCDevice
    KeySeq <- MCKeySeq
    Value <- MCValue
    Wide <- MCWide
    Snapshots <- MCSnapshots
    MaxCommands = 2
    MaxTransit = 1
INVARIANTS RowsMatchHeads WithdrawnTogether Agreement SyncedMeansPublished EveryVersionInSight
SYMMETRY Symmetry
PROPERTIES NoSilentOverwrite ObsoleteJobStoresNothing LogImplemented
CHECK_DEADLOCK FALSE
