SPECIFICATION Spec
CONSTANTS
    Nodes = {1, 2}
    Keys = {k1, k2}
    Values = {a}
    None = None
    Self = 1
    SnapshotEvery = 2
    RemoteEntries <- MCRemoteEntries
    NoStaleEntries = TRUE
    Garbled = Garbled
    MaxTs = 2
    MaxCrashes = 2
INVARIANTS
    TypeOK
    DurableUnlessGlued
    OwnEntriesBelowHighest
    LogGrowsWithCrashes
