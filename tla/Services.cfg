SPECIFICATION FairSpec
CONSTANTS
    Nodes = {1, 2}
    Swarm = {1, 2, 3}
    None = None
    Elements = {x}
    FullSyncEvery = 2
    MaxOps <- MCMaxOps
    MaxClock = 2
    MaxSyncs = 2
    LocalValue <- MCLocalValue
    MaxRounds = 3
    Unit = 8
    Faulty = {3}
    Truth = Truth
    Lie = Lie
    MaxResolves = 3
CHECK_DEADLOCK FALSE
INVARIANTS
    TypeOK
    ReadsAsMeant
    MassIsSound
    TruthPrevails
PROPERTIES
    OperationsSpread
