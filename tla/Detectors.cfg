SPECIFICATION DSpec
CONSTANTS
    Nodes = {1, 2, 3}
    None = None
    SuspectAfter = 2
    DeadAfter = 3
    Seeds <- SeedIsSecond
    Fanout = 2
    Mortal = {1, 3}
    Groups = {{1}, {3}}
    MaxFaults = 1
    Self = 1
    MortalPeers = {2}
    ProbeTimeout = 1
    IndirectK = 1
    MaxLosses = 1
    MaxWire = 2
INVARIANTS
    TypeOK
    SwimTypeOK
    HeartbeatsAreReal
PROPERTIES
    OnlySilenceEvicts
    OneLeader
    CrashedAreEvicted
    ProbedAreKept
    ProbesEnd
    DeadStayEvicted
