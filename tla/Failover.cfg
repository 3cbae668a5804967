SPECIFICATION DSpec
CONSTANTS
    Nodes = {1, 2, 3}
    None = None
    SuspectAfter = 2
    DeadAfter = 3
    Seeds <- SeedIsSecond
    Fanout = 2
    Mortal = {1}
    Groups = {}
    MaxFaults = 1
    Self = 1
    MortalPeers = {}
    ProbeTimeout = 1
    IndirectK = 1
    MaxLosses = 0
    MaxWire = 1
PROPERTIES
    LeaderFailover
