SPECIFICATION HSpec
CONSTANTS
    Nodes = {1, 2}
    Keys = {k1}
    Values = {a}
    None = None
    Skew <- MCSkew
    Links <- Pair
    MinAge = 3
    Window = 1
    MaxNow = 4
    MaxTs = 4
    MaxNet = 1
INVARIANTS
    HTypeOK
    VersionsIdentifyWrites
    MergeIsJoin
    NoResurrection
PROPERTIES
    ImplementsLWWRegister
