SPECIFICATION Spec
CONSTANTS
    Nodes = {1, 2, 3}
    Keys <- MCKeys
    Values <- MCValues
    UserValues <- MCUserValues
    a = a
    b = b
    None = None
    TTLs = {1}
    Starts <- MCStarts
CHECK_DEADLOCK FALSE
INVARIANTS
    TypeOK
    QuorumReads
    IndexAgrees
    PutsLast
