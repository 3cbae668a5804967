SPECIFICATION FairSpec
CONSTANTS
    Nodes = {1, 2, 3}
    Mids = {1, 2}
    Starts <- MCStarts
    GraftTimeout = 1
    CacheCap = 2
CHECK_DEADLOCK FALSE
INVARIANTS
    TypeOK
    EagerTree
PROPERTIES
    Broadcasts
