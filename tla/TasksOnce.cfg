SPECIFICATION Spec
CONSTANTS
    Nodes = {1, 2, 3}
    None = None
    Skew <- NoSkew
    Links <- AllLinks
    TaskIds = {t1}
    Workers = {1, 2}
    Load <- FirstBusy
    Grace = 3
    Sync = TRUE
    Mortal = {3}
    MaxNow = 6
    MaxTs = 12
INVARIANTS
    TypeOK
    AtMostOnce
