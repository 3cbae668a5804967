SPECIFICATION FairSpec
CONSTANTS
    Nodes = {1, 2}
    None = None
    Skew <- NoSkew
    Links <- Pair
    TaskIds = {t1}
    Workers = {1, 2}
    Load <- FirstBusy
    Grace = 2
    Sync = FALSE
    Mortal = {}
    MaxNow = 1
    MaxTs = 4
INVARIANTS
    ClaimsSurvive
PROPERTIES
    TaskCompletes
