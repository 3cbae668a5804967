SPECIFICATION AEFairSpec
CONSTANTS
    Nodes = {1, 2}
    Keys = {k1, k2}
    Values = {a}
    None = None
    Skew <- MCNoSkew
    Links <- Pair
    MinAge = 1
    Window = 0
    MaxNow = 2
    MaxTs = 2
    MaxNet = 1
    Buckets = {0, 1}
    BucketOf <- MCBucketOf
    MaxAE = 0
    MaxTsBoth = 1
    MaxLost = 1
PROPERTIES
    Convergence
