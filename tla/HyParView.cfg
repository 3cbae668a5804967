SPECIFICATION FairSpec
CONSTANTS
    Nodes = {1, 2, 3, 4}
    Starts <- MCStarts
    Newcomers = {4}
    ARWL = 1
    PRWL = 1
    ShuffleTTL = 2
    SampleSize = 4
    MaxWire = 0
INVARIANTS
    TypeOK
    ViewsBounded
PROPERTIES
    ContactsAreKept
    LinksAreRepaired
