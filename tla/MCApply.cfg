SPECIFICATION FairSpec
CONSTANTS
    l1 = l1
    l2 = l2
    l3 = l3
    long = long
    short = short
    Client = {p1, p2}
    Image = {long, short}
    Digest = {l1, l2, l3}
    Layers <- LayersDeep
    Config = {long, short}
    ConfigOf <- ConfigOwn
    Unique = {u1, u2}
    ContainerID = {c1}
    Torn = Torn
    ImageOf <- OneLong
    MaxFaults = 2
INVARIANTS
    ApplyInv
    NotFoundOnlyAfterEnd
    SuccessMeansPresent
PROPERTIES
    ImplementsChainStore
    Terminates
    LeftoversCollected
