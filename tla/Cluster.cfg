CONSTANTS
    k1 = k1
    k3 = k3
    Client = {c1, c2}
    ShardCount = 2
    Key <- TwoKeys
    KeyHash <- MCKeyHash
    VnodeHashes <- MCVnodeHashes
    DelLists <- TwoKeyDels
    SetValues = {0}
    SampleLimit = 1
    MaxInt = 1
    Limited = FALSE
    Mortal = {1}
SPECIFICATION FairSpec
INVARIANTS
    Consistent
    FanOutWhole
PROPERTIES
    ImplementsStore
    CallsAnswered
CHECK_DEADLOCK FALSE
