CONSTANTS
    k1 = k1
    k2 = k2
    k3 = k3
    Key <- MCKeys
    DelLists <- MCDelLists
    Text = {txt}
    Nil = Nil
    MaxInt = 1
    Ttl = {0, 1}
    MaxKeys = 2
    MemoryLimit = FALSE
    MaxEvictions = 2
    SampleSize = 2
    MaxTime = 2
    MaxOps = 4
SPECIFICATION Spec
INVARIANTS
    TypeOK
    ListMatchesMap
    ExpiryIndexExact
    RecencyOrder
    LimitsKept
PROPERTIES
    ImplementsCache
SYMMETRY KeySymmetry
CHECK_DEADLOCK FALSE
