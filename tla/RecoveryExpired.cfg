CONSTANTS
    Key = {k1, k2}
    Text = {txt}
    DelLists <- MCDelLists
    MaxKeys = 0
    MemoryLimit = FALSE
    MaxInt = 2
    MaxTime = 2
    MaxLog = 3
    Ttl = {0, 1}
SPECIFICATION Spec
INVARIANTS
    RestoresExact
CHECK_DEADLOCK FALSE
