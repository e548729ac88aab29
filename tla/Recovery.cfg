CONSTANTS
    Key = {k1, k2, k3}
    Text = {txt}
    DelLists <- MCDelLists
    MaxKeys = 2
    MemoryLimit = FALSE
    MaxInt = 1
    MaxTime = 2
    MaxLog = 3
    Ttl = {0, 1, 2}
SPECIFICATION Spec
INVARIANTS
    RestartKeeps
CHECK_DEADLOCK FALSE
