CONSTANTS
    k1 = k1
    k2 = k2
    Key <- TwoKeys
    DelLists <- SingleDels
    Text = {}
    Nil = Nil
    MaxInt = 1
    Ttl = {0, 1}
    MaxKeys = 2
    MemoryLimit = TRUE
    MaxEvictions = 1
    SampleSize = 1
    MaxTime = 1
    MaxOps = 3
    BatchSize = 1
    EvictAfterArchive = TRUE
SPECIFICATION ColdSpec
PROPERTIES
    CallsReturn
    ArchivedFirst
    ExpiredReclaimed
CHECK_DEADLOCK FALSE
