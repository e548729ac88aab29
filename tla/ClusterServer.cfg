CONSTANTS
    c1 = c1
    v1 = v1
    Casts <- MCCasts
    Mortal = {1}
    Client = {c1}
    Viewer = {v1}
    api = api
    traffic = traffic
    ShardCount = 2
    HistoryLength = 1
    TrafficBatch = 2
    MaxTicks = 2
    MaxCommands = 2
    Chunks <- MCChunks
    MaxSent = 3
SPECIFICATION ServerSpec
INVARIANTS
    CountsPartition
    SnapshotsInOrder
    RepliesInOrder
PROPERTIES
    CallsSettle
    StopReturns
CHECK_DEADLOCK FALSE
