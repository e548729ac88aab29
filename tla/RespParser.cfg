CONSTANTS
    Byte <- MCByte
    Unwritten = "unwritten"
    CR = "CR"
    LF = "LF"
    initialCapacity = 4
    maxCapacity = 20
    Streams <- MCStreams
    LaterStreams <- MCLaterStreams
    maxInlineLength = 6
    maxBulkLength = 3
    maxArrayDepth = 2
    MaxResets = 1
SPECIFICATION FairSpec
INVARIANTS
    UnreadExact
    ReturnsExact
    OffsetsExact
PROPERTIES
    ExecuteReturns
CHECK_DEADLOCK FALSE
