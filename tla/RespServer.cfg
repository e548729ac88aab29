CONSTANTS
    c1 = c1
    c2 = c2
    Conn <- MCConn
    Chunks <- MCChunks
    MaxSent <- MCMaxSent
    HighWater = 2
    Logs = {"none", "open"}
    Listeners = {TRUE, FALSE}
    ClientErrors = TRUE
SPECIFICATION FairSpec
INVARIANTS
    InOrder
    PauseEnds
    HeardErrorsContained
PROPERTIES
    StoppedIsQuiet
    RequestsAnswered
    EndsReached
CHECK_DEADLOCK FALSE
