CONSTANTS
    Client = {c1, c2}
    Policies = {"always", "everysec", "no"}
    Faults = {FALSE, TRUE}
    PowerCuts = {FALSE, TRUE}
    MaxId = 3
    MaxCrashes = 2
SPECIFICATION FairSpec
INVARIANTS
    LogExact
PROPERTIES
    RecoversPrefix
    WaitedSurvives
    LoggerProgresses
CHECK_DEADLOCK FALSE
