CONSTANTS
    Client = {c1, c2}
    Policies = {"always"}
    Faults = {FALSE}
    PowerCuts = {TRUE}
    MaxId = 3
    MaxCrashes = 1
SPECIFICATION Spec
PROPERTIES
    AckedSurvives
CHECK_DEADLOCK FALSE
