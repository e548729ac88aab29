CONSTANTS
    Thread = {t1, t2, t3}
    Spinner = {t3}
    LockCount = 3
    Requests <- MCRequests
SPECIFICATION FairLockSpec
INVARIANTS
    MutualExclusion
    NoLostWakeup
PROPERTIES
    SomebodyEnters
CHECK_DEADLOCK FALSE
