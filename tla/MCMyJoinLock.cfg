SPECIFICATION Spec
CONSTANTS
    Task = {t1, t2, t3}
    NoTask = NoTask
    InitAlive = {t1, t2, t3}
    PiOwners = {}
    NCPU = 1
INVARIANT ExitHoldsNoLock
CHECK_DEADLOCK FALSE
