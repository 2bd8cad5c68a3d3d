SPECIFICATION FairSpec
CONSTANTS
    Task = {t1, t2, t3}
    NoTask = NoTask
    InitAlive = {t1, t2}
    PiOwners = {t2}
    NCPU = 2
INVARIANTS JoinSound JoinersAccounted PointerValid LockDiscipline
PROPERTIES JoinerReleased ExitGetsLock
CHECK_DEADLOCK FALSE
