SPECIFICATION FairSpec
CONSTANTS
    Task = {t1, t2, t3}
    InitTask = t1
    NoTask = NoTask
    Full = 2
    UINT = 16
    MaxCalls = 1
INVARIANTS TypeOK SliceInRange SwipeMovesTime LivingNotReleased
PROPERTIES TimeIsShared EveryoneRuns
