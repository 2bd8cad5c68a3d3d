SPECIFICATION FairSpec
CONSTANTS
    Pid = {1, 2, 3}
    NBuckets = 2
    Msg = {m1, m2}
    None = None
    NCPU = 2
INVARIANTS ListDebugSilent ReceiverOwns ListsReachLive
PROPERTIES SlotsSpec LockReleased
CHECK_DEADLOCK FALSE
