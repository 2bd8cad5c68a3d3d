SPECIFICATION Spec
CONSTANTS
    Pid = {1, 2, 3}
    NBuckets = 2
    Msg = {m1, m2}
    None = None
    NCPU = 1
INVARIANT NoMessageLost
CHECK_DEADLOCK FALSE
