SPECIFICATION FairSpec
CONSTANTS
    Proc = {p1, p2, p3}
    Consumers = {}
    Posters = {}
    InitPermits = 1
    Free = Free
    MaxPermits = 2
INVARIANTS QueueConsistent NoLostWakeup Mutex
PROPERTIES CountingSpec PermitIsTaken
