SPECIFICATION Spec
CONSTANTS
    Images <- OddImages
    BootSize = 4
    GarbageBytes <- Bytes
    GarbageEntries <- Entries
INVARIANTS RootFollowsCopies
CHECK_DEADLOCK FALSE
