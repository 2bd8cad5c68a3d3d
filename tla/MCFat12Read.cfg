SPECIFICATION FairSpec
CONSTANTS
    Images <- ReadImages
    BootSize = 4
    GarbageBytes <- Bytes
    GarbageEntries <- Entries
INVARIANTS RootAligned ArraysInBounds TableDecoded RootRead FreeIsValid
PROPERTIES ReadEnds
CHECK_DEADLOCK FALSE
