SPECIFICATION FairSpec
CONSTANTS
    Volumes <- AllVolumes
    JunkEntries <- AfterRoot
    JunkClusters <- Clusters
    Overscan = 1
    MaxCopies = 5
    UINT = 1024
    MaxFds = 2
INVARIANTS TypeOK ReadsInside ChainsCopied SizesKept AllFilesHandled StampsAgree
PROPERTIES ProgramsEnd
CHECK_DEADLOCK FALSE
