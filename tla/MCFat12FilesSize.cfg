SPECIFICATION Spec
CONSTANTS
    Volumes <- MultipleVolumes
    JunkEntries <- AfterRoot
    JunkClusters <- Clusters
    Overscan = 1
    MaxCopies = 5
    UINT = 1024
    MaxFds = 2
INVARIANTS FilesComplete
CHECK_DEADLOCK FALSE
