SPECIFICATION Spec
CONSTANTS
    ClusterCount = 5
    ClusterBytes = 3
    EntriesPerCluster = 3
    LongNames <- Long
    MaxDepth = 2
    FilePaths <- TwoFiles
    DirPaths <- Dirs
    Sizes = {0, 2}
    RawSectors = {3}
    MaxFileSize = 4
    MaxFaults = 1
    MaxReboots = 1
    MaxCalls = 3
    CacheSlots = 1
    CacheFileBytes = 3
    CacheTotalBytes = 3
INVARIANTS VolumeSound CachesCoherent ContentsKept FsckExact
