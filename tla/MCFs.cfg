SPECIFICATION Spec
CONSTANTS
    Images <- MCImages
    Required <- MCRequired
    ExtPaths <- MCExtPaths
    ListPaths <- MCListPaths
    BootMount <- MCBootMount
    Payloads <- MCPayloads
    Mounts <- MCMounts
    DevTree <- MCDevTree
    Pids <- MCPids
    MaxNodes = 4
    PathMax = 4
    Caps = {2, 5}
    ChunkLen = 1
    WholeMax = 1
INVARIANTS
    PayloadsOwned
    ListingExact
PROPERTIES
    ImplementsTree
CHECK_DEADLOCK FALSE
