SPECIFICATION Spec
CONSTANTS
    MemMaps <- MCMemMaps
    PageSize = 2
    MinUsable = 2
    MaxTracked = 6
    Procs = {p1, p2}
    Entries = 2
    NPages = 3
    AreaMax = 2
SYMMETRY MCSymmetry
INVARIANTS
    NoFrameReused
    NoFrameLost
    MappingsFresh
CHECK_DEADLOCK FALSE
