CONSTANTS
    PtyMax = 1
    Size = 2
    FdMax = 3
    Byte = {b1, b2}
    Procs = {p1, p2}
    First = p1
    Sources <- StdioSources
    MaxId = 2
SPECIFICATION Spec
INVARIANTS
    RefCountsExact
PROPERTIES
    ImplementsChannels
