CONSTANTS
    HeaderSize = 5
    FreeField = {1}
    MagicField = {4}
    Align = 2
    ArenaSize = 32
    WordSize = 64
    Requests = {0, 1, 3, 6, 63}
    MaxCalls = 4
SPECIFICATION Spec
INVARIANTS
    ListSound
    StaleHeadersFree
    UsedBytesExact
    BufferLargeEnough
