CONSTANTS
    SeqMod = 32
    LenMod = 3
    IoMax = 3
    RecvCap = 2
    Window = 2
    MaxSegment = 2
    Port = {1, 2}
    PeerIss <- OnePeerIss
    SpaceMax = 5
    Reads = {1}
    Scenes <- FinScenes
SPECIFICATION Spec
INVARIANT FinInOrder
CHECK_DEADLOCK FALSE
