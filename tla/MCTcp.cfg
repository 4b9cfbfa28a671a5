CONSTANTS
    SeqMod = 32
    LenMod = 3
    IoMax = 3
    RecvCap = 1
    Window = 1
    MaxSegment = 1
    Port = {1, 2}
    PeerIss <- OnePeerIss
    SpaceMax = 4
    Reads = {1}
    Scenes <- MCScenes
SPECIFICATION FairSpec
INVARIANTS ConnectionSound StreamRead SentArrived
PROPERTY CallsReturn
CHECK_DEADLOCK FALSE
