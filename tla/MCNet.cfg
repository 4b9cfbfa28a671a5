CONSTANTS
    DescCount = 3
    ArpCap = 2
    QueueCap = 2
    Retries = 2
    OurMac = "ourMac"
    BroadcastMac = "broadcast"
    InvalidMac = "invalid"
    BroadcastIp = 255
    Fallback <- MCFallback
    Peers <- MCPeers
    Scenes <- MCScenes
SPECIFICATION Spec
INVARIANTS RingsInOrder LeaseOurs PingTruthful NewestKept
CHECK_DEADLOCK FALSE
