CONSTANTS
    MaxProcs = 2
    Depths = {1, 2}
    MaxPid = 3
SPECIFICATION FairSpec
INVARIANTS
    StackMatchesTable
    AlwaysSuspendable
    ResourcesLive
PROPERTIES
    ExitIsFinal
    EveryoneDispatched
