CONSTANTS
    MaxTasks = 8
    Delays = {0, 1}
    SetStates = {"READY", "BLOCKED", "ZOMBIE"}
    KernelTasks = 3
    Scenes <- MCScenes
SPECIFICATION FairSpec
INVARIANTS
    DispatchSafe
PROPERTIES
    NoEarlyWake
    NoStarvation
