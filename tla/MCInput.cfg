SPECIFICATION Spec
CONSTANTS
    Sessions <- MCSessions
    Ttys <- MCTtys
    WmTty = 1
    Cap = 2
    Rules <- MCRules
    Installed <- MCInstalled
    Offered <- MCOffered
    MethodMax = 3
    CompMax = 4
    CandMax = 4
    PageSize = 2
    PartsMax = 3
    SyllMax = 2
    AltMax = 1
    Width = 3
    MouseBytes <- MCMouseBytes
    MaxHeld = 3
    MaxEvents = 4
INVARIANTS
    RingHoldsUnread
    HotKeys
    CandidatesMatch
    MouseInitSafe
CHECK_DEADLOCK FALSE
