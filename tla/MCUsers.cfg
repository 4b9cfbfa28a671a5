SPECIFICATION Spec
CONSTANTS
    Names <- MCNames
    Root <- r
    Passwords = {"x", "y"}
    Procs = {p1, p2}
    Apps = {"app1", "app2"}
    Scenarios <- MCScenarios
    DbMax = 16
    AppsMax = 1
    MaxRules = 3
    MaxKeys = 1
    Paths <- MCPaths
    Lower <- MCLower
    NoFile = NoFile
    Nobody = Nobody
SYMMETRY MCSymmetry
INVARIANTS
    
    
    SessionExact

    
CHECK_DEADLOCK FALSE
