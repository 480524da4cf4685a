CONSTANTS
    Packages = {p1}
    Release = {}
    Ops = {o1}
    MaxVersion = 2
    MaxFaults = 0
    MaxStops = 0
    Renames = TRUE
    None = None
SPECIFICATION Spec
INVARIANTS RevokeReachesRunning
CHECK_DEADLOCK FALSE
