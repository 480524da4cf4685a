CONSTANTS
    Packages = {p1}
    Release = {}
    Ops = {o1}
    MaxVersion = 1
    MaxFaults = 1
    MaxStops = 0
    Renames = FALSE
    None = None
SPECIFICATION Spec
INVARIANTS GrantIsDurable
CHECK_DEADLOCK FALSE
