CONSTANTS
    Packages = {p1}
    Release = {p1}
    Ops = {o1}
    MaxVersion = 1
    MaxFaults = 0
    MaxStops = 0
    Renames = FALSE
    None = None
SPECIFICATION Spec
PROPERTIES RevokedNeverStarts
CHECK_DEADLOCK FALSE
