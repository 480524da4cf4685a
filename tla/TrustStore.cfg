CONSTANTS
    Packages = {p1}
    Release = {}
    Ops = {o1}
    MaxVersion = 2
    MaxFaults = 2
    MaxStops = 2
    Renames = FALSE
    None = None
SPECIFICATION FairSpec
PROPERTIES StartsOnlyWhatWasAllowed RevokeEndsRunning
CHECK_DEADLOCK FALSE
