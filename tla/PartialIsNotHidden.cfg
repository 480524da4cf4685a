CONSTANTS
    N = 2
    MaxEdits = 0
    MaxApps = 2
    Stops = FALSE
SPECIFICATION Spec
INVARIANT PartialIsNotHidden
CHECK_DEADLOCK FALSE
