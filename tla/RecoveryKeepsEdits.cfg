CONSTANTS
    N = 2
    MaxEdits = 1
    MaxApps = 2
    Stops = FALSE
SPECIFICATION Spec
PROPERTY RecoveryKeepsEdits
CHECK_DEADLOCK FALSE
