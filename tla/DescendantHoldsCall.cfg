CONSTANTS
    Inherits = TRUE
    Forks = TRUE
SPECIFICATION FairSpec
PROPERTIES CancelEndsTree
CHECK_DEADLOCK FALSE
