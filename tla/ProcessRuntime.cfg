CONSTANTS
    Inherits = FALSE
    Forks = TRUE
SPECIFICATION FairSpec
INVARIANTS TreeIsContained SuccessIsWhole
PROPERTIES Returns
CHECK_DEADLOCK FALSE
