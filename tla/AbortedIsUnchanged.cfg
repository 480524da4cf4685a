CONSTANTS
    N = 2
    MaxVersion = 2
    MaxTxns = 2
    MaxFaults = 2
    MaxCrashes = 1
SPECIFICATION Spec
PROPERTIES AbortedIsUnchanged
CHECK_DEADLOCK FALSE
