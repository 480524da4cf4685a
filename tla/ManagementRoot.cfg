SPECIFICATION Spec
CONSTANTS
    Projects = {p1}
    MaxGeneration = 3
    MaxPlans = 2
    MaxStops = 3
    MaxFaults = 1
INVARIANTS
    ActiveIsWhole
    CompletedIsWhole
    ReceiptIsTrue
    ActivatedOnce
PROPERTY ReplacesWhatWasPlanned
CHECK_DEADLOCK FALSE
