CONSTANTS
    N = 3
    MaxEdits = 2
    MaxApps = 2
    Stops = TRUE
SPECIFICATION Spec
INVARIANTS EffectIsAnnounced
PROPERTIES VerdictIsWhole EditsSurvive
CHECK_DEADLOCK FALSE
