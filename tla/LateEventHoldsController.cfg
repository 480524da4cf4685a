CONSTANTS
    i1 = i1
    i2 = i2
    t1 = t1
    t2 = t2
    Instances = {i1}
    Tasks = {t1}
    InstanceOf <- OneInstance
    Owned = {i1}
    Activities = {"tool"}
    None = None
    Grace = 2
    Ordered = TRUE
    LateEvents = TRUE
    CounterMax = 2
    MaxTurns = 1
    MaxOpen = 1
    MaxInFlight = 1
SPECIFICATION FairSpec
PROPERTY CodexGoneStopsController
