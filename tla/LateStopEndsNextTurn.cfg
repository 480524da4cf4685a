CONSTANTS
    i1 = i1
    i2 = i2
    t1 = t1
    t2 = t2
    Instances = {i1}
    Tasks = {t1}
    InstanceOf <- OneInstance
    Owned = {i1}
    Activities = {"tool"}
    None = None
    Grace = 2
    Ordered = FALSE
    LateEvents = TRUE
    CounterMax = 2
    MaxTurns = 2
    MaxOpen = 1
    MaxInFlight = 2
SPECIFICATION Spec
PROPERTY TurnKeepsControllerAlive
