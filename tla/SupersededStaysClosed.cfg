SPECIFICATION Spec
CONSTANTS
    Projects = {p1}
    MaxGeneration = 3
    MaxPlans = 1
    MaxStops = 3
    MaxFaults = 1
PROPERTY SupersededStaysClosed
CHECK_DEADLOCK FALSE
