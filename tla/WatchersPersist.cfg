SPECIFICATION Spec
CONSTANTS
    p1 = p1  t1 = t1  t2 = t2
    Projects = {p1}
    Tasks = {t1}
    Subscribers = {}
    Capacity = 1
    MaxPaths = 1
    MaxFaults = 0
    NoProject = NoProject
INVARIANTS
    PersistedAfterLoopsStop
CHECK_DEADLOCK FALSE
