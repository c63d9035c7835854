SPECIFICATION FairSpec
CONSTANTS
    p1 = p1  t1 = t1  t2 = t2
    Projects = {p1}
    Tasks = {t1, t2}
    Subscribers = {c1}
    Capacity = 1
    MaxPaths = 2
    MaxFaults = 1
    NoProject = NoProject
INVARIANTS
    StatusTracksWatcher
    IdleReportsNoBacklog
    WatchersInv
PROPERTIES
    ListedGetsWatched
    ShutdownEnds
CHECK_DEADLOCK FALSE
