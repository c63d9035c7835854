SPECIFICATION FairSpec
CONSTANTS
    p1 = p1  i1 = i1  w1 = w1
    Projects = {p1}
    Files = {f1, f2}
    Versions = {1}
    Indexers = {i1}
    Watchers = {w1}
    Searchers = {}
    Watches <- WatchOne
    Indexed = {p1}
    Commands = {"clear"}
    Faults = FALSE
    NoOne = NoOne
    NoProject = NoProject
PROPERTIES
    StoredIndexCatchesUp
