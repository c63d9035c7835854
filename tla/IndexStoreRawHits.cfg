SPECIFICATION Spec
CONSTANTS
    p1 = p1  i1 = i1  w1 = w1
    Projects = {p1}
    Files = {f1}
    Versions = {1}
    Indexers = {i1}
    Watchers = {}
    Searchers = {s1}
    Watches <- WatchNone
    Indexed = {}
    Commands = {"index"}
    Faults = FALSE
    NoOne = NoOne
    NoProject = NoProject
INVARIANTS
    LexicalHitsResolve
