SPECIFICATION Spec
CONSTANTS
    p1 = p1  i1 = i1  w1 = w1
    Projects = {p1}
    Files = {f1}
    Versions = {1}
    Indexers = {i1}
    Watchers = {w1}
    Searchers = {s1}
    Watches <- WatchOne
    Indexed = {p1}
    Commands = {"index", "add", "remove"}
    Faults = TRUE
    NoOne = NoOne
    NoProject = NoProject
INVARIANTS
    StoreInv
    SettledStoresAgree
    CatalogMatchesIndexes
    UndisturbedRemovalLasts
PROPERTIES
    ImplementsLexicalIndex
