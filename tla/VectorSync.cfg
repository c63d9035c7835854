SPECIFICATION FairSpec
CONSTANTS
    Files = {f1, f2}
    Spans = {s1}
    Texts = {a, b}
    Keys = {k1, k2, k3}
    ServerKey = k1
    UiKey = k2
    UiTasks = {u1}
    MaxEdits = 2
    NoFile = NoFile
    NoChunk = NoChunk
    NoIndex = NoIndex
    Contents <- MCContents
    f1 = f1
    f2 = f2
    s1 = s1
    a = a
    b = b
INVARIANTS
    StoredChunksHaveVectors
    ClearLeavesNothingNew
PROPERTIES
    StoredGetsVector
