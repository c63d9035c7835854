SPECIFICATION FilesSpec
CONSTANTS
    a = a  mid = mid  sl = sl  cr = cr  nl = nl
    i1 = i1  i2 = i2  gone = gone
    Bytes = {a, mid, sl, cr, nl}
    Newline = nl
    Return = cr
    Comment = sl
    MaxLen = 3
    Inner = mid
    NewTexts <- MCNewTexts
    MaxNodes = 3
    Ids = {i1, i2, gone}
    Chunks <- TwoSharing
    Queries = {"parse", "dates"}
    MaxListed = 3
    MaxTopK = 2
    RerankTopN = 2
INVARIANTS
    SpanIsTheChange
    PointsFitSpan
    WalkFindsCandidates
    ChunksTakeTheirComments
    ResultsAreThoseNamed
    FusionRespectsBothLists
CHECK_DEADLOCK FALSE
