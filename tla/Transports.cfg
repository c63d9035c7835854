SPECIFICATION FairSpec
CONSTANTS
    web = web
    socket = socket
    stdin = stdin
    Conns = {web, socket, stdin}
    Kind <- KindOf
    Streams = {s1}
    TokenSet = TRUE
    Lines = {"ignored", "garbled", "initialize", "search", "callSearch", "open"}
    MaxOpen = 1
    MaxLines = 2
    MaxItems = 2
INVARIANTS
    AnswersFitLines
    InputIsDrained
    StreamsTellAll
PROPERTIES
    LinesAreServed
    StreamsEnd
CHECK_DEADLOCK FALSE
