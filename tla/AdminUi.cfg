SPECIFICATION FairSpec
CONSTANTS
    p1 = p1  p2 = p2  c1 = c1  c2 = c2
    Projects = {p1, p2}
    Clicks = {c1, c2}
    Offers <- TwoHands
    MaxOutside = 1
    Before = p1
    Repeated <- OneOfEach
    Asked <- OneOfP2
    NoProject = NoProject
    Torn = Torn
    NoClick = NoClick
INVARIANTS
    UndisturbedAnswersAgree
    PageShowsLastSearch
    CountMeansStored
PROPERTIES
    PageFollows
CHECK_DEADLOCK FALSE
