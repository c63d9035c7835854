SPECIFICATION Spec
CONSTANTS
    r1 = r1  r2 = r2  q1 = q1  q2 = q2  v1 = v1
    Projects = {p1, p2}
    Queries = {q1, q2}
    Requests = {r1, r2}
    Revisions = {v1}
    Matches <- AllMatch
    Capacity = 2
    MaxLatencies = 2
    NoProject = NoProject
    NoQuery = NoQuery
    NoIndex = NoIndex
INVARIANTS
    AnswersInScope
    SearchesAreCurrent
    SearchInv
SYMMETRY Indistinct
