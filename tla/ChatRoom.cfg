SPECIFICATION FairSpec
CONSTANTS
    Says = {q1}
    Others = {o1, o2}
    Scripted = {o1}
    Backlog = 2
    MaxFetch = 1
    Limit = 1
    MaxServing = 2
    MaxInserting = 2
    MaxClosed = 1
INVARIANTS LinesAreKept RateBounded
PROPERTY LinesAreShown
CHECK_DEADLOCK FALSE
