\* Two consoles: two calls each, their answers cut into bufferfuls; or three questions
\* and two commands.
SPECIFICATION FairSpec
CONSTANTS
    Consoles = {"c1", "c2"}
    Terminals = {"t1", "t2"}
    Sizes = {1, 5}
    Capacity = 2
    MaxAsks = 2
    MaxQuestions = 3
    MaxRuns = 2
INVARIANTS AllInPlace
PROPERTIES RpcSpec CallsReturn AskingSpec QuestionsAreAnswered
CHECK_DEADLOCK FALSE
