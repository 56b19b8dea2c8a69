SPECIFICATION Spec
CONSTANTS
    MaxRuns = 2
    MaxSays = 3
    MaxReads = 1
    MaxPending = 2
    PollEvery = 2
    Kinds = {"line", "replace"}
INVARIANTS TypeOK StoppedIsSilent PromptAfterOutput LineReachesItsAsk OnlyTheStoppedRunAborts
