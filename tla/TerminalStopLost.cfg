SPECIFICATION FairSpec
CONSTANTS
    MaxRuns = 1
    MaxSays = 1
    MaxReads = 1
    MaxPending = 2
    PollEvery = 3
    Kinds = {"line"}
PROPERTIES EveryStopEndsRun
