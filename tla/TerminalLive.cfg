\* One run in its life, with more to say than is held and lines to ask for.
SPECIFICATION FairSpec
CONSTANTS
    MaxRuns = 1
    MaxSays = 3
    MaxReads = 2
    MaxPending = 1
    PollEvery = 2
    Kinds = {"line"}
INVARIANT HeldOutputBounded
PROPERTIES StallEnds StopEndsRun
