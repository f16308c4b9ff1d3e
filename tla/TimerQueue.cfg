SPECIFICATION FairSpec
CONSTANTS
    NaN = NaN
    Delays <- MCDelays
    MaxTimers = 3
    MaxTime = 4
    MaxBacks = 1
INVARIANTS SortedFifo NoneLost
PROPERTIES ImplementsService EventuallyRuns
CHECK_DEADLOCK FALSE
