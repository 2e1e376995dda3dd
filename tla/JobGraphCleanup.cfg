SPECIFICATION FairSpec
CONSTANTS
    Workflows <- OnlyCleanup
    MaxFaults = 1
PROPERTIES CancelledRunEnds
CHECK_DEADLOCK FALSE
