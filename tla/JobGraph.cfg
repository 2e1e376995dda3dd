SPECIFICATION FairSpec
CONSTANTS
    Workflows <- MCWorkflows
    MaxFaults = 1
INVARIANTS NeedsRespected OutcomeJustified
PROPERTIES SettledStays RunCompletes
CHECK_DEADLOCK FALSE
