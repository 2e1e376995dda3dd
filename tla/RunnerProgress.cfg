SPECIFICATION FairSpec
CONSTANTS
    r1 = r1  r2 = r2  j1 = j1  j2 = j2  None = None
    Runners = {r1}
    Jobs = {j1}
    Order <- Tied
    MaxParallel = 0
    FailFast = FALSE
    MaxIncidents = 3
    MaxLostReplies = 0
PROPERTIES AssignedFinish
CHECK_DEADLOCK FALSE
