SPECIFICATION Spec
CONSTANTS
    r1 = r1  r2 = r2  j1 = j1  j2 = j2  None = None
    Runners = {r1, r2}
    Jobs = {j1, j2}
    Order <- Tied
    MaxParallel = 1
    FailFast = TRUE
    MaxIncidents = 1
    MaxLostReplies = 1
SYMMETRY Symmetry
INVARIANTS MaxParallelRespected
 
