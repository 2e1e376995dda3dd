SPECIFICATION Spec
CONSTANTS
    r1 = r1  r2 = r2  j1 = j1  j2 = j2  None = None
    Runners = {r1}
    Jobs = {j1, j2}
    Order <- Tied
    MaxParallel = 0
    FailFast = FALSE
    MaxIncidents = 1
    MaxLostReplies = 0
SYMMETRY JobSymmetry
INVARIANTS TypeOK AssignmentConsistent SlotExclusive BusyRunnerStays SecretHasCleaner
PROPERTIES NoRestart
CHECK_DEADLOCK FALSE
