SPECIFICATION ControllerSpec
CONSTANTS
    r1 = r1
    r2 = r2
    j1 = j1
    j2 = j2
    None = None
    Runs = {r1, r2}
    Jobs = {}
    Workers = {w1}
    CancelInProgress = {r2}
    Age <- MCAge
    MaxIncidents = 1
PROPERTIES  PreemptorsProceed
CHECK_DEADLOCK FALSE
