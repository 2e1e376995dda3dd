SPECIFICATION Spec
CONSTANTS
    r1 = r1
    r2 = r2
    j1 = j1
    j2 = j2
    None = None
    Runs = {r1}
    Jobs = {j1}
    Workers = {w1, w2}
    CancelInProgress = {j1}
    Age <- MCAge
    MaxIncidents = 2
INVARIANTS MutualExclusion
PROPERTIES HandoverAfterStop
SYMMETRY WorkerSymmetry
CHECK_DEADLOCK FALSE
