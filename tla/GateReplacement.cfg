SPECIFICATION HistorySpec
CONSTANTS
    r1 = r1
    r2 = r2
    j1 = j1
    j2 = j2
    None = None
    Runs = {r1, r2}
    Jobs = {j1}
    Workers = {w1}
    CancelInProgress = {}
    Age <- MCAge
    MaxIncidents = 1
INVARIANTS ReplacedNeverStarts
CHECK_DEADLOCK FALSE
