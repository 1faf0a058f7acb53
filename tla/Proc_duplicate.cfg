\* Two process-note requests for one note version in flight together.
CONSTANTS
    Notes = {n1}
    Contents = {c1}
    Jobs = {j1, j2}
    Workers = {w1}
    None = None
    Overlap = TRUE
    MaxEdits = 2
    MaxCrashes = 0
    MaxFaults = 0
    MaxAdmin = 0
SPECIFICATION Spec
INVARIANTS OneUsableJob
CHECK_DEADLOCK FALSE
