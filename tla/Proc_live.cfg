\* Two worker processes, overlapping requests, fair threads and restarts, no
\* transient exception.
CONSTANTS
    Notes = {n1}
    Contents = {c1}
    Jobs = {j1}
    Workers = {w1, w2}
    None = None
    Overlap = TRUE
    MaxEdits = 1
    MaxCrashes = 1
    MaxFaults = 0
    MaxAdmin = 0
SPECIFICATION FairSpec
INVARIANTS NoStrandedJob
PROPERTIES EveryJobSettles CompletedIsFinal
CHECK_DEADLOCK FALSE
