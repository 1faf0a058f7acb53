\* One worker process and a client that waits for each answer.
CONSTANTS
    Notes = {n1}
    Contents = {c1, c2}
    Jobs = {j1, j2}
    Workers = {w1}
    None = None
    Overlap = FALSE
    MaxEdits = 3
    MaxCrashes = 1
    MaxFaults = 1
    MaxAdmin = 1
SPECIFICATION Spec
CONSTRAINT FourEvents
SYMMETRY Symmetric
INVARIANTS TypeOK OneUsableJob
PROPERTIES TerminalIsFinal JobStoreSpec ForgottenStaysForgotten
CHECK_DEADLOCK FALSE
