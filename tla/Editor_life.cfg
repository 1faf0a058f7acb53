\* Two edits; every order of timers, answers, timeouts and renders.
CONSTANT MaxEdits = 2
SPECIFICATION FairSpec
INVARIANTS TypeOK BelievesStored NoDoubleSave OneLoop
PROPERTIES ClosedIsQuiet PollerStops
CHECK_DEADLOCK FALSE
