\* An edit, then the workspace renders.
CONSTANT MaxEdits = 2
SPECIFICATION Spec
INVARIANTS EditIsPending
CHECK_DEADLOCK FALSE
