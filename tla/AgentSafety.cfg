SPECIFICATION Spec
CONSTANTS
    Threads = {t1, t2}
    Ids = {i1, i2, i3}
    NumWorkers = 2
    Calls = 3
    LinkBound = 1
    MaxHeld = 1
    MaxDrift = 1
    Serial = TRUE
SYMMETRY Symmetry
INVARIANTS  TasksInOrder ClosedOnce
PROPERTY NearLeastUsed
CHECK_DEADLOCK FALSE
