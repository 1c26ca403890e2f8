SPECIFICATION Spec
CONSTANTS
    Pubs = {p1}
    Subs = {s1, s2}
    w1 = w1
    w2 = w2
    Workers = {w1, w2}
    WorkerOf <- TwoWorkers
    Addresses = {a1, a2, a3}
    StaleReuse = FALSE
    QueueBound = 2
SYMMETRY Symmetry
INVARIANT FreedOnItsWorker
CHECK_DEADLOCK FALSE
