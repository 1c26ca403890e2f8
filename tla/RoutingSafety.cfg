SPECIFICATION Spec
CONSTANTS
    Pubs = {p1}
    Subs = {s1, s2}
    w1 = w1
    w2 = w2
    Workers = {w1}
    WorkerOf <- OneWorker
    Addresses = {a1, a2, a3}
    StaleReuse = FALSE
    QueueBound = 2
SYMMETRY Symmetry
INVARIANTS TypeOK DeliveryComplete NoBadEntryUsed AudioSourceIsRoute 
PROPERTY RoutesAsLinked
CHECK_DEADLOCK FALSE
