SPECIFICATION SwitchSpec
CONSTANTS
    Pubs = {p1, p2}
    Subs = {s1}
    MaxLinks = 2
    Numbers = 2
    TaskBound = 1
INVARIANT OffsetOfStream
