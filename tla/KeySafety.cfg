SPECIFICATION LiveSpec
CONSTANTS
    Pubs = {p1}
    Subs = {s1, s2}
    MaxLinks = 1
    Numbers = 3
    TaskBound = 1
INVARIANTS  RequestsCoalesced
PROPERTY LinkedGetsKeyFrame
