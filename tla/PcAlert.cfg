SPECIFICATION Spec
CONSTANTS
    Offers <- MCOffers
    MaxCandidates = 0
    MaxPackets = 2
    MaxWrites = 0
INVARIANT AlertsPropagated
CHECK_DEADLOCK FALSE
