SPECIFICATION FairSpec
CONSTANTS
    Offers <- MCOffers
    MaxCandidates = 0
    MaxPackets = 0
    MaxWrites = 0
PROPERTY IceStateMonotone
CHECK_DEADLOCK FALSE
