SPECIFICATION FairSpec
CONSTANTS
    Offers <- MCOffers
    MaxCandidates = 1
    MaxPackets = 2
    MaxWrites = 1
INVARIANTS  StatesAgree AgentReleasedOnce
PROPERTIES LifecycleKept QuietAfterFailed AnswerArrives CloseReleases
CHECK_DEADLOCK FALSE
