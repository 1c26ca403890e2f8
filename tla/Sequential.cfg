SPECIFICATION Spec
CONSTANTS
    Modules = {m1, m2}
    Intervals = {0, 1, 2}
    MaxWait = 1
    QueueBound = 2
    Ms = 2
    Period = 5
    MaxLate = 3
    MaxRun = 2
    MaxNow = 40
    MaxLen = 7
    Payloads <- Frames
    Base = 8
    kSeqNoStep = 3
    PTs = {1, 2, 3, 4}
    Profiles = {"42e01f", "42001f"}
    H264_90000_PT = 3
    RED_90000_PT = 2
    MaxFormats = 3
INVARIANTS
    OneProcess WakeUpPending
    NeverAhead NoDrift
    NeverMissing FragsAreNalus
    TypesTypeOK AnswersPreferred ReceivedAsH264 SentAsH264
PROPERTIES
    EveryModuleProcessed
    
    Terminates
     
CHECK_DEADLOCK FALSE
