SPECIFICATION FairSpec
CONSTANTS
    noEvent = noEvent
    NoEvent <- noEvent
    Sources <- MCSources
    SockInfo <- MCSockInfo
    Other <- MCOther
    MaxBytes = 3
    UintSize = 8
    MaxOther = 1
CHECK_DEADLOCK FALSE
INVARIANTS
    EventsInOrder
    StreamClosedMeansDrained
    ClosedSocketIsSilent
    ExactReadsReturn
PROPERTIES
    ConnectIsAnswered
    InputIsNoticed
