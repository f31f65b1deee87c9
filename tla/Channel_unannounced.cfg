SPECIFICATION FairSpec
CONSTANTS
    h1 = h1
    h2 = h2
    h3 = h3
    noEvent = noEvent
    Handles <- MCHandles
    Sources <- MCSources
    RxInfo <- MCRxInfo
    NoEvent <- noEvent
    MaxSent = 2
    PromptClient = TRUE
CHECK_DEADLOCK FALSE
PROPERTY EveryMessageAnnounced
