SPECIFICATION FairSpec
CONSTANTS
    h1 = h1
    h2 = h2
    h3 = h3
    noEvent = noEvent
    Handles <- MCHandles
    Sources <- MCSources
    RxInfo <- MCRxInfo
    NoEvent <- noEvent
    MaxSent = 4
    PromptClient = FALSE
CHECK_DEADLOCK FALSE
INVARIANTS
    NoLostWakeup
    OneNotificationAtATime
    AnnouncementsExact
    ClosedComesLast
    NotificationProtocol
PROPERTIES
    FifoSpec
    BlockedRecvReturns
    DisconnectionAnnounced
