SPECIFICATION FairSpec
CONSTANTS
    noEvent = noEvent
    NoEvent <- noEvent
    Sources <- MCSources
    TimerInfo <- MCTimerInfo
    Other <- MCOther
    Intervals <- MCIntervals
    MaxTicks = 3
    MaxOther = 2
CHECK_DEADLOCK FALSE
INVARIANTS
    NoCallRefused
    SilencedMeansInvalid
    NothingPendingInCallback
    ActiveMeansTickToCome
    QueuedTicksAreCurrent
PROPERTY ActiveTimerTicks
