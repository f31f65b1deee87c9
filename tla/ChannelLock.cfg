SPECIFICATION FairSpec
CONSTANTS
    Senders = {s1, s2}
    Rx = rx
    Nobody = nobody
    MaxSends = 2
    Refusals = {"eventfd", "epoll_ctl", "write"}
CHECK_DEADLOCK FALSE
INVARIANTS
    LockProtocol
    NoWriteAfterClose
PROPERTIES
    FailedTasksEnd
    SendsReturn
