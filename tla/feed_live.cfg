SPECIFICATION FairSpec
CONSTANTS
    QueueSize = 3
    Page = 3
    MaxRows = 2
    MaxResets = 0
    MaxFaults = 1
    MaxRefreshes = 1
    MaxOlder = 0
    Unread = Unread
    None = None
CHECK_DEADLOCK FALSE
INVARIANT
    TimelineIsComplete
PROPERTY
    CatchesUp
