SPECIFICATION Spec
CONSTANTS
    QueueSize = 1
    Page = 3
    MaxRows = 3
    MaxResets = 0
    MaxFaults = 0
    MaxRefreshes = 0
    MaxOlder = 0
    Unread = Unread
    None = None
CHECK_DEADLOCK FALSE
INVARIANT
    TimelineIsComplete
