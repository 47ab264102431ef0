SPECIFICATION Spec
CONSTANTS
    QueueSize = 1
    Page = 1
    MaxRows = 2
    MaxResets = 1
    MaxFaults = 1
    MaxRefreshes = 0
    MaxOlder = 1
    Unread = Unread
    None = None
CHECK_DEADLOCK FALSE
INVARIANTS
    TypeOK
    GapIsAnnounced
PROPERTIES
    LiveNeverGoesBack
    NoRowErased
