\* A test notification meets the poll.
SPECIFICATION Spec
CONSTANTS
    Notification = {n1, t1}
    Test = {t1}
    NoNotification = NoNotification
    LocalItem = LocalItem
    MacOS = FALSE
    PollLimit = 2
    MaxItems = 3
    MaxLocal = 0
    MaxLost = 0
    MaxResets = 0
INVARIANTS
    TestShownOnce
CHECK_DEADLOCK FALSE
