\* One PC and two notifications; one restart or lost request.
SPECIFICATION Spec
CONSTANTS
    Notification = {n1, n2}
    Test = {}
    NoNotification = NoNotification
    LocalItem = LocalItem
    MacOS = FALSE
    PollLimit = 2
    MaxItems = 3
    MaxLocal = 0
    MaxLost = 1
    MaxResets = 0
INVARIANTS
    FailedWasNotShown
CHECK_DEADLOCK FALSE
