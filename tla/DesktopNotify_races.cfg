\* A planned notification and a test, an inbox of one item, a lost request, a reset.
SPECIFICATION FairSpec
CONSTANTS
    Notification = {n1, t1}
    Test = {t1}
    NoNotification = NoNotification
    LocalItem = LocalItem
    MacOS = TRUE
    PollLimit = 2
    MaxItems = 1
    MaxLocal = 1
    MaxLost = 1
    MaxResets = 1
INVARIANTS
    TypeOK
    DisplayedOnce
    DeliveredWasShown
PROPERTIES
    OldIdentityNotShown
    PendingIsSettled
    ImplementsContract
CHECK_DEADLOCK FALSE
