\* One worker, which may crash once, and a batch of two targets.
SPECIFICATION FairSpec
CONSTANTS
    Notification = {n1}
    Subscription = {p1, p2}
    Session = {s1}
    Worker = {w1}
    Token = {t1, t2, t3}
    NoToken = NoToken
    BatchLimit = 2
    LeaseTicks = 1
    MaxAttempts = 2
    MaxAge = 1
    MaxCrashes = 1
    Backoff <- BackoffTable
VIEW WithoutHistory
PROPERTIES
    QueuedIsSettled
