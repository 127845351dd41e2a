\* Two workers, one delivery and its retries: every race over the leases.
SPECIFICATION Spec
CONSTANTS
    Notification = {n1}
    Subscription = {p1}
    Session = {s1}
    Worker = {w1, w2}
    Token = {t1, t2, t3}
    NoToken = NoToken
    BatchLimit = 2
    LeaseTicks = 2
    MaxAttempts = 3
    MaxAge = 2
    MaxCrashes = 1
    Backoff <- BackoffTable
SYMMETRY Symmetry
INVARIANTS
    TypeOK
    LeaseKeepsSnapshot
    AttemptsExact
    SecondPushExplained
PROPERTIES
    ImplementsContract
