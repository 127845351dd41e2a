\* One device and one code; the answer to a completion check is lost.
SPECIFICATION Spec
CONSTANTS
    Challenge = {c1}
    Mobile = {m1}
    Thread = {t1, t2}
    NoChallenge = NoChallenge
    NoMobile = NoMobile
    NoThread = NoThread
    Ttl = 1
    MaxPolls = 3
    MaxLost = 1
INVARIANTS
    ClaimantNotRefused
