\* One device and one code, lost connections and restarts.
SPECIFICATION FairSpec
CONSTANTS
    Challenge = {c1}
    Mobile = {m1}
    Thread = {t1, t2}
    NoChallenge = NoChallenge
    NoMobile = NoMobile
    NoThread = NoThread
    Ttl = 1
    MaxPolls = 2
    MaxLost = 2
PROPERTIES
    WaitEnds
