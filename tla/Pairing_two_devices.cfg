\* Two devices and two codes: every race between claims, approvals and replacements.
SPECIFICATION Spec
CONSTANTS
    Challenge = {c1, c2}
    Mobile = {m1, m2}
    Thread = {t1, t2}
    NoChallenge = NoChallenge
    NoMobile = NoMobile
    NoThread = NoThread
    Ttl = 1
    MaxPolls = 1
    MaxLost = 0
SYMMETRY Symmetry
INVARIANTS
    TypeOK
    ApprovedAsShown
    DeviceHoldsOwnSession
PROPERTIES
    ImplementsAccess
