CONSTANTS
    c1 = c1
    c2 = c2
    c3 = c3
    u1 = u1
    u2 = u2
    Conn = {c1, c2, c3}
    NoConn = NoConn
    Subject = {u1}
    NoSubject = NoSubject
    Expiry = {2, 3}
    Refreshers = {}
    FinalFrames = {}
    ResumeGrace = 1
    MaxEpoch = 3
    MaxTime = 3
    MaxClosers = 0
SPECIFICATION Spec
SYMMETRY Symmetry
INVARIANTS
    EpochIdentifiesConnection
    NoGraceTimerWhileActive
    SuspendedIsTimed
PROPERTIES
    OnlyOwnerLossSuspends
    LifecycleSpec
