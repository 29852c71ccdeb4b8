CONSTANTS
    c1 = c1
    c2 = c2
    c3 = c3
    u1 = u1
    u2 = u2
    Conn = {c1, c2}
    NoConn = NoConn
    Subject = {u1}
    NoSubject = NoSubject
    Expiry = {1, 2}
    Refreshers = {}
    FinalFrames = {}
    ResumeGrace = 1
    MaxEpoch = 2
    MaxTime = 2
    MaxClosers = 1
SPECIFICATION Spec
INVARIANTS
    ExpiryEndsAccess
PROPERTIES
    SuspendedEnds
    ClosedIsRemoved
