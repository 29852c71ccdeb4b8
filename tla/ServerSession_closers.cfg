CONSTANTS
    c1 = c1
    c2 = c2
    c3 = c3
    u1 = u1
    u2 = u2
    Conn = {c1, c2}
    NoConn = NoConn
    Subject = {u1, u2}
    NoSubject = NoSubject
    Expiry = {2}
    Refreshers = {c1, c2}
    FinalFrames = {"close", "abort"}
    ResumeGrace = 1
    MaxEpoch = 2
    MaxTime = 2
    MaxClosers = 1
SPECIFICATION Spec
SYMMETRY Symmetry
INVARIANTS
    UnregisteredIsClosed
PROPERTIES
    SubjectNeverChanges
