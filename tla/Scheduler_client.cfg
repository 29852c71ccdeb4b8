CONSTANTS
    o1 = o1
    o2 = o2
    s1 = s1
    s2 = s2
    w1 = w1
    w2 = w2
    None = None
    Session = {s1}
    Ops = {o1, o2}
    Worker = {w1}
    SessionOf <- TwoEpochs
    MaxReady = 1
    Quantum = 1
    QueueMessages = 2
    CloseOnEnd = TRUE
    MayClose = FALSE
SPECIFICATION Spec
PROPERTIES
    YieldCompletes
CHECK_DEADLOCK FALSE
