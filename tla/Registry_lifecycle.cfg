CONSTANTS
    h1 = h1
    h2 = h2
    d1 = d1
    w1 = w1
    Handler = {h1, h2}
    Drainer = {d1}
    Worker = {w1}
    Grouped = {h1}
    MaxSessions = 1
    MaxPending = 1
SPECIFICATION Spec
INVARIANTS
    RegistryIsExact
    ShutdownIsQuiet
PROPERTIES
    ServeReturns
CHECK_DEADLOCK FALSE
