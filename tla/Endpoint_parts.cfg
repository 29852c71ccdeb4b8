CONSTANTS
    c1 = c1
    c2 = c2
    c3 = c3
    s1 = s1
    s2 = s2
    o1 = o1
    o2 = o2
    w1 = w1
    None = None
    Conn = {c1, c2, c3}
    First = c1
    NoConn = NoConn
SPECIFICATION PartsSpec
INVARIANTS
    ClientIsConsistent
PROPERTIES
    ClosedForGood
    ClientSettles
    StreamsSettle
    TokensAreServed
    RelayReleases
