CONSTANTS
    p1 = p1
    r1 = r1
    r2 = r2
    q1 = q1
    s1 = s1
    s2 = s2
    o1 = o1
    o2 = o2
    w1 = w1
    w2 = w2
    None = None
SPECIFICATION PartsSpec
SYMMETRY Symmetry
INVARIANTS
    RatesAreKept
    QueueIsExact
    
    
    TokensAreExact
    ChannelsKeepOrder
    LedgersAreExact
    ObservationsAccounted
    
    TicketsAdmitInTime
    FramesAgree
