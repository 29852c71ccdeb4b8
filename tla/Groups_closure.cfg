CONSTANTS
    o1 = o1
    o2 = o2
    r1 = r1
    r2 = r2
    p1 = p1
    p2 = p2
    Owner = {o1, o2}
    NoOwner = NoOwner
    Resolver = {r1, r2}
    Player = {p1, p2}
    TicketTTL = 2
    AuthTimeout = 1
    GroupTTL = 3
    MaxLag = 0
    MaxTime = 3
SPECIFICATION Spec
SYMMETRY Symmetry
INVARIANTS
    OneOwner
    ClosedGroupEmpty
    EndedIsDurable
CHECK_DEADLOCK FALSE
