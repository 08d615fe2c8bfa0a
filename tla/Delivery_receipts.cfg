SPECIFICATION Spec
CONSTANTS
    t1 = t1
    t2 = t2
    k1 = k1
    k2 = k2
    Tickets = {t1}
    Self = {t1}
    Keys = {k1, k2}
    PRs = {p1, p2}
    BindIds = {b1, b2, b3}
    Agents = {}
    Observers = {o1}
    Offers <- TwoKeys
    Watched = {}
    None = None
    MaxRev = 1
    MaxAttempt = 1
    MaxHead = 1
    MaxClaims = 0
    MaxFaults = 0
SYMMETRY Symmetric
INVARIANT TypeOK
INVARIANT ReceiptsAreTrue
CHECK_DEADLOCK FALSE
