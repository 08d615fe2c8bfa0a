SPECIFICATION Spec
CONSTANTS
    t1 = t1
    t2 = t2
    k1 = k1
    k2 = k2
    Tickets = {t1, t2}
    Self = {t1, t2}
    Keys = {k1}
    PRs = {p1}
    BindIds = {b1, b2}
    Agents = {}
    Observers = {o1}
    Offers <- Chained
    Watched = {}
    None = None
    MaxRev = 2
    MaxAttempt = 1
    MaxHead = 1
    MaxClaims = 0
    MaxFaults = 0
SYMMETRY Symmetric
INVARIANT ReceiptsFollowDependencies
CHECK_DEADLOCK FALSE
