SPECIFICATION Spec
CONSTANTS
    t1 = t1
    t2 = t2
    k1 = k1
    k2 = k2
    Tickets = {t1}
    Self = {}
    Keys = {k1}
    PRs = {p1}
    BindIds = {b1, b2}
    Agents = {a1, a2}
    Observers = {o1}
    Offers <- Plain
    Watched = {}
    None = None
    MaxRev = 2
    MaxAttempt = 2
    MaxHead = 2
    MaxClaims = 2
    MaxFaults = 0
SYMMETRY Symmetric
INVARIANT FulfilledIsProven
INVARIANT DispositionAgrees
INVARIANT ClaimsFenced
CHECK_DEADLOCK FALSE
