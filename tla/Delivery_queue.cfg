SPECIFICATION FairSpec
CONSTANTS
    t1 = t1
    t2 = t2
    k1 = k1
    k2 = k2
    Tickets = {t1}
    Self = {}
    Keys = {k1}
    PRs = {p1}
    BindIds = {b1}
    Agents = {}
    Observers = {o1, o2}
    Offers <- OneKey
    Watched = {t1}
    None = None
    MaxRev = 1
    MaxAttempt = 1
    MaxHead = 1
    MaxClaims = 0
    MaxFaults = 1
INVARIANT RefreshStaysQueued
PROPERTY EvidenceMovesForward
PROPERTY DeliveryIsCertified
