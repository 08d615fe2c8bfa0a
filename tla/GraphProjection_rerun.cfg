SPECIFICATION Spec
CONSTANTS
    Aggregates = {a1}
    Workers = {w1, w2}
    Recoverers = {p1, p2}
    RecoveryIds = {id1}
    RecoveryOf <- SameRecoveryId
    None = None
    MaxRev = 2
    MaxAttempts = 2
    BatchSize = 2
    MaxFaults = 0
    MaxUpkeep = 0
INVARIANTS
    MarkerHasInterlock
CHECK_DEADLOCK FALSE
