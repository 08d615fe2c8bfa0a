SPECIFICATION Spec
CONSTANTS
    Aggregates = {a1}
    Workers = {w1, w2}
    Recoverers = {p1}
    RecoveryIds = {id1}
    RecoveryOf <- SameRecoveryId
    None = None
    MaxRev = 2
    MaxAttempts = 2
    BatchSize = 2
    MaxFaults = 0
    MaxUpkeep = 1
INVARIANTS
    NoHistoryConflict
CHECK_DEADLOCK FALSE
