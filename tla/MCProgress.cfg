SPECIFICATION MCSpec
CONSTANTS
    Aggregates = {"a"}
    Workers = {"w1", "w2"}
    Recoverers = {"p"}
    RecoveryIds = {"i"}
    RecoveryOf <- RecoveryIdOf
    None = None
    MaxRev = 1
    MaxAttempts = 2
    BatchSize = 2
    MaxFaults = 1
    MaxUpkeep = 1
    Elevations = {"e"}
    Drainers = {"d1", "d2"}
    DrainBatch = 1
    MaxFailures = 1
    Conns = {"c1", "c2"}
    Calls = {"p1", "p2"}
    MaxConns = 1
    MaxTraces = 2
    MaxErrors = 1
INVARIANTS
    MemoIsLive
    ArmedFenceAgrees
    MarkerHasInterlock
    NoOrphanTrace
    ExpiryAuditedOnce
PROPERTIES
    Converges
    NoGhostSession
    EndedTraceCloses
    GestureIsLogged
CHECK_DEADLOCK FALSE
