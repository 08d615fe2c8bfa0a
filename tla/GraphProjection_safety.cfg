SPECIFICATION Spec
CONSTANTS
    Aggregates = {a1}
    Workers = {w1, w2}
    Recoverers = {p1, p2, p3}
    RecoveryIds = {id1, id2}
    RecoveryOf <- OneOtherRecoveryId
    None = None
    MaxRev = 2
    MaxAttempts = 2
    BatchSize = 2
    MaxFaults = 1
    MaxUpkeep = 1
CONSTRAINT OneDisturbance
SYMMETRY Symmetric
INVARIANTS
    TypeOK
    ProtocolInv
    SettledIsProjected
    OneWorkerPerGeneration
    HistoryConflictNeedsUpkeep
PROPERTIES
    GraphNeverRegresses
    FenceOnlyAdvances
    ImplementsMirror
CHECK_DEADLOCK FALSE
