SPECIFICATION Spec
CONSTANTS
    Tokens = {"t"}
    Expires <- TokenExpires
    Tasks = {"p"}
    Grace = 2
    LookupGap = 1
    MaxQuery = 3
    KnownCap = 1
    MaxTime = 5
    Rows = {1, 2, 3}
    Txns = {"a", "b"}
    Menu <- MergeMenu
    MaxPasses = 2
    Proposals = {"k1", "k2"}
    Jobs = {"j1", "j2"}
    Reviewers = {"r1", "r2"}
    Tickets = {1, 2}
    Prs = {"p1", "p2"}
    Lots = {"r"}
    FocusSlots = {1, 2, 3}
    Anchors <- SlotAnchors
    Upstream <- SlotUpstream
    Sessions = {"x"}
    Transactions = {"a", "b", "c"}
    Requests <- SlotMenu
    Servers = {"p", "q"}
    Reads = {"a", "b", "c"}
    EntityOf <- ReadEntity
    Humans = {"b"}
    Entities = {"e", "f"}
    EntityRows = {"e"}
    QueueSize = 1
    BatchSize = 1
    MaxEdits = 1
    Automations = {"p", "q"}
    Interval = 1
    Timeout = 1
    MaxClock = 5
INVARIANTS
    TypeOK
    NoOpenSlotIsSatisfied
    NoWaitCycle
    ExplicitCloseLeavesNoSession
    RevocationIsBounded
    NoMergeChain
    DoneWhenTriaged
    
PROPERTIES
    CountsEachReadOnce
CHECK_DEADLOCK FALSE
