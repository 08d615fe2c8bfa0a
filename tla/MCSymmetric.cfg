SPECIFICATION Spec
CONSTANTS
    Operators = {x1, x2, x3}
    Traces = {}
    Conns = {}
    Arts = {}
    Slots = {"f"}
    Workers = {}
    Cap = 1
    MaxDirect = 1
    Procs = {x1, x2, x3}
    Helpers = {h1, h2}
    MaxGen = 3
SYMMETRY Symmetric
INVARIANTS
    RelayReplayIsOwn
    OneAuthorPerRevision
    NoMixWithoutJournal
    JournalCoversAll
    DependenciesAcyclic
CHECK_DEADLOCK FALSE
