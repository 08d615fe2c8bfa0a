SPECIFICATION SessionsSpec
CONSTANTS
    Operators = {o1}
    Traces = {a1, a2}
    Conns = {c1, c2}
    Arts = {k1, k2}
    Slots = {}
    Workers = {w1, w2}
    Cap = 1
    MaxDirect = 0
INVARIANT LedgerWithinCap
CHECK_DEADLOCK FALSE
