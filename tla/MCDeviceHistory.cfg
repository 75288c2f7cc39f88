SPECIFICATION Spec
CONSTANTS
    t1 = t1
    t2 = t2
    d1 = d1
    d2 = d2
    d3 = d3
    p1 = p1
    p2 = p2
    Tabs = {t1, t2}
    Devices = {d1, d2, d3}
    Passwords = {p1, p2}
    MaxHistory = 2
    MaxWrites = 3
    None = None
SYMMETRY Symmetry
INVARIANTS
    TypeOK
    HistoryIsKept
CHECK_DEADLOCK FALSE
