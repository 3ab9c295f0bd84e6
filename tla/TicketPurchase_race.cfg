SPECIFICATION Spec
CONSTANTS
    Invites = {i1, i2}
    Purchases = {p1, p2}
    Refs = {r1, r2}
    Workers = {w1, w2}
    MaxQty = 2
    Limits = {1, 2}
    Switches = {}
    MaxAborts = 1
    None = None
SYMMETRY Symmetry
INVARIANTS
    TypeOK
    HeldExact
    SoldExact
    StockBound
PROPERTIES
    PaidIsFinal
    StockSpec
CHECK_DEADLOCK FALSE
