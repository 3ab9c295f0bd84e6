SPECIFICATION Spec
CONSTANTS
    Invites = {i1}
    Purchases = {p1}
    Refs = {r1, r2}
    Workers = {w1}
    MaxQty = 1
    Limits = {1}
    Switches = {}
    MaxAborts = 0
    None = None
SYMMETRY Symmetry
INVARIANT ProcessedChargeIsPaid
CHECK_DEADLOCK FALSE
