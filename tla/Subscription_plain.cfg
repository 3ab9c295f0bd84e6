SPECIFICATION Spec
CONSTANTS
    Codes = {c1, c2}
    Refs = {r1, r2}
    Workers = {w1, w2}
    TopPlan = 2
    MaxTime = 4
    Period = 2
    Grace = 1
    Faults = {"refresh", "lose", "subscription.create"}
    None = None
SYMMETRY Symmetry
INVARIANTS
    TypeOK
    ActiveWithinPaid
    EntitledIfDelivered
    PaidIsEntitledIfPlain
CHECK_DEADLOCK FALSE
