SPECIFICATION Spec
CONSTANTS
    Codes = {c1}
    Refs = {r1}
    Workers = {w1}
    TopPlan = 1
    MaxTime = 3
    Period = 2
    Grace = 1
    Faults = {"subscription.disable"}
    None = None
SYMMETRY Symmetry
INVARIANT EntitledOnlyIfPaid
CHECK_DEADLOCK FALSE
