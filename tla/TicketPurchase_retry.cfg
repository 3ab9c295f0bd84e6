SPECIFICATION FairSpec
CONSTANTS
    Invites = {i1}
    Purchases = {p1}
    Refs = {r1, r2}
    Workers = {w1, w2}
    MaxQty = 1
    Limits = {1}
    Switches = {TRUE, FALSE}
    MaxAborts = 1
    None = None
INVARIANTS
    LedgerExact
    UnclaimedOnlyIfSuperseded
PROPERTY ChargeIsRecorded
CHECK_DEADLOCK FALSE
