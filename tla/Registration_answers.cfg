SPECIFICATION Spec
CONSTANTS
    Guests = {g1, g2}
    Plus = {p1}
    Emails = {m1}
    Days = {d1}
    Workers = {w1, w2}
    Ceiling = 9
    Caps = {1, 2}
    Limits = {None}
    Passes = {0}
    MaxPlus = 1
    Allowances = {1}
    Audiences = {TRUE}
    Doors = {}
    Organiser = {"settings"}
    None = None
SYMMETRY Symmetry
INVARIANTS
    TypeOK
PROPERTIES
    CapKeptIfFresh
    AnswerReplacesIfFresh
CONSTRAINT
    Fresh
CHECK_DEADLOCK FALSE
