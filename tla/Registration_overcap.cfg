SPECIFICATION Spec
CONSTANTS
    Guests = {g1, g2}
    Plus = {p1, p2}
    Emails = {m1, m2}
    Days = {d1}
    Workers = {w1, w2}
    Ceiling = 9
    Caps = {2}
    Limits = {None}
    Passes = {0}
    MaxPlus = 1
    Allowances = {1}
    Audiences = {TRUE}
    Doors = {}
    Organiser = {}
    None = None
SYMMETRY Symmetry
PROPERTIES
    CapKept
CHECK_DEADLOCK FALSE
