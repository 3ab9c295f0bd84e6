SPECIFICATION Spec
CONSTANTS
    Guests = {g1, g2}
    Plus = {p1}
    Emails = {}
    Days = {}
    Workers = {w1, w2}
    Ceiling = 2
    Caps = {None}
    Limits = {1, 2}
    Passes = {0, 2}
    MaxPlus = 1
    Allowances = {1}
    Audiences = {FALSE}
    Doors = {"closed"}
    Organiser = {"add","archive","restore","invite"}
    None = None
SYMMETRY Symmetry
INVARIANTS
    CeilingKeptIfFresh
PROPERTIES
    PlanKeptIfFresh
CONSTRAINT
    Fresh InviteApart
CHECK_DEADLOCK FALSE
