SPECIFICATION Spec
CONSTANTS
    Scenes = {"contact", "days", "questions", "party", "public"}
    first = first
    last = last
    Offered = {first, last}
    Asked = {q1}
    Words = {yes}
    Unanswered = Unanswered
    Tabs = {t1, t2}
    MaxForms = 2
    MaxParty = 1
    Public = {a1, a2, outside}
    Company = {a1, a2}
    EventDays = {first, last}
    DayOf <- DateOf
    Savers = {s1}
    MaxSeats = 2
    SeatCaps = {2}
    PlanLimits = {1}
    Companions = 1
    Never = Never
SYMMETRY Symmetry
INVARIANTS
    PagesTypeOK
    StillReachable
    ResendsAsShown
    TellsNothing
    PageTrue
CONSTRAINT OneMatter
CONSTRAINT DatesOrList
CHECK_DEADLOCK FALSE
