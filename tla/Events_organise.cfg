SPECIFICATION Spec
CONSTANTS
    Scenes = {"status", "creation", "content", "vendors", "payout", "import", "limits"}
    Staff = {s1, s2}
    MaxInvites = 2
    Events = {e1, e2}
    Members = {m1}
    Sessions = {r1, r2}
    PlanLimits = {1, 2}
    MaxSaves = 1
    Days = {d1, d2}
    Items = {i1}
    Sat = Sat
    sat = sat
    Sun = Sun
    Labels = {Sat, sat, Sun}
    Fold <- SatSatSun
    Dates = {1, 2}
    Editors = {x1, x2}
    Savers = {x1}
    NoInvite = NoInvite
    Null = Null
    Unset = Unset
    v1 = v1
    v2 = v2
    v3 = v3
    Spaces = {v1, v2, v3}
    PlatformSpaces = {v3}
    Services = {w1}
    Products = {w2}
    Keepers = {m1}
    SpaceLimits = {0, 1, 2}
    PriorityLimits = {2}
    Tenths <- Away
    Radius = 30
    Clerks = {r1, r2}
    SuperAdmin = SuperAdmin
    TenantAdmin = TenantAdmin
    Numbers = {d1, d2}
    Banks = {e1, e2}
    MaxAccounts = 2
    Forms = {r1, r2}
    Unsaid = Unsaid
    ada = ada
    Ada = Ada
    ben = ben
    cat = cat
    adaPhone = adaPhone
    benPhone = benPhone
    nobody = nobody
    gala = gala
    lunch = lunch
    Emails = {ada, ben, cat}
    Phones = {adaPhone, benPhone}
    NoContact = NoContact
    Typed = {ada, Ada, ben, cat, adaPhone, benPhone, nobody}
    Who <- WhoIs
    Examples <- InTemplate
    EventDays = {gala, lunch}
    Label <- DayLabel
    Blank = Blank
    MaxPlusOnes = 1
    MaxRows = 3
    Cells <- SheetRows
    MaxFile = 3
    Networks = {n1}
    Holders = {h1}
    Nobody = Nobody
    Link = Link
    Calls = {r1, r2}
    Cut = 2
SYMMETRY Symmetry
VIEW Seen
CONSTRAINT Small
CONSTRAINT OneErrand
CONSTRAINT OneBank
CONSTRAINT ShortImport
CONSTRAINT OneOfAKind
INVARIANTS
    OrganiserTypeOK
    ToldOncePerCancel
    OneArrival
    WithinPlan
    CreatedAsAsked
    ProgrammeKept
    PaidIntoShown
    ImportKept
    AtMostAllowed
CHECK_DEADLOCK FALSE
