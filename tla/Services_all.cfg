SPECIFICATION ServicesSpec
CONSTANTS
    Scenes = {"album", "retention", "feedback", "reminders", "announcements", "pass", "signIn", "team"}
    MaxItems = 2
    Assets = {a1, a2}
    Oversized = {a2}
    Quota = 1
    Uploaders = {x1, x2}
    Doors = {"open", "eventArchived", "cancelled", "offPlan"}
    NoAsset = NoAsset
    MaxPhotos = 2
    Sweepers = {x1, x2}
    MaxArchivings = 2
    RetentionDays = 1
    ReminderDays = 1
    MaxBreaks = 1
    Never = Never
    Pictures = {p1}
    Requests = {q1, q2}
    Organisers = {o1, o2}
    Servers = {v1, v2}
    MaxRecords = 4
    g1 = g1
    g2 = g2
    Guests = {g1}
    MaxLetters = 2
    Holder <- HolderOf
    ByText = {2}
    Senders = {x1, x2}
    EmailLimit = 2
    TextQuota = 2
    Texts = Texts
    Invitees = {g1, g2}
    Reachable = {g1}
    Speakers = {x1, x2}
    PostsPerDay = 1
    MaxBuys = 2
    TopPass = 2
    Cashiers = {x1, x2}
    MaxCodes = 2
    MaxDevices = 2
    Ttl = 1
    MaxAge = 2
    Visits = {x1, x2}
    Members = {m1, m2}
    Founder = m1
    Events = {e1}
    Invites = {i1}
    TeamRequests = {x1, x2}
    NoRow = NoRow
    Unlimited = Unlimited
    Names = {n1, n2}
    Labels = {n1}
    Latitudes = {lat}
    Longitudes = {lon}
    Blank = Blank
    Omitted = Omitted
    NotYet = NotYet
    Comers = {g1, g2}
SYMMETRY Symmetry
VIEW Seen
CONSTRAINT Quiet
CONSTRAINT Plain
INVARIANTS
    ServicesTypeOK
    AlbumKept
    PurgesAsPromised
    ConsentKept
    LettersInOrder
    PassAsPaid
    SuspendedStartsOver
    RolesKept
CHECK_DEADLOCK FALSE
