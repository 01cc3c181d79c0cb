SPECIFICATION MCSpec
CONSTANTS
    None = None
    Reader = {r1, r2}
    Asset = {a1, a2}
    Limit = 1
    MaxEntries = 2
    SpoolLimit = 2
    Downloads = 2
    Admissions = 2
    MaxFile = 2
    MaxFault = 1
    Primary = {p1, p2}
    Viewer = {v1}
    Retention = 2
    MaxDay = 2
    MaxBoot = 2
    MaxTicks = 5
    Key = {k1}
    Request = {}
    Public = {}
    Entitled = {}
    Slots = 1
    Callers = 1
    MaxNegative = 1
    TTL = 1
    Deadline = 1
    MaxLag = 0
    MaxClock = 0
SYMMETRY Symmetries
INVARIANTS
    CacheExact
    ViewsCountedOnce
CHECK_DEADLOCK FALSE
