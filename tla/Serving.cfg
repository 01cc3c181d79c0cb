SPECIFICATION MCSpec
CONSTANTS
    None = None
    r1 = r1
    r2 = r2
    Request = {r1, r2}
    Key = {"slug", "grant"}
    Public = {"slug"}
    Entitled = {r1}
    Slots = 1
    Callers = 2
    MaxNegative = 1
    TTL = 1
    Deadline = 1
    MaxLag = 1
    MaxClock = 2
INVARIANTS
    DenialsFresh
    OwnDecision
PROPERTIES
    LookupsAnswered
    PreviewsSettle
CHECK_DEADLOCK FALSE
