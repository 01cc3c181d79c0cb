SPECIFICATION MCSpec
CONSTANTS
    None = None
    Request = {q1, q2}
    Uid = {u1, u2}
    Minute = 2
    Lifetime = 2
    AuthLifetime = 1
    Creations = 1
    Rotations = 2
    Late = 1
    MaxSessions = 4
    MaxClock = 2
    Tab = {t1, t2}
    Visitor = {v1}
    Secret = {u1, u2}
    Limits <- MCLimits
    Workers = 1
    Hour = 2
    Ends = 2
    MaxPolicy = 2
    Replica = {q1, q2}
    Account = {owner}
    Quota = 1
    MaxPending = 2
    MaxGrants = 2
    MaxCred = 3
    MaxToken = 2
SYMMETRY Symmetries
INVARIANTS
    OwnerHeldOnce
    NoInheritance
    GrantBacked
    PasswordDurable
    EndedStaysEnded
    RotationExact
    BudgetsKept
CHECK_DEADLOCK FALSE
