SPECIFICATION MCSpec
CONSTANTS
    None = None
    c1 = c1
    c2 = c2
    k1 = k1
    n1 = n1
    n2 = n2
    n3 = n3
    n4 = n4
    Key = {k1, k2}
    Client = {c1, c2}
    Node = {n1, n2}
    Home <- MCHome
    Old = {n2}
    Attempts = 2
    MaxIndex = 2
    MaxTerm = 2
    Nil = Nil
    Rank = {1, 2}
    MaxRestart = 2
    Member = {n1, n2}
    Founders = {n1, n2}
    MaxFork = 2
    MaxGen = 2
    MaxCrash = 2
    MaxConn = 2
    Host = {n1, n2, n3, n4}
    Address = {1}
    Sizes = {1, 3}
    Policy = 3
    MinVoters = 1
    MaxVoters = 5
    MaxMembers = 16
    MaxRequest = 1
    MaxFault = 1
INVARIANTS
    OneHistory
    RecoveriesApart
PROPERTIES
    Atomic
    FloorKept
    VoteAdmitted
CHECK_DEADLOCK FALSE
