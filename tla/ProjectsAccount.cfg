SPECIFICATION MCSpec
CONSTANTS
    b1 = b1
    uid = uid
    d1 = d1
    d2 = d2
    None = None
    Server = {s1, s2}
    Body = {1, 2}
    MaxTicket = 2
    MaxEdit = 2
    MaxFault = 2
    Anonymous = {}
    Account = {uid}
    Actor <- MCAccounts
    Key = {k1, k2, k3}
    Name = {"x"}
    Reserved = {}
    Digest = {d1, d2}
    Secret = {}
    Bytes <- MCBytes
    Floor = 1
    Limit <- MCLimit
    ByteLimit <- MCByteLimit
    MaxAliases = 1
    MaxRev = 5
SYMMETRY Symmetries
INVARIANTS
    PendingExact
    NamesHeld
    ContentUnique
    RemovedNeverServed
    LinkHonoured
PROPERTIES
    AccessChangesBumpPolicy
CHECK_DEADLOCK FALSE
