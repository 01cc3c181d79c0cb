SPECIFICATION MCSpec
CONSTANTS
    b1 = b1
    uid = uid
    d1 = d1
    d2 = d2
    None = None
    n1 = n1
    n2 = n2
    content = content
    policy = policy
    member = member
    Anonymous = {b1}
    Account = {uid}
    Actor <- MCBrowser
    Key = {k1}
    Name = {"x", "y"}
    Reserved = {"y"}
    Digest = {d1, d2}
    Secret = {"s"}
    Bytes <- MCBytes
    Floor = 1
    Limit <- MCLimit
    ByteLimit <- MCByteLimit
    MaxAliases = 1
    MaxRev = 2
INVARIANTS
    QuotasExact
    LinksCurrent
PROPERTIES
    UploadsSettle
    ExpiryFinalized
    ProposalsSettle
    FencedLeaderRecovers
CHECK_DEADLOCK FALSE
