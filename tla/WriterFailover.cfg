SPECIFICATION Spec
CONSTANTS
    n1 = n1
    n2 = n2
    content = content
    policy = policy
    member = member
    None = None
    Node = {n1, n2}
    Key <- MCKey
    Projects = {content}
    Digests = {}
    Secure = {policy, member}
    Internal = {member}
    Shapes <- ContentAndPolicy
    MaxRecords = 2
    MaxPending = 1
    MaxTerm = 2
    MaxSeq = 2
SYMMETRY NodeSymmetry
INVARIANTS
    SpeculationSound
    NoSpeculativePolicy
    AckedPolicyServed
    RevisionUnique
PROPERTIES
    ServedViewNeverRegresses
CHECK_DEADLOCK FALSE
