SPECIFICATION Spec
CONSTANTS
    n1 = n1
    n2 = n2
    n3 = n3
    None = None
    Node = {n1, n2, n3}
    Quorum <- MCQuorum
    Source = {"ensure"}
    Window = 1
    Timeout = 1
    Faults = {"suspend"}
    Restarts = TRUE
    Transfers = TRUE
    MaxTerm = 2
SYMMETRY NodeSymmetry
INVARIANTS
    WindowExcludesElection
    StaleReadsBounded
CHECK_DEADLOCK FALSE
