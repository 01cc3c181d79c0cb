SPECIFICATION Spec
CONSTANTS
    n1 = n1
    n2 = n2
    n3 = n3
    None = None
    Node = {n1, n2, n3}
    Quorum <- MCQuorum
    Source = {"heartbeat", "ensure"}
    Window = 2
    Timeout = 2
    Faults = {"suspend", "step"}
    Restarts = FALSE
    Transfers = TRUE
    MaxTerm = 2
SYMMETRY NodeSymmetry
INVARIANTS
    ReadsLinearize
CHECK_DEADLOCK FALSE
