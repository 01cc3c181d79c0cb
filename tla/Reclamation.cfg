SPECIFICATION Spec
CONSTANTS
    None = None
    Gens = 2
    Devices = 2
    Founders = {1}
    Offers = {1}
    Skewed = {1}
    MaxFaults = 1
INVARIANTS
    ReclaimedGone
    BytesHeld
    LedgerExact
CHECK_DEADLOCK FALSE
