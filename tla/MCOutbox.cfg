SPECIFICATION FairSpec
CONSTANTS
    Sequence = {1, 2}
    Publishers = {p1, p2}
    BatchSize = 2
    LeaseDuration = 1
    MaxExponent = 1
    MaxBackoff = 2
    DuplicateWindow = 1
    None = None
CHECK_DEADLOCK FALSE
PROPERTIES
    ImplementsRelay
