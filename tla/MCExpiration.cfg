SPECIFICATION FairSpec
CONSTANTS
    OrderIds = {o1, o2}
    ExpirationWindow = 2
    PublishAttempts = 3
    MaxStalled = 1
    DuplicateWindow = 2
    None = None
CHECK_DEADLOCK FALSE
INVARIANTS
    NeverEarly
PROPERTIES
    OneTimerPerOrder
    ExpiresOrFails
