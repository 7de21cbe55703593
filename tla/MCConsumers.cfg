SPECIFICATION FairSpec
CONSTANTS
    OrderIds = {o1}
    TicketIds = {t1}
    MaxTicketVersion = 1
    Malformed <- MalformedPayment
    Durables <- SomeDurables
    MaxRetries = 1
    MaxMessages = 2
    MaxInFlight = 2
CHECK_DEADLOCK FALSE
INVARIANTS
    NothingIsLost
    EffectsOnce
    ParkedAfterAllRetries
PROPERTIES
    MessagesAreSettled
