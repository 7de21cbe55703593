SPECIFICATION Spec
CONSTANTS
    Users = {u1, u2}
    TicketIds = {t1}
    OrderIds = {o1, o2}
    Calls = {c1, c2}
    ExpirationWindow = 1
    MaxClock = 2
    MaxTicketVersion = 0
    None = None
SYMMETRY Symmetry
INVARIANTS
    TypeOK
    OneActiveOrderPerTicket
    OutboxTellsOrderHistory
    ProcessedEventsAreInEffect
PROPERTIES
    SoldTicketIsRefused
    SettledOrdersStay
