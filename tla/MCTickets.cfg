SPECIFICATION Spec
CONSTANTS
    Users = {u1, u2}
    TicketIds = {t1}
    OrderIds = {o1, o2, o3}
    TicketOf <- OneTicket
    Contents = {a, b}
    Calls = {c1, c2}
    MaxVersion = 8
    None = None
SYMMETRY Symmetry
INVARIANTS
    LockFollowsOrderEvents
    OutboxTellsTicketHistory
PROPERTIES
    ReservedTicketIsNotEdited
