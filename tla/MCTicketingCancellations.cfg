SPECIFICATION FairSpec
CONSTANTS
    t1 = t1
    Users = {u1}
    Sellers = {u1}
    TicketIds <- OneTicket
    OrderIds = {o1}
    Calls = {c1}
    Editors = {}
    TicketOf <- OrdersOfTheTicket
    Contents = {a}
    Outcomes = {"Succeeded", "Failed"}
    ExpirationWindow = 1
    MaxClock = 2
    MaxTicketVersion = 3
    MaxOwnerVersion = 1
    None = None
PROPERTY
    CancellationsArrive
