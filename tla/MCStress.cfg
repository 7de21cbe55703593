SPECIFICATION Spec
CONSTANTS
    Users = {u1, u2}
    SessionTokens = {s1}
    TicketIds = {t1, t2}
    OrderIds = {o1}
    Prices = {5, 10, 15}
    NoToken = NoToken
    NoOrder = NoOrder
    Missing = Missing
    Calls = {c1, c2}
    Client = c1
    Buyer = c2
    Owner = u1
    Other = u2
    Settings <- MCSettings
INVARIANTS
    CompleteMeansUpdated
CHECK_DEADLOCK FALSE
