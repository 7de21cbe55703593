SPECIFICATION FairSpec
CONSTANTS
    t1 = t1
    Users = {u1, u2}
    Sellers = {u1}
    TicketIds <- OneTicket
    OrderIds = {o1}
    Calls = {c1}
    Editors = {e1}
    TicketOf <- OrdersOfTheTicket
    Contents = {a}
    Outcomes = {"Succeeded", "Failed"}
    ExpirationWindow = 1
    MaxClock = 1
    MaxTicketVersion = 3
    MaxOwnerVersion = 1
    None = None
INVARIANTS
    CopiesAgreeWithOrders
PROPERTIES
    OrderCarriesCurrentPrice
    ImplementsSaga
    PaidOrExpiredOrdersSettle
    CanceledOrdersFreeTheTicket
    ProjectionCatchesUp
    UnpaidCancellationsArrive
