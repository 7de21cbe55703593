------------------------------ MODULE Services ------------------------------
(***************************************************************************)
(* The gRPC servers of tickets, orders and payments as their callers see   *)
(* them: what a call reads and writes, and what it is answered.  A call is *)
(* one database transaction (Tickets.tla, Orders.tla and Payments.tla look *)
(* into it); events between the services are steps that happen at some     *)
(* later time, so that each service works from a copy that may be stale.   *)
(***************************************************************************)
EXTENDS Channel

CONSTANTS
    NoOrder,  \* no order reserves the ticket
    Missing   \* no row

VARIABLES
    tickets,      \* table of the tickets service
    ticketsSeen,  \* the tickets the orders service has heard of
    orders,       \* table of the orders service
    lapsed,       \* orders whose expires_at has passed
    ordersSeen,   \* the orders' events that tickets and payments have heard of
    payments      \* orders with a payment

tables == <<tickets, ticketsSeen, orders, lapsed, ordersSeen, payments>>

Refuse(c, code, item) == Reply(c, Failure(code, {Item(item, "service")}))

\* Every handler may fail; structuredError hides why.
Fail(c) == Refuse(c, "INTERNAL", "INTERNAL_ERROR") /\ UNCHANGED tables

Read(c, answer) == Reply(c, Answer(answer)) /\ UNCHANGED tables

\* A query and its failure are one case each; a refusal has no effect.
Refuses(c, condition, code, item) ==
    condition /\ Refuse(c, code, item) /\ UNCHANGED tables

-----------------------------------------------------------------------------
(* tickets *)

\* The first rule that is broken, as an error code; "" when none is.
validateMutation(request) ==
    IF request.title \in {"blank", "empty"} THEN "INVALID_TITLE"
    ELSE IF request.price \notin Prices THEN "INVALID_PRICE"
    ELSE IF request.userId \notin Users THEN "INVALID_ARGUMENT"
    ELSE ""

toTicketResponse(t) ==
    [id |-> t, price |-> tickets[t].price, userId |-> tickets[t].userId]

CreateTicket(c) ==
    LET request == rpc[c].request
        error == validateMutation(request) IN
    /\ Waits(c, "sent", "CreateTicket")
    /\ \/ Refuses(c, error # "", "INVALID_ARGUMENT", error)
       \/ /\ error = ""
          /\ \E t \in TicketIds :
                /\ tickets[t] = Missing
                /\ tickets' = [tickets EXCEPT ![t] =
                     [price |-> request.price, userId |-> request.userId, reservedBy |-> NoOrder]]
                /\ Reply(c, Answer([id |-> t, price |-> request.price,
                                    userId |-> request.userId]))
          /\ UNCHANGED <<ticketsSeen, orders, lapsed, ordersSeen, payments>>
       \/ Fail(c)

\* An id that is no UUID fails in the query, not as a ticket that is missing.
UpdateTicket(c) ==
    LET request == rpc[c].request
        error == validateMutation(request)
        t == request.id IN
    /\ Waits(c, "sent", "UpdateTicket")
    /\ \/ Refuses(c, error # "", "INVALID_ARGUMENT", error)
       \/ /\ error = "" /\ t \in TicketIds
          /\ \/ Refuses(c, tickets[t] = Missing, "NOT_FOUND", "NOT_FOUND")
             \/ /\ tickets[t] # Missing
                /\ Refuses(c, \/ tickets[t].userId # request.userId
                              \/ tickets[t].reservedBy # NoOrder,
                           "PERMISSION_DENIED", "FORBIDDEN")
             \/ /\ tickets[t] # Missing
                /\ tickets[t].userId = request.userId /\ tickets[t].reservedBy = NoOrder
                /\ tickets' = [tickets EXCEPT ![t].price = request.price]
                /\ Reply(c, Answer([ticket |-> [id |-> t, price |-> request.price,
                                                userId |-> request.userId]]))
                /\ UNCHANGED <<ticketsSeen, orders, lapsed, ordersSeen, payments>>
       \/ Fail(c)

GetTicket(c) ==
    LET t == rpc[c].request.id IN
    /\ Waits(c, "sent", "GetTicket")
    /\ \/ /\ t \in TicketIds
          /\ \/ Refuses(c, tickets[t] = Missing, "NOT_FOUND", "NOT_FOUND")
             \/ tickets[t] # Missing /\ Read(c, [ticket |-> toTicketResponse(t)])
       \/ Fail(c)

ListTickets(c) ==
    /\ Waits(c, "sent", "ListTickets")
    /\ \/ Read(c, [tickets |->
                     {toTicketResponse(t) : t \in {x \in TicketIds : tickets[x] # Missing}}])
       \/ Fail(c)

-----------------------------------------------------------------------------
(* orders *)

toOrderStatus(status) ==
    CASE status = "Created" -> "CREATED"
      [] status = "Canceled" -> "CANCELED"
      [] status = "AwaitingPayment" -> "AWAITING_PAYMENT"
      [] status = "Complete" -> "COMPLETE"
      [] OTHER -> "UNSPECIFIED"

OrderOf(o, order) ==
    [id |-> o, ticketId |-> order.ticketId, userId |-> order.userId,
     status |-> toOrderStatus(order.status)]

\* Mutant: every order that is answered is reported as new.
toCreateOrderResponseNew(o, order, created) ==
    [created |-> TRUE, id |-> o, ticketId |-> order.ticketId, userId |-> order.userId,
     status |-> toOrderStatus(order.status)]

toCreateOrderResponse(o, order, created) ==
    [created |-> created, id |-> o, ticketId |-> order.ticketId, userId |-> order.userId,
     status |-> toOrderStatus(order.status)]

Active == {"Created", "AwaitingPayment"}

findBlockingOrder(t) ==
    {o \in OrderIds :
        /\ orders[o] # Missing /\ orders[o].ticketId = t
        /\ orders[o].status = "Complete" \/ (orders[o].status \in Active /\ o \notin lapsed)}

\* An id is a UUID; whether the row is there is another question.
validateTicketReservation(t, user) == t \in TicketIds /\ user \in Users

validateOrder(o, user) == o \in OrderIds /\ user \in Users

OwnOrder(o, user) == o \in OrderIds /\ orders[o] # Missing /\ orders[o].userId = user

\* Mutant: whoever asks gets the order there is.
ReusableByAnyone(blocking, user) == {o \in blocking : orders[o].status # "Complete"}

\* A second request of the same user gets the order of the first.
Reusable(blocking, user) ==
    {o \in blocking : orders[o].userId = user /\ orders[o].status # "Complete"}

CreateOrder(c) ==
    LET t == rpc[c].request.ticketId
        user == rpc[c].request.userId
        blocking == findBlockingOrder(t)
        reusable == Reusable(blocking, user) IN
    /\ Waits(c, "sent", "CreateOrder")
    /\ \/ Refuses(c, ~validateTicketReservation(t, user), "INVALID_ARGUMENT", "INVALID_ARGUMENT")
       \/ Refuses(c, validateTicketReservation(t, user) /\ t \notin ticketsSeen,
                  "NOT_FOUND", "NOT_FOUND")
       \/ /\ validateTicketReservation(t, user) /\ t \in ticketsSeen
          /\ \/ Refuses(c, blocking # {} /\ reusable = {}, "ALREADY_EXISTS", "ALREADY_EXISTS")
             \/ \E o \in reusable : Read(c, toCreateOrderResponse(o, orders[o], FALSE))
             \/ /\ blocking = {}
                /\ \E o \in OrderIds :
                    /\ orders[o] = Missing
                    /\ orders' = [orders EXCEPT ![o] =
                         [ticketId |-> t, userId |-> user, status |-> "Created"]]
                    /\ Reply(c, Answer(toCreateOrderResponse(o, orders'[o], TRUE)))
                /\ UNCHANGED <<tickets, ticketsSeen, lapsed, ordersSeen, payments>>
       \/ Fail(c)

CancelOrder(c) ==
    LET o == rpc[c].request.orderId
        user == rpc[c].request.userId IN
    /\ Waits(c, "sent", "CancelOrder")
    /\ \/ Refuses(c, ~validateOrder(o, user), "INVALID_ARGUMENT", "INVALID_ARGUMENT")
       \/ Refuses(c, validateOrder(o, user) /\ ~OwnOrder(o, user), "NOT_FOUND", "NOT_FOUND")
       \/ /\ OwnOrder(o, user)
          /\ \/ Refuses(c, orders[o].status = "Complete", "ALREADY_EXISTS", "ALREADY_EXISTS")
             \/ /\ orders[o].status = "Canceled"
                /\ Read(c, [order |-> OrderOf(o, orders[o])])
             \/ /\ orders[o].status \in Active
                /\ orders' = [orders EXCEPT ![o].status = "Canceled"]
                /\ Reply(c, Answer([order |-> OrderOf(o, orders'[o])]))
                /\ UNCHANGED <<tickets, ticketsSeen, lapsed, ordersSeen, payments>>
       \/ Fail(c)

GetOrder(c) ==
    LET o == rpc[c].request.orderId
        user == rpc[c].request.userId IN
    /\ Waits(c, "sent", "GetOrder")
    /\ \/ Refuses(c, ~validateOrder(o, user), "INVALID_ARGUMENT", "INVALID_ARGUMENT")
       \/ Refuses(c, validateOrder(o, user) /\ ~OwnOrder(o, user), "NOT_FOUND", "NOT_FOUND")
       \/ OwnOrder(o, user) /\ Read(c, [order |-> OrderOf(o, orders[o])])
       \/ Fail(c)

\* validateOrderUser never refuses: the gateway sends the user of a session.
ListOrders(c) ==
    LET user == rpc[c].request.userId IN
    /\ Waits(c, "sent", "ListOrders")
    /\ \/ Read(c, [orders |-> {OrderOf(o, orders[o]) : o \in {x \in OrderIds : OwnOrder(x, user)}}])
       \/ Fail(c)

-----------------------------------------------------------------------------
(* payments *)

\* The order is looked up in the copy, which knows it once its event arrived.
CreatePayment(c) ==
    LET o == rpc[c].request.orderId
        user == rpc[c].request.userId
        known == /\ validateOrder(o, user) /\ ordersSeen[o].payments # "none"
                 /\ orders[o].userId = user IN
    /\ Waits(c, "sent", "CreatePayment")
    /\ \/ Refuses(c, ~validateOrder(o, user), "INVALID_ARGUMENT", "INVALID_ARGUMENT")
       \/ Refuses(c, validateOrder(o, user) /\ ~known, "NOT_FOUND", "NOT_FOUND")
       \/ /\ known
          /\ \/ /\ o \in payments
                /\ Read(c, [created |-> FALSE, payment |-> [id |-> o, orderId |-> o]])
             \/ Refuses(c, o \notin payments /\ ordersSeen[o].payments # "Created",
                        "ALREADY_EXISTS", "ALREADY_EXISTS")
             \/ /\ o \notin payments /\ ordersSeen[o].payments = "Created"
                /\ payments' = payments \cup {o}
                /\ Reply(c, Answer([created |-> TRUE, payment |-> [id |-> o, orderId |-> o]]))
                /\ UNCHANGED <<tickets, ticketsSeen, orders, lapsed, ordersSeen>>
       \/ Fail(c)

Serve(c) ==
    \/ CreateTicket(c) \/ UpdateTicket(c) \/ GetTicket(c) \/ ListTickets(c)
    \/ CreateOrder(c) \/ CancelOrder(c) \/ GetOrder(c) \/ ListOrders(c)
    \/ CreatePayment(c)

-----------------------------------------------------------------------------
(* Events between the services, and time *)

\* TicketCreated reaches orders.
TicketEvent(t) ==
    /\ tickets[t] # Missing /\ t \notin ticketsSeen
    /\ ticketsSeen' = ticketsSeen \cup {t}
    /\ UNCHANGED <<tickets, orders, lapsed, ordersSeen, payments>>

\* OrderCreated, then OrderCanceled, reaches payments and tickets, each at its
\* own time.
OrderEvent(o, service) ==
    LET seen == ordersSeen[o][service]
        t == orders[o].ticketId IN
    /\ orders[o] # Missing
    /\ \/ /\ seen = "none"
          /\ service = "tickets" => tickets[t].reservedBy = NoOrder
          /\ ordersSeen' = [ordersSeen EXCEPT ![o][service] = "Created"]
          /\ tickets' = IF service = "tickets"
                        THEN [tickets EXCEPT ![t].reservedBy = o] ELSE tickets
       \/ /\ seen = "Created" /\ orders[o].status = "Canceled"
          /\ ordersSeen' = [ordersSeen EXCEPT ![o][service] = "Canceled"]
          /\ tickets' = IF service = "tickets"
                        THEN [tickets EXCEPT ![t].reservedBy = NoOrder] ELSE tickets
    /\ UNCHANGED <<ticketsSeen, orders, lapsed, payments>>

\* A payment event reaches orders, or the expiration of an unpaid order does.
OrderMoves(o, status) ==
    /\ orders[o] # Missing /\ orders[o].status \in Active
    /\ \/ status = "AwaitingPayment" /\ orders[o].status = "Created" /\ o \in payments
       \/ status \in {"Complete", "Canceled"} /\ o \in payments
       \/ status = "Canceled" /\ orders[o].status = "Created" /\ o \in lapsed
    /\ orders' = [orders EXCEPT ![o].status = status]
    /\ UNCHANGED <<tickets, ticketsSeen, lapsed, ordersSeen, payments>>

Lapse(o) ==
    /\ orders[o] # Missing /\ o \notin lapsed
    /\ lapsed' = lapsed \cup {o}
    /\ UNCHANGED <<tickets, ticketsSeen, orders, ordersSeen, payments>>

Background ==
    \/ \E t \in TicketIds : TicketEvent(t)
    \/ \E o \in OrderIds :
        \/ \E service \in {"tickets", "payments"} : OrderEvent(o, service)
        \/ Lapse(o)
        \/ \E status \in {"AwaitingPayment", "Complete", "Canceled"} : OrderMoves(o, status)

-----------------------------------------------------------------------------
\* The tickets there are at the start: id, price and user.
TablesInit(onSale) ==
    /\ tickets = [t \in TicketIds |->
                    IF \E x \in onSale : x.id = t
                    THEN LET x == CHOOSE x \in onSale : x.id = t IN
                         [price |-> x.price, userId |-> x.userId, reservedBy |-> NoOrder]
                    ELSE Missing]
    /\ ticketsSeen = {x.id : x \in onSale}
    /\ orders = [o \in OrderIds |-> Missing]
    /\ lapsed = {}
    /\ ordersSeen = [o \in OrderIds |-> [tickets |-> "none", payments |-> "none"]]
    /\ payments = {}

\* The tables are well formed.
TablesOK ==
    /\ \A t \in TicketIds : tickets[t] # Missing =>
        tickets[t] \in [price : Prices, userId : Users, reservedBy : OrderIds \cup {NoOrder}]
    /\ ticketsSeen \subseteq TicketIds
    /\ \A o \in OrderIds : orders[o] # Missing =>
        orders[o] \in [ticketId : TicketIds, userId : Users,
                       status : {"Created", "AwaitingPayment", "Complete", "Canceled"}]
    /\ lapsed \subseteq OrderIds /\ payments \subseteq OrderIds
    /\ ordersSeen \in
        [OrderIds -> [{"tickets", "payments"} -> {"none", "Created", "Canceled"}]]
=============================================================================
