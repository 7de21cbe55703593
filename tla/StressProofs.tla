---------------------------- MODULE StressProofs ----------------------------
(***************************************************************************)
(* Theorems about Stress, for every number of cycles, every set of         *)
(* tickets, orders and prices, and any number of calls beside the          *)
(* client's.                                                               *)
(***************************************************************************)
EXTENDS Stress, TLAPS

----------------------------------------------------------------------------
(* The inductive invariant. *)

TicketRow == [price : Prices, userId : Users, reservedBy : OrderIds \cup {NoOrder}]

OrderRow ==
    [ticketId : TicketIds, userId : Users,
     status : {"Created", "AwaitingPayment", "Complete", "Canceled"}]

\* What an order or the copy of the orders service names is there, so that no
\* event finds the row of its ticket missing.
TablesInv ==
    /\ tickets = [t \in TicketIds |-> tickets[t]]
    /\ \A t \in TicketIds : tickets[t] = Missing \/ tickets[t] \in TicketRow
    /\ \A t \in ticketsSeen : t \in TicketIds /\ tickets[t] # Missing
    /\ orders = [o \in OrderIds |-> orders[o]]
    /\ \A o \in OrderIds : orders[o] # Missing =>
         orders[o] \in OrderRow /\ tickets[orders[o].ticketId] # Missing

CallFields == {"phase", "method", "request", "metadata", "token", "reply", "abandoned"}

IsCall(x) ==
    /\ x = [f \in CallFields |-> x[f]]
    /\ x.phase \in {"sent", "done"} /\ x.abandoned \in BOOLEAN

\* Only the client's calls write tickets.
CallsInv ==
    /\ rpc = [c \in Calls |-> rpc[c]]
    /\ \A c \in Calls :
        rpc[c] # Idle =>
            /\ IsCall(rpc[c])
            /\ c # Client => rpc[c].method \in {"CreateOrder", "CancelOrder"}

Done == {finalTickets[i].id : i \in 1 .. Len(finalTickets)}

Rows == {t \in TicketIds : tickets[t] # Missing}

\* The finished tickets have their second update; at most one more is there.
CycleInv ==
    /\ finalTickets \in Seq([id : TicketIds, price : {FINAL_UPDATE_PRICE}])
    /\ \A i, j \in 1 .. Len(finalTickets) : finalTickets[i].id = finalTickets[j].id => i = j
    /\ Done \subseteq Rows
    /\ \A t, u \in Rows \ Done : t = u
    /\ \A t \in Done : tickets[t].price = FINAL_UPDATE_PRICE

\* The client's call is the one of its step.
CallOfStep(call) ==
    call # Idle =>
        /\ ~call.abandoned
        /\ step = "create" => call.method = "CreateTicket"
        /\ step = "firstUpdate" =>
            call.method = "UpdateTicket" /\ call.request.id = ticketId
        /\ step = "secondUpdate" =>
            /\ call.method = "UpdateTicket" /\ call.request.id = ticketId
            /\ call.request.price = FINAL_UPDATE_PRICE
        /\ step = "verify" => call.method = "GetTicket"

Succeeded(call) == call # Idle /\ call.phase = "done" /\ call.reply.code = "OK"

\* The ticket of the present cycle; the client learns of it with the answer.
Open(call) ==
    IF step \in {"firstUpdate", "secondUpdate"} THEN {ticketId}
    ELSE IF step = "create" /\ Succeeded(call) THEN {call.reply.message.id} ELSE {}

\* While the run goes on, the client knows every ticket there is.
LoopInv(call) ==
    /\ step \in {"create", "firstUpdate", "secondUpdate", "verify"}
    /\ CallOfStep(call)
    /\ Rows = Done \cup Open(call) /\ Open(call) \cap Done = {}
    /\ step = "secondUpdate" /\ Succeeded(call) => tickets[ticketId].price = FINAL_UPDATE_PRICE

\* After it stopped, a call it has left behind may still write.
LeftInv(call) ==
    call # Idle /\ call.phase = "sent" =>
        /\ call.method = "CreateTicket" => Rows = Done
        /\ call.method = "UpdateTicket" => call.request.id \notin Done

Ongoing == outcome \in {"running", "complete"}

LimitInv ==
    /\ limit \in Nat
    /\ limit > 0 => IF step = "verify" THEN Len(finalTickets) = limit ELSE Len(finalTickets) < limit
    /\ outcome = "running" => limit > 0
    /\ outcome = "complete" => limit > 0 /\ step = "verify"

ClientInv ==
    /\ CycleInv /\ LimitInv
    /\ IF Ongoing THEN LoopInv(rpc[Client]) ELSE LeftInv(rpc[Client])

Inv == TablesInv /\ CallsInv /\ ClientInv

----------------------------------------------------------------------------
(* Calls. *)

\* The status of a response is a success exactly if the call succeeded.
LEMMA SuccessIsOK ==
    ASSUME NEW c
    PROVE  /\ requestJson(c) <=> rpc[c].reply.code = "OK"
           /\ requestJson(c) =>
                Status(c) = IF rpc[c].method = "CreateTicket" THEN 201 ELSE 200
  <1>1. \A code : httpStatusFromGrpcCode(code) \in {400, 401, 403, 404, 409, 429, 500, 503}
    BY DEF httpStatusFromGrpcCode
  <1>2. \A error : Catch(throwGatewayGrpcError(error, {})).status
                     \in {400, 401, 403, 404, 409, 429, 500, 503}
    BY <1>1 DEF Catch, getHttpStatus, throwGatewayGrpcError, ApiError
  <1>3. ASSUME rpc[c].reply.code # "OK" PROVE ~requestJson(c)
    <2>1. Status(c) \in {400, 401, 403, 404, 409, 429, 500, 503}
      BY <1>2, <1>3 DEF Status
    <2> QED
      BY <2>1 DEF requestJson
  <1>4. ASSUME rpc[c].reply.code = "OK"
        PROVE  /\ Status(c) = IF rpc[c].method = "CreateTicket" THEN 201 ELSE 200
               /\ requestJson(c)
    BY <1>4 DEF Status, requestJson
  <1> QED
    BY <1>3, <1>4

\* An answered call keeps what it asked; nobody reads the answer to one left behind.
LEMMA ReplyShape ==
    ASSUME CallsInv, NEW c \in Calls, rpc[c] # Idle, NEW answer, Reply(c, answer)
    PROVE  /\ CallsInv'
           /\ rpc[c].abandoned => rpc'[c] = Idle
           /\ ~rpc[c].abandoned =>
                /\ rpc'[c] # Idle /\ rpc'[c].phase = "done" /\ rpc'[c].reply = answer
                /\ rpc'[c].method = rpc[c].method /\ rpc'[c].request = rpc[c].request
                /\ rpc'[c].abandoned = FALSE
           /\ \A d \in Calls : d # c => rpc'[d] = rpc[d]
  <1>1. PICK x : x = rpc[c]
    OBVIOUS
  <1>2. IsCall(x)
    BY <1>1 DEF CallsInv
  <1>3. PICK y : y = [x EXCEPT !.phase = "done", !.reply = answer]
    OBVIOUS
  <1>4. /\ IsCall(y) /\ y.phase = "done" /\ y.reply = answer
        /\ y.method = x.method /\ y.request = x.request /\ y.abandoned = x.abandoned
    BY <1>2, <1>3 DEF IsCall, CallFields
  <1>5. y # Idle
    BY <1>4 DEF Idle
  <1>6. PICK z : z = IF x.abandoned THEN Idle ELSE y
    OBVIOUS
  <1>7. rpc' = [rpc EXCEPT ![c] = z]
    BY <1>1, <1>3, <1>6 DEF Reply
  <1>8. rpc'[c] = z /\ rpc' = [d \in Calls |-> rpc'[d]] /\ \A d \in Calls : d # c => rpc'[d] = rpc[d]
    BY <1>7 DEF CallsInv
  <1>9. z # Idle => IsCall(z) /\ z.method = x.method
    BY <1>4, <1>6
  <1>10. CallsInv'
    BY <1>1, <1>8, <1>9 DEF CallsInv
  <1>11. x.abandoned \in BOOLEAN
    BY <1>2 DEF IsCall
  <1> QED
    BY <1>1, <1>4, <1>5, <1>6, <1>8, <1>10, <1>11

LEMMA SentShape ==
    ASSUME CallsInv, NEW c \in Calls, NEW method, NEW request,
           c # Client => method \in {"CreateOrder", "CancelOrder"},
           rpc' = [rpc EXCEPT ![c] = Sent(method, request, NoMetadata)]
    PROVE  /\ CallsInv'
           /\ rpc'[c] # Idle /\ rpc'[c].phase = "sent"
           /\ rpc'[c].method = method /\ rpc'[c].request = request /\ rpc'[c].abandoned = FALSE
           /\ \A d \in Calls : d # c => rpc'[d] = rpc[d]
  <1>1. PICK y : y = Sent(method, request, NoMetadata)
    OBVIOUS
  <1>2. /\ IsCall(y) /\ y.phase = "sent" /\ y.method = method /\ y.request = request
        /\ y.abandoned = FALSE
    BY <1>1 DEF IsCall, CallFields, Sent
  <1>3. y # Idle
    BY <1>2 DEF Idle
  <1>4. rpc'[c] = y /\ rpc' = [d \in Calls |-> rpc'[d]] /\ \A d \in Calls : d # c => rpc'[d] = rpc[d]
    BY <1>1 DEF CallsInv
  <1>5. CallsInv'
    BY <1>2, <1>4 DEF CallsInv
  <1> QED
    BY <1>2, <1>3, <1>4, <1>5

\* Who has a phase of a call has a call.
LEMMA PhaseIsCall ==
    ASSUME NEW x
    PROVE  x.phase # "idle" => x # Idle
  BY DEF Idle

----------------------------------------------------------------------------
(* What the services do to the tables. *)

\* No ticket comes, goes or changes its price.
TicketsSame ==
    \A t \in TicketIds :
        /\ tickets'[t] = Missing <=> tickets[t] = Missing
        /\ tickets[t] # Missing => tickets'[t].price = tickets[t].price

\* What a call of the services does to the tickets, by what it answers.
TicketsWritten(method, request, answer) ==
    \/ TicketsSame /\ (method \in {"CreateTicket", "UpdateTicket"} => answer.code # "OK")
    \/ /\ method = "CreateTicket" /\ answer.code = "OK"
       /\ \E t \in TicketIds :
            /\ tickets[t] = Missing /\ tickets'[t] # Missing
            /\ answer.message.id = t
            /\ \A x \in TicketIds : x # t => tickets'[x] = tickets[x]
    \/ /\ method = "UpdateTicket" /\ answer.code = "OK"
       /\ request.id \in TicketIds
       /\ tickets[request.id] # Missing /\ tickets'[request.id] # Missing
       /\ tickets'[request.id].price = request.price
       /\ \A x \in TicketIds : x # request.id => tickets'[x] = tickets[x]

LEMMA TablesUntouched ==
    ASSUME TablesInv, UNCHANGED <<tickets, ticketsSeen, orders>>
    PROVE  TablesInv' /\ TicketsSame
  BY DEF TablesInv, TicketsSame

\* A step writes one row of the tickets table.
LEMMA TicketWritten ==
    ASSUME TablesInv, NEW t \in TicketIds, NEW row \in TicketRow, tickets' = [tickets EXCEPT ![t] = row],
           UNCHANGED <<ticketsSeen, orders>>
    PROVE  /\ TablesInv' /\ tickets'[t] = row /\ row # Missing
           /\ \A x \in TicketIds : x # t => tickets'[x] = tickets[x]
  <1>1. row # Missing
    BY MissingAssumption DEF TicketRow
  <1>2. /\ tickets' = [x \in TicketIds |-> tickets'[x]]
        /\ tickets'[t] = row
        /\ \A x \in TicketIds : x # t => tickets'[x] = tickets[x]
    BY DEF TablesInv
  <1>3. \A x \in TicketIds : tickets[x] # Missing => tickets'[x] # Missing
    BY <1>1, <1>2
  <1>4. \A o \in OrderIds : orders[o] # Missing => orders[o].ticketId \in TicketIds
    BY DEF TablesInv, OrderRow
  <1>5. TablesInv'
    BY <1>2, <1>3, <1>4 DEF TablesInv
  <1> QED
    BY <1>1, <1>2, <1>5

\* A step writes one row of the orders table.
LEMMA OrderWritten ==
    ASSUME TablesInv, NEW o \in OrderIds, NEW row \in OrderRow, tickets[row.ticketId] # Missing,
           orders' = [orders EXCEPT ![o] = row], UNCHANGED <<tickets, ticketsSeen>>
    PROVE  TablesInv' /\ TicketsSame
  <1>1. /\ orders' = [x \in OrderIds |-> orders'[x]]
        /\ orders'[o] = row
        /\ \A x \in OrderIds : x # o => orders'[x] = orders[x]
    BY DEF TablesInv
  <1> QED
    BY <1>1 DEF TablesInv, TicketsSame

\* A step that changes the status of an order.
LEMMA OrderMoved ==
    ASSUME TablesInv, NEW o \in OrderIds, orders[o] # Missing,
           NEW status \in {"Created", "AwaitingPayment", "Complete", "Canceled"},
           orders' = [orders EXCEPT ![o].status = status], UNCHANGED <<tickets, ticketsSeen>>
    PROVE  TablesInv' /\ TicketsSame
  <1>1. orders[o] \in OrderRow /\ tickets[orders[o].ticketId] # Missing
    BY DEF TablesInv
  <1>2. PICK row : row = [orders[o] EXCEPT !.status = status]
    OBVIOUS
  <1>3. row \in OrderRow /\ row.ticketId = orders[o].ticketId /\ orders' = [orders EXCEPT ![o] = row]
    BY <1>1, <1>2 DEF OrderRow
  <1> QED
    BY <1>1, <1>3, OrderWritten

\* A step that reserves a ticket or lets it go.
LEMMA TicketReserved ==
    ASSUME TablesInv, NEW t \in TicketIds, tickets[t] # Missing, NEW by \in OrderIds \cup {NoOrder},
           tickets' = [tickets EXCEPT ![t].reservedBy = by], UNCHANGED <<ticketsSeen, orders>>
    PROVE  TablesInv' /\ TicketsSame
  <1>1. tickets[t] \in TicketRow
    BY DEF TablesInv
  <1>2. PICK row : row = [tickets[t] EXCEPT !.reservedBy = by]
    OBVIOUS
  <1>3. row \in TicketRow /\ row.price = tickets[t].price /\ tickets' = [tickets EXCEPT ![t] = row]
    BY <1>1, <1>2 DEF TicketRow
  <1>4. /\ TablesInv' /\ tickets'[t] = row /\ row # Missing
        /\ \A x \in TicketIds : x # t => tickets'[x] = tickets[x]
    BY <1>3, TicketWritten
  <1> QED
    BY <1>3, <1>4 DEF TicketsSame

\* A call that was handled was answered, and wrote the tickets as its answer says.
LEMMA ServicesWrite ==
    ASSUME TablesInv, NEW c \in Calls, Serve(c),
           NEW method, method = rpc[c].method, NEW request, request = rpc[c].request
    PROVE  /\ TablesInv' /\ rpc[c] # Idle
           /\ \E answer : Reply(c, answer) /\ TicketsWritten(method, request, answer)
  <1> DEFINE Goal == /\ TablesInv'
                     /\ \E answer : Reply(c, answer) /\ TicketsWritten(method, request, answer)
  <1> DEFINE Writes == method \in {"CreateTicket", "UpdateTicket"}
  <1>1. rpc[c].phase = "sent"
    BY DEF Serve, CreateTicket, UpdateTicket, GetTicket, ListTickets, CreateOrder, CancelOrder,
           GetOrder, ListOrders, CreatePayment, Waits
  <1>2. rpc[c] # Idle
    BY <1>1, PhaseIsCall
  <1>3. ASSUME UNCHANGED tables PROVE TablesInv' /\ TicketsSame
    BY <1>3, TablesUntouched DEF tables
  <1>4. ASSUME NEW code, NEW item, code # "OK", Refuse(c, code, item), UNCHANGED tables
        PROVE  Goal
    <2>1. PICK answer : answer = Failure(code, {Item(item, "service")})
      OBVIOUS
    <2>2. Reply(c, answer) /\ answer.code # "OK"
      BY <1>4, <2>1 DEF Refuse, Failure
    <2> QED
      BY <1>3, <1>4, <2>2 DEF TicketsWritten
  <1>5. ASSUME NEW message, Reply(c, Answer(message)), TablesInv', TicketsSame, ~Writes
        PROVE  Goal
    BY <1>5 DEF TicketsWritten
  <1>6. ASSUME NEW message, Read(c, message), ~Writes
        PROVE  Goal
    <2>1. Reply(c, Answer(message)) /\ TablesInv' /\ TicketsSame
      BY <1>3, <1>6 DEF Read
    <2> QED
      BY <1>5, <1>6, <2>1
  <1> HIDE DEF Goal
  <1>7. ASSUME Fail(c) PROVE Goal
    BY <1>4, <1>7 DEF Fail
  <1>8. ASSUME NEW condition, NEW item,
               NEW code \in {"INVALID_ARGUMENT", "NOT_FOUND", "ALREADY_EXISTS", "PERMISSION_DENIED"},
               Refuses(c, condition, code, item)
        PROVE  Goal
    BY <1>4, <1>8 DEF Refuses
  <1>9. CASE CreateTicket(c)
    <2>0. method = "CreateTicket"
      BY <1>9 DEF CreateTicket, Waits
    <2>1. \/ Goal
          \/ /\ validateMutation(request) = ""
             /\ \E t \in TicketIds :
                /\ tickets[t] = Missing
                /\ tickets' = [tickets EXCEPT ![t] =
                     [price |-> request.price, userId |-> request.userId, reservedBy |-> NoOrder]]
                /\ Reply(c, Answer([id |-> t, price |-> request.price, userId |-> request.userId]))
             /\ UNCHANGED <<ticketsSeen, orders>>
      BY <1>7, <1>8, <1>9 DEF CreateTicket
    <2>2. ASSUME validateMutation(request) = "", UNCHANGED <<ticketsSeen, orders>>,
                 NEW t \in TicketIds, tickets[t] = Missing,
                 tickets' = [tickets EXCEPT ![t] =
                     [price |-> request.price, userId |-> request.userId, reservedBy |-> NoOrder]],
                 Reply(c, Answer([id |-> t, price |-> request.price, userId |-> request.userId]))
          PROVE  Goal
      <3>1. PICK row : row = [price |-> request.price, userId |-> request.userId, reservedBy |-> NoOrder]
        OBVIOUS
      <3>2. row \in TicketRow /\ tickets' = [tickets EXCEPT ![t] = row]
        BY <2>2, <3>1 DEF TicketRow, validateMutation
      <3>3. /\ TablesInv' /\ tickets'[t] = row /\ row # Missing
            /\ \A x \in TicketIds : x # t => tickets'[x] = tickets[x]
        BY <2>2, <3>2, TicketWritten
      <3>4. PICK answer : answer = Answer([id |-> t, price |-> request.price, userId |-> request.userId])
        OBVIOUS
      <3>5. Reply(c, answer) /\ answer.code = "OK" /\ answer.message.id = t
        BY <2>2, <3>4 DEF Answer
      <3>6. TicketsWritten(method, request, answer)
        BY <2>0, <2>2, <3>3, <3>5 DEF TicketsWritten
      <3> QED
        BY <3>3, <3>5, <3>6 DEF Goal
    <2> QED
      BY <1>2, <2>1, <2>2 DEF Goal
  <1>10. CASE UpdateTicket(c)
    <2>0. method = "UpdateTicket"
      BY <1>10 DEF UpdateTicket, Waits
    <2>1. PICK t : t = request.id
      OBVIOUS
    <2>2. \/ Goal
          \/ /\ validateMutation(request) = "" /\ t \in TicketIds /\ tickets[t] # Missing
             /\ tickets' = [tickets EXCEPT ![t].price = request.price]
             /\ Reply(c, Answer([ticket |-> [id |-> t, price |-> request.price,
                                             userId |-> request.userId]]))
             /\ UNCHANGED <<ticketsSeen, orders>>
      BY <1>7, <1>8, <1>10, <2>1 DEF UpdateTicket
    <2>3. ASSUME validateMutation(request) = "", t \in TicketIds, tickets[t] # Missing,
                 tickets' = [tickets EXCEPT ![t].price = request.price],
                 Reply(c, Answer([ticket |-> [id |-> t, price |-> request.price,
                                              userId |-> request.userId]])),
                 UNCHANGED <<ticketsSeen, orders>>
          PROVE  Goal
      <3>1. PICK row : row = [tickets[t] EXCEPT !.price = request.price]
        OBVIOUS
      <3>2. tickets[t] \in TicketRow /\ request.price \in Prices
        BY <2>3 DEF TablesInv, validateMutation
      <3>3. row \in TicketRow /\ row.price = request.price /\ tickets' = [tickets EXCEPT ![t] = row]
        BY <2>3, <3>1, <3>2 DEF TicketRow
      <3>4. /\ TablesInv' /\ tickets'[t] = row /\ row # Missing
            /\ \A x \in TicketIds : x # t => tickets'[x] = tickets[x]
        BY <2>3, <3>3, TicketWritten
      <3>5. PICK answer : answer = Answer([ticket |-> [id |-> t, price |-> request.price,
                                                       userId |-> request.userId]])
        OBVIOUS
      <3>6. Reply(c, answer) /\ answer.code = "OK"
        BY <2>3, <3>5 DEF Answer
      <3>7. TicketsWritten(method, request, answer)
        BY <2>0, <2>1, <2>3, <3>3, <3>4, <3>6 DEF TicketsWritten
      <3> QED
        BY <3>4, <3>6, <3>7 DEF Goal
    <2> QED
      BY <1>2, <2>2, <2>3 DEF Goal
  <1>11. CASE GetTicket(c) \/ ListTickets(c) \/ GetOrder(c) \/ ListOrders(c)
    <2>0. ~Writes
      BY <1>11 DEF GetTicket, ListTickets, GetOrder, ListOrders, Waits
    <2>1. Goal
      BY <1>6, <1>7, <1>8, <1>11, <2>0 DEF GetTicket, ListTickets, GetOrder, ListOrders
    <2> QED
      BY <1>2, <2>1 DEF Goal
  <1>12. CASE CreateOrder(c)
    <2>0. ~Writes
      BY <1>12 DEF CreateOrder, Waits
    <2>1. PICK t, user : t = rpc[c].request.ticketId /\ user = rpc[c].request.userId
      OBVIOUS
    <2>2. \/ Goal
          \/ /\ t \in ticketsSeen /\ validateTicketReservation(t, user)
             /\ \E o \in OrderIds :
                /\ orders' = [orders EXCEPT ![o] = [ticketId |-> t, userId |-> user, status |-> "Created"]]
                /\ Reply(c, Answer(toCreateOrderResponse(o, orders'[o], TRUE)))
             /\ UNCHANGED <<tickets, ticketsSeen>>
      BY <1>6, <1>7, <1>8, <1>12, <2>0, <2>1 DEF CreateOrder
    <2>3. ASSUME t \in ticketsSeen, validateTicketReservation(t, user),
                 UNCHANGED <<tickets, ticketsSeen>>,
                 NEW o \in OrderIds,
                 orders' = [orders EXCEPT ![o] = [ticketId |-> t, userId |-> user, status |-> "Created"]],
                 Reply(c, Answer(toCreateOrderResponse(o, orders'[o], TRUE)))
          PROVE  Goal
      <3>1. PICK row : row = [ticketId |-> t, userId |-> user, status |-> "Created"]
        OBVIOUS
      <3>2. /\ row \in OrderRow /\ tickets[row.ticketId] # Missing
            /\ orders' = [orders EXCEPT ![o] = row]
        BY <2>3, <3>1 DEF TablesInv, validateTicketReservation, OrderRow
      <3>3. TablesInv' /\ TicketsSame
        BY <2>3, <3>2, OrderWritten
      <3> QED
        BY <1>5, <2>0, <2>3, <3>3
    <2> QED
      BY <1>2, <2>2, <2>3 DEF Goal
  <1>13. CASE CancelOrder(c)
    <2>0. ~Writes
      BY <1>13 DEF CancelOrder, Waits
    <2>1. PICK o : o = rpc[c].request.orderId
      OBVIOUS
    <2>2. \/ Goal
          \/ /\ o \in OrderIds /\ orders[o] # Missing
             /\ orders' = [orders EXCEPT ![o].status = "Canceled"]
             /\ Reply(c, Answer([order |-> OrderOf(o, orders'[o])]))
             /\ UNCHANGED <<tickets, ticketsSeen>>
      BY <1>6, <1>7, <1>8, <1>13, <2>0, <2>1 DEF CancelOrder, OwnOrder
    <2>3. ASSUME o \in OrderIds, orders[o] # Missing,
                 orders' = [orders EXCEPT ![o].status = "Canceled"],
                 Reply(c, Answer([order |-> OrderOf(o, orders'[o])])),
                 UNCHANGED <<tickets, ticketsSeen>>
          PROVE  Goal
      <3>1. TablesInv' /\ TicketsSame
        BY <2>3, OrderMoved
      <3> QED
        BY <1>5, <2>0, <2>3, <3>1
    <2> QED
      BY <1>2, <2>2, <2>3 DEF Goal
  <1>14. CASE CreatePayment(c)
    <2>0. ~Writes
      BY <1>14 DEF CreatePayment, Waits
    <2>1. \/ Goal
          \/ /\ \E message : Reply(c, Answer(message))
             /\ UNCHANGED <<tickets, ticketsSeen, orders>>
      BY <1>6, <1>7, <1>8, <1>14, <2>0 DEF CreatePayment
    <2>2. Goal
      BY <1>5, <2>0, <2>1, TablesUntouched
    <2> QED
      BY <1>2, <2>2 DEF Goal
  <1> QED
    BY <1>9, <1>10, <1>11, <1>12, <1>13, <1>14 DEF Serve

\* Events between the services change no price, and no ticket comes or goes.
LEMMA EventsWrite ==
    ASSUME TablesInv, Background
    PROVE  TablesInv' /\ TicketsSame
  <1>1. ASSUME NEW t \in TicketIds, TicketEvent(t) PROVE TablesInv' /\ TicketsSame
    BY <1>1 DEF TicketEvent, TablesInv, TicketsSame
  <1>2. ASSUME NEW o \in OrderIds, NEW service \in {"tickets", "payments"}, OrderEvent(o, service)
        PROVE  TablesInv' /\ TicketsSame
    <2>1. PICK t : t = orders[o].ticketId
      OBVIOUS
    <2>2. t \in TicketIds /\ tickets[t] # Missing
      BY <1>2, <2>1 DEF OrderEvent, TablesInv, OrderRow
    <2>3. /\ UNCHANGED <<ticketsSeen, orders>>
          /\ \/ UNCHANGED tickets
             \/ \E by \in OrderIds \cup {NoOrder} : tickets' = [tickets EXCEPT ![t].reservedBy = by]
      BY <1>2, <2>1 DEF OrderEvent
    <2> QED
      BY <2>2, <2>3, TablesUntouched, TicketReserved
  <1>3. ASSUME NEW o \in OrderIds, Lapse(o) PROVE TablesInv' /\ TicketsSame
    BY <1>3, TablesUntouched DEF Lapse
  <1>4. ASSUME NEW o \in OrderIds, NEW status \in {"AwaitingPayment", "Complete", "Canceled"},
               OrderMoves(o, status)
        PROVE  TablesInv' /\ TicketsSame
    BY <1>4, OrderMoved DEF OrderMoves
  <1> QED
    BY <1>1, <1>2, <1>3, <1>4 DEF Background

----------------------------------------------------------------------------
(* The loop of the client. *)

LEMMA CycleKept ==
    ASSUME CycleInv, UNCHANGED finalTickets, TicketsSame
    PROVE  CycleInv'
  <1>1. Rows' = Rows /\ \A t \in Rows : tickets'[t].price = tickets[t].price
    BY DEF Rows, TicketsSame
  <1>2. Done' = Done
    BY DEF Done
  <1> QED
    BY <1>1, <1>2 DEF CycleInv

\* The client's place in the loop does not depend on what the others do.
LEMMA LoopKept ==
    ASSUME NEW call, LoopInv(call), UNCHANGED client, TicketsSame
    PROVE  LoopInv(call)'
  <1>1. Rows' = Rows /\ \A t \in Rows : tickets'[t].price = tickets[t].price
    BY DEF Rows, TicketsSame
  <1>2. UNCHANGED <<Done, Open(call), CallOfStep(call), Succeeded(call)>>
    BY DEF client, Done, Open, CallOfStep, Succeeded
  <1>3. step = "secondUpdate" => ticketId \in Rows
    BY DEF LoopInv, Open
  <1> QED
    BY <1>1, <1>2, <1>3 DEF LoopInv, client

LEMMA LeftKept ==
    ASSUME NEW call, LeftInv(call), UNCHANGED finalTickets, TicketsSame
    PROVE  LeftInv(call)'
  BY DEF LeftInv, Rows, Done, TicketsSame

\* The same for a call that brings no news of the ticket.
LEMMA LoopNoNews ==
    ASSUME NEW call, NEW other, LoopInv(call), CallOfStep(other), Open(other) = Open(call),
           step = "secondUpdate" => ~Succeeded(other)
    PROVE  LoopInv(other)
  BY DEF LoopInv

\* A call of the client writes one ticket, and none that is finished.
LEMMA CycleWritten ==
    ASSUME CycleInv, UNCHANGED finalTickets,
           NEW method, NEW request, NEW answer, TicketsWritten(method, request, answer),
           method = "CreateTicket" => Rows = Done,
           method = "UpdateTicket" => request.id \notin Done
    PROVE  CycleInv'
  <1>1. Done' = Done /\ Done \subseteq TicketIds
    BY DEF Done, CycleInv, Rows
  <1>2. ASSUME NEW t \in TicketIds, t \notin Done, tickets'[t] # Missing,
               \A x \in TicketIds : x # t => tickets'[x] = tickets[x],
               Rows' = Rows \/ (Rows = Done /\ Rows' = Done \cup {t})
        PROVE  CycleInv'
    <2>1. \A x \in Done : tickets'[x] = tickets[x]
      BY <1>1, <1>2
    <2> QED
      BY <1>1, <1>2, <2>1 DEF CycleInv
  <1>3. ASSUME method = "CreateTicket",
               NEW t \in TicketIds, tickets[t] = Missing, tickets'[t] # Missing,
               \A x \in TicketIds : x # t => tickets'[x] = tickets[x]
        PROVE  CycleInv'
    <2>1. Rows' = Rows \cup {t} /\ t \notin Rows
      BY <1>3 DEF Rows
    <2> QED
      BY <1>2, <1>3, <2>1
  <1>4. ASSUME method = "UpdateTicket",
               NEW t \in TicketIds, t = request.id, tickets[t] # Missing, tickets'[t] # Missing,
               \A x \in TicketIds : x # t => tickets'[x] = tickets[x]
        PROVE  CycleInv'
    <2>1. Rows' = Rows
      BY <1>4 DEF Rows
    <2> QED
      BY <1>2, <1>4, <2>1
  <1> QED
    BY <1>3, <1>4, CycleKept DEF TicketsWritten

\* The answer to the client's call, and what it wrote.
LEMMA LoopAnswered ==
    ASSUME NEW call, NEW answered, LoopInv(call),
           call # Idle, call.phase = "sent",
           answered # Idle, answered.phase = "done", answered.abandoned = FALSE,
           answered.method = call.method, answered.request = call.request,
           UNCHANGED client, TicketsWritten(call.method, call.request, answered.reply)
    PROVE  LoopInv(answered)'
  <1>1. CallOfStep(answered) /\ ~Succeeded(call)
    BY DEF LoopInv, CallOfStep, Succeeded
  <1>2. UNCHANGED <<Done, Open(answered), CallOfStep(answered), Succeeded(answered)>>
    BY DEF client, Done, Open, CallOfStep, Succeeded
  <1>3. CASE TicketsSame /\ (call.method \in {"CreateTicket", "UpdateTicket"} => answered.reply.code # "OK")
    <2>1. step \in {"create", "firstUpdate", "secondUpdate"} => ~Succeeded(answered)
      BY <1>1, <1>3 DEF CallOfStep, Succeeded
    <2>2. Open(answered) = Open(call)
      BY <1>1, <2>1 DEF Open
    <2>3. LoopInv(answered)
      BY <1>1, <2>1, <2>2, LoopNoNews
    <2> QED
      BY <1>3, <2>3, LoopKept
  <1>4. ASSUME call.method = "CreateTicket", answered.reply.code = "OK",
               NEW t \in TicketIds, tickets[t] = Missing, tickets'[t] # Missing,
               answered.reply.message.id = t,
               \A x \in TicketIds : x # t => tickets'[x] = tickets[x]
        PROVE  LoopInv(answered)'
    <2>1. step = "create"
      BY <1>4 DEF LoopInv, CallOfStep
    <2>2. Open(call) = {} /\ Open(answered) = {t}
      BY <1>1, <1>4, <2>1 DEF Open, Succeeded
    <2>3. Rows' = Rows \cup {t} /\ t \notin Rows
      BY <1>4 DEF Rows
    <2>4. Rows = Done
      BY <2>2 DEF LoopInv
    <2> QED
      BY <1>1, <1>2, <2>1, <2>2, <2>3, <2>4 DEF LoopInv, client
  <1>5. ASSUME call.method = "UpdateTicket", answered.reply.code = "OK",
               NEW t \in TicketIds, t = call.request.id,
               tickets[t] # Missing, tickets'[t] # Missing,
               tickets'[t].price = call.request.price,
               \A x \in TicketIds : x # t => tickets'[x] = tickets[x]
        PROVE  LoopInv(answered)'
    <2>1. step \in {"firstUpdate", "secondUpdate"} /\ t = ticketId
      BY <1>5 DEF LoopInv, CallOfStep
    <2>2. Open(call) = {t} /\ Open(answered) = {t}
      BY <2>1 DEF Open
    <2>3. Rows' = Rows
      BY <1>5 DEF Rows
    <2>4. step = "secondUpdate" => tickets'[ticketId].price = FINAL_UPDATE_PRICE
      BY <1>5, <2>1 DEF LoopInv, CallOfStep
    <2> QED
      BY <1>1, <1>2, <2>1, <2>2, <2>3, <2>4 DEF LoopInv, client
  <1> QED
    BY <1>3, <1>4, <1>5 DEF TicketsWritten

\* A call in flight writes nothing that is finished, whether the client waits or not.
LEMMA InFlight ==
    ASSUME NEW call, LoopInv(call)
    PROVE  LeftInv(call)
  BY DEF LoopInv, LeftInv, CallOfStep, Open, Succeeded

\* A step of somebody else.
LEMMA OthersStep ==
    ASSUME ClientInv, UNCHANGED client, rpc'[Client] = rpc[Client], TicketsSame
    PROVE  ClientInv'
  <1>1. PICK call : call = rpc[Client]
    OBVIOUS
  <1>2. Ongoing => LoopInv(call)'
    BY <1>1, LoopKept DEF ClientInv
  <1>3. ~Ongoing => LeftInv(call)'
    BY <1>1, LeftKept DEF ClientInv, client
  <1>4. CycleInv'
    BY CycleKept DEF ClientInv, client
  <1>5. LimitInv' /\ Ongoing' = Ongoing
    BY DEF ClientInv, LimitInv, client, Ongoing
  <1> QED
    BY <1>1, <1>2, <1>3, <1>4, <1>5 DEF ClientInv

\* A service, or the connection, answers a call.
LEMMA AnswerStep ==
    ASSUME Inv, NEW c \in Calls, rpc[c] # Idle, rpc[c].phase = "sent", NEW answer, Reply(c, answer),
           TicketsWritten(rpc[c].method, rpc[c].request, answer), TablesInv', UNCHANGED client
    PROVE  Inv'
  <1>1. /\ CallsInv'
        /\ rpc[c].abandoned => rpc'[c] = Idle
        /\ ~rpc[c].abandoned =>
             /\ rpc'[c] # Idle /\ rpc'[c].phase = "done" /\ rpc'[c].reply = answer
             /\ rpc'[c].method = rpc[c].method /\ rpc'[c].request = rpc[c].request
             /\ rpc'[c].abandoned = FALSE
        /\ \A d \in Calls : d # c => rpc'[d] = rpc[d]
    BY ReplyShape DEF Inv
  <1>2. CASE c = Client
    <2>1. PICK call, answered : call = rpc[Client] /\ answered = rpc'[Client]
      OBVIOUS
    <2>2. LeftInv(call)
      BY <2>1, InFlight DEF Inv, ClientInv
    <2>3. CycleInv'
      BY <1>2, <2>1, <2>2, CycleWritten DEF LeftInv, Inv, ClientInv, client
    <2>4. ASSUME Ongoing PROVE LoopInv(answered)'
      <3>1. LoopInv(call)
        BY <2>1, <2>4 DEF Inv, ClientInv
      <3>2. ~call.abandoned
        BY <1>2, <2>1, <3>1 DEF LoopInv, CallOfStep
      <3> QED
        BY <1>1, <1>2, <2>1, <3>1, <3>2, LoopAnswered
    <2>5. LeftInv(answered)'
      BY <1>1, <1>2, <2>1 DEF LeftInv
    <2>6. LimitInv' /\ Ongoing' = Ongoing
      BY DEF Inv, ClientInv, LimitInv, client, Ongoing
    <2> QED
      BY <1>1, <2>1, <2>3, <2>4, <2>5, <2>6 DEF Inv, ClientInv
  <1>3. CASE c # Client
    <2>1. rpc[c].method \in {"CreateOrder", "CancelOrder"}
      BY <1>3 DEF Inv, CallsInv
    <2>2. TicketsSame
      BY <2>1 DEF TicketsWritten
    <2>3. rpc'[Client] = rpc[Client]
      BY <1>1, <1>3, StressAssumption
    <2> QED
      BY <1>1, <2>2, <2>3, OthersStep DEF Inv
  <1> QED
    BY <1>2, <1>3

\* The client sends the request of its step.
LEMMA SendStep ==
    ASSUME Inv, NEW method, NEW request, Send(method, request), outcome = "running",
           step = "create" => method = "CreateTicket",
           step = "firstUpdate" => method = "UpdateTicket" /\ request.id = ticketId,
           step = "secondUpdate" => /\ method = "UpdateTicket" /\ request.id = ticketId
                                    /\ request.price = FINAL_UPDATE_PRICE,
           step = "verify" => method = "GetTicket"
    PROVE  Inv'
  <1>1. /\ CallsInv'
        /\ rpc'[Client] # Idle /\ rpc'[Client].phase = "sent" /\ rpc'[Client].abandoned = FALSE
        /\ rpc'[Client].method = method /\ rpc'[Client].request = request
    BY SentShape, StressAssumption DEF Inv, Send
  <1>2. TablesInv' /\ TicketsSame
    BY TablesUntouched DEF Send, tables, Inv
  <1>3. PICK call, other : call = rpc[Client] /\ other = rpc'[Client]
    OBVIOUS
  <1>4. LoopInv(call) /\ CallOfStep(other) /\ ~Succeeded(other) /\ ~Succeeded(call)
    BY <1>1, <1>3 DEF Inv, ClientInv, CallOfStep, Succeeded, Send, Ongoing
  <1>5. Open(other) = Open(call)
    BY <1>4 DEF Open
  <1>6. LoopInv(other)
    BY <1>4, <1>5, LoopNoNews
  <1>7. LoopInv(other)' /\ CycleInv'
    BY <1>2, <1>6, LoopKept, CycleKept DEF Send, client, Inv, ClientInv
  <1>8. LimitInv' /\ Ongoing'
    BY DEF Inv, ClientInv, LimitInv, client, Send, Ongoing
  <1> QED
    BY <1>1, <1>2, <1>3, <1>7, <1>8 DEF Inv, ClientInv

\* The connection breaks while the client waits.
LEMMA BreakStep ==
    ASSUME Inv, Break
    PROVE  Inv'
  <1>1. /\ outcome = "running" /\ outcome' = "requestFailed" /\ rpc[Client] # Idle
        /\ UNCHANGED <<tables, limit, step, ticketId, finalTickets, verified>>
    BY DEF Break
  <1>2. PICK x : x = rpc[Client]
    OBVIOUS
  <1>3. LeftInv(x) /\ IsCall(x)
    BY <1>1, <1>2, InFlight, StressAssumption DEF Inv, ClientInv, CallsInv, Ongoing
  <1>4. PICK y : y = [x EXCEPT !.abandoned = TRUE]
    OBVIOUS
  <1>5. IsCall(y) /\ y.phase = x.phase /\ y.method = x.method /\ y.request = x.request
    BY <1>3, <1>4 DEF IsCall, CallFields
  <1>6. PICK z : z = IF x.phase = "done" THEN Idle ELSE y
    OBVIOUS
  <1>7. rpc' = [rpc EXCEPT ![Client] = z]
    BY <1>2, <1>4, <1>6 DEF Break, Abandon
  <1>8. z # Idle => IsCall(z)
    BY <1>5, <1>6
  <1>9. rpc'[Client] = z /\ CallsInv'
    BY <1>7, <1>8, StressAssumption DEF Inv, CallsInv
  <1>10. LeftInv(z)
    BY <1>1, <1>2, <1>3, <1>5, <1>6 DEF LeftInv
  <1>11. TablesInv' /\ TicketsSame
    BY <1>1, TablesUntouched DEF tables, Inv
  <1>12. LeftInv(z)' /\ CycleInv'
    BY <1>1, <1>10, <1>11, LeftKept, CycleKept DEF Inv, ClientInv
  <1>13. LimitInv' /\ ~Ongoing'
    BY <1>1 DEF Inv, ClientInv, LimitInv, Ongoing
  <1> QED
    BY <1>9, <1>11, <1>12, <1>13 DEF Inv, ClientInv

\* The client has its answer: the call is gone, and the loop is where next leaves it.
LEMMA ReceiveStep ==
    ASSUME Inv, rpc' = [rpc EXCEPT ![Client] = Idle], UNCHANGED tables,
           LoopInv(Idle)', CycleInv', LimitInv', Ongoing'
    PROVE  Inv'
  <1>1. rpc'[Client] = Idle /\ CallsInv'
    BY StressAssumption DEF Inv, CallsInv
  <1>2. TablesInv'
    BY TablesUntouched DEF tables, Inv
  <1> QED
    BY <1>1, <1>2 DEF Inv, ClientInv

\* A failed response ends the run, and so does one that is not as expected.
LEMMA FailedReceive ==
    ASSUME Inv, rpc' = [rpc EXCEPT ![Client] = Idle], UNCHANGED <<tables, limit>>,
           UNCHANGED <<step, ticketId, finalTickets, verified>>,
           outcome' \in {"requestFailed", "unexpectedAnswer"}
    PROVE  Inv'
  <1>1. rpc'[Client] = Idle /\ CallsInv'
    BY StressAssumption DEF Inv, CallsInv
  <1>2. TablesInv' /\ TicketsSame
    BY TablesUntouched DEF tables, Inv
  <1>3. LeftInv(rpc[Client])'
    BY <1>1 DEF LeftInv
  <1>4. CycleInv'
    BY <1>2, CycleKept DEF Inv, ClientInv
  <1>5. LimitInv' /\ ~Ongoing'
    BY DEF Inv, ClientInv, LimitInv, Ongoing
  <1> QED
    BY <1>1, <1>2, <1>3, <1>4, <1>5 DEF Inv, ClientInv

\* An answer of the client's step: the run is over, or it goes on.
LEMMA ReceiveCases ==
    ASSUME Inv, NEW method, NEW checks, NEW next, Receive(method, checks, next)
    PROVE  \/ Inv'
           \/ /\ Succeeded(rpc[Client]) /\ next
              /\ rpc' = [rpc EXCEPT ![Client] = Idle] /\ UNCHANGED <<tables, limit>>
  <1>1. /\ rpc[Client].phase = "done" /\ rpc[Client] # Idle
        /\ rpc' = [rpc EXCEPT ![Client] = Idle] /\ UNCHANGED <<tables, limit>>
    BY PhaseIsCall DEF Receive, Waits
  <1>2. requestJson(Client) => Succeeded(rpc[Client])
    BY <1>1, SuccessIsOK DEF Succeeded
  <1>3. \/ /\ outcome' \in {"requestFailed", "unexpectedAnswer"}
           /\ UNCHANGED <<step, ticketId, finalTickets, verified>>
        \/ requestJson(Client) /\ next
    BY DEF Receive
  <1> QED
    BY <1>1, <1>2, <1>3, FailedReceive

LEMMA CreateStep ==
    ASSUME Inv, createTicket
    PROVE  Inv'
  <1>1. step = "create" /\ outcome = "running"
    BY DEF createTicket
  <1>2. ASSUME NEW request, Send("CreateTicket", request) PROVE Inv'
    BY <1>1, <1>2, SendStep
  <1>3. PICK call : call = rpc[Client]
    OBVIOUS
  <1> DEFINE next == /\ ticketId' = rpc[Client].reply.message.id
                     /\ step' = "firstUpdate"
                     /\ UNCHANGED <<finalTickets, verified, outcome>>
  <1>4. ASSUME Succeeded(call), next, rpc' = [rpc EXCEPT ![Client] = Idle], UNCHANGED <<tables, limit>>
        PROVE  Inv'
    <2>1. LoopInv(call)
      BY <1>1, <1>3 DEF Inv, ClientInv, Ongoing
    <2>2. Open(call) = {ticketId'} /\ Open(Idle)' = {ticketId'}
      BY <1>1, <1>3, <1>4 DEF Open
    <2>3. CallOfStep(Idle)' /\ ~Succeeded(Idle)'
      BY DEF CallOfStep, Succeeded, Idle
    <2>4. UNCHANGED <<Rows, Done>>
      BY <1>4 DEF Rows, Done, tables
    <2>5. LoopInv(Idle)' /\ CycleInv'
      BY <1>4, <2>1, <2>2, <2>3, <2>4 DEF LoopInv, CycleInv, Inv, ClientInv, tables
    <2>6. LimitInv' /\ Ongoing'
      BY <1>1, <1>4 DEF Inv, ClientInv, LimitInv, Ongoing
    <2> QED
      BY <1>4, <2>5, <2>6, ReceiveStep
  <1> HIDE DEF next
  <1>5. ASSUME Receive("CreateTicket", assertStatus(Client, 201), next) PROVE Inv'
    BY <1>3, <1>4, <1>5, ReceiveCases
  <1>6. \/ \E request : Send("CreateTicket", request)
        \/ Receive("CreateTicket", assertStatus(Client, 201), next)
    BY DEF createTicket, next
  <1> QED
    BY <1>2, <1>5, <1>6

LEMMA FirstUpdateStep ==
    ASSUME Inv, runCycle, step = "firstUpdate"
    PROVE  Inv'
  <1>1. outcome = "running"
    BY DEF runCycle
  <1>2. ASSUME NEW request, request.id = ticketId, Send("UpdateTicket", request) PROVE Inv'
    BY <1>1, <1>2, SendStep
  <1>3. PICK call : call = rpc[Client]
    OBVIOUS
  <1> DEFINE next == step' = "secondUpdate" /\ UNCHANGED <<ticketId, finalTickets, verified, outcome>>
  <1>4. ASSUME next, rpc' = [rpc EXCEPT ![Client] = Idle], UNCHANGED <<tables, limit>>
        PROVE  Inv'
    <2>1. LoopInv(call)
      BY <1>1, <1>3 DEF Inv, ClientInv, Ongoing
    <2>2. Open(call) = {ticketId} /\ Open(Idle)' = {ticketId}
      BY <1>4 DEF Open
    <2>3. CallOfStep(Idle)' /\ ~Succeeded(Idle)'
      BY DEF CallOfStep, Succeeded, Idle
    <2>4. UNCHANGED <<Rows, Done>>
      BY <1>4 DEF Rows, Done, tables
    <2>5. LoopInv(Idle)' /\ CycleInv'
      BY <1>4, <2>1, <2>2, <2>3, <2>4 DEF LoopInv, CycleInv, Inv, ClientInv, tables
    <2>6. LimitInv' /\ Ongoing'
      BY <1>1, <1>4 DEF Inv, ClientInv, LimitInv, Ongoing
    <2> QED
      BY <1>4, <2>5, <2>6, ReceiveStep
  <1> HIDE DEF next
  <1>5. ASSUME NEW checks, Receive("UpdateTicket", checks, next) PROVE Inv'
    BY <1>4, <1>5, ReceiveCases
  <1>6. \/ \E request : request.id = ticketId /\ Send("UpdateTicket", request)
        \/ \E checks : Receive("UpdateTicket", checks, next)
    <2>1. updateTicket(FIRST_UPDATE_PRICE, next)
      BY DEF runCycle, next
    <2> QED
      BY <2>1 DEF updateTicket
  <1> QED
    BY <1>2, <1>5, <1>6

\* The second update ends a cycle.
LEMMA SecondUpdateStep ==
    ASSUME Inv, runCycle, step = "secondUpdate"
    PROVE  Inv'
  <1>1. outcome = "running"
    BY DEF runCycle
  <1>2. ASSUME NEW request, request.id = ticketId, request.price = FINAL_UPDATE_PRICE,
               Send("UpdateTicket", request)
        PROVE  Inv'
    BY <1>1, <1>2, SendStep
  <1>3. PICK call, done : /\ call = rpc[Client]
                          /\ done = Append(finalTickets, [id |-> ticketId, price |-> FINAL_UPDATE_PRICE])
    OBVIOUS
  <1> DEFINE next == /\ finalTickets' = done
                     /\ step' = IF Len(done) < limit THEN "create" ELSE "verify"
                     /\ UNCHANGED <<ticketId, verified, outcome>>
  <1>4. ASSUME Succeeded(call), next, rpc' = [rpc EXCEPT ![Client] = Idle], UNCHANGED <<tables, limit>>
        PROVE  Inv'
    <2>1. LoopInv(call) /\ CycleInv /\ LimitInv
      BY <1>1, <1>3 DEF Inv, ClientInv, Ongoing
    <2>2. Open(call) = {ticketId} /\ Open(Idle)' = {}
      BY <1>4 DEF Open, Succeeded, Idle
    <2>3. CallOfStep(Idle)' /\ ~Succeeded(Idle)'
      BY DEF CallOfStep, Succeeded, Idle
    <2>4. Rows = Done \cup {ticketId} /\ ticketId \notin Done /\ ticketId \in TicketIds
      BY <2>1, <2>2 DEF LoopInv, Rows
    <2>5. tickets[ticketId].price = FINAL_UPDATE_PRICE
      BY <1>4, <2>1 DEF LoopInv
    <2>6. PICK last : last = [id |-> ticketId, price |-> FINAL_UPDATE_PRICE]
      OBVIOUS
    <2>7. last \in [id : TicketIds, price : {FINAL_UPDATE_PRICE}] /\ last.id = ticketId
      BY <2>4, <2>6
    <2>8. finalTickets \in Seq([id : TicketIds, price : {FINAL_UPDATE_PRICE}])
      BY <2>1 DEF CycleInv
    <2>9. /\ done \in Seq([id : TicketIds, price : {FINAL_UPDATE_PRICE}])
          /\ Len(done) = Len(finalTickets) + 1 /\ Len(finalTickets) \in Nat
          /\ done[Len(done)] = last
          /\ \A i \in 1 .. Len(finalTickets) : done[i] = finalTickets[i]
      BY <1>3, <2>6, <2>7, <2>8
    <2>10. \A i \in 1 .. Len(done) : i = Len(done) \/ i \in 1 .. Len(finalTickets)
      BY <2>9
    <2>11. 1 .. Len(finalTickets) \subseteq 1 .. Len(done) /\ Len(done) \in 1 .. Len(done)
      BY <2>9
    <2>12. {done[i].id : i \in 1 .. Len(done)} = Done \cup {ticketId}
      BY <2>7, <2>9, <2>10, <2>11 DEF Done
    <2>13. Done' = Done \cup {ticketId} /\ Rows' = Rows
      BY <1>4, <2>12 DEF Done, Rows, tables
    <2>14. \A i, j \in 1 .. Len(done) : done[i].id = done[j].id => i = j
      <3>1. \A i \in 1 .. Len(finalTickets) : done[i].id \in Done
        BY <2>9 DEF Done
      <3>2. \A i, j \in 1 .. Len(finalTickets) : done[i].id = done[j].id => i = j
        BY <2>1, <2>9 DEF CycleInv
      <3> QED
        BY <2>4, <2>7, <2>9, <2>10, <3>1, <3>2
    <2>15. step' \in {"create", "verify"}
      BY <1>4
    <2>16. \A t \in Done' : tickets'[t].price = FINAL_UPDATE_PRICE
      BY <1>4, <2>1, <2>5, <2>13 DEF CycleInv, tables
    <2>17. LoopInv(Idle)' /\ CycleInv'
      BY <1>4, <2>2, <2>3, <2>4, <2>9, <2>13, <2>14, <2>15, <2>16 DEF LoopInv, CycleInv
    <2>18. LimitInv' /\ Ongoing'
      BY <1>1, <1>4, <2>1, <2>9 DEF LimitInv, Ongoing
    <2> QED
      BY <1>4, <2>17, <2>18, ReceiveStep
  <1> HIDE DEF next
  <1>5. ASSUME NEW checks, Receive("UpdateTicket", checks, next) PROVE Inv'
    BY <1>3, <1>4, <1>5, ReceiveCases
  <1>6. \/ \E request : /\ request.id = ticketId /\ request.price = FINAL_UPDATE_PRICE
                        /\ Send("UpdateTicket", request)
        \/ \E checks : Receive("UpdateTicket", checks, next)
    <2>1. updateTicket(FINAL_UPDATE_PRICE, next)
      BY <1>3 DEF runCycle, next
    <2> QED
      BY <2>1 DEF updateTicket
  <1> QED
    BY <1>2, <1>5, <1>6

LEMMA VerifyStep ==
    ASSUME Inv, verifyTicket
    PROVE  Inv'
  <1>1. step = "verify" /\ outcome = "running"
    BY DEF verifyTicket
  <1>2. ASSUME NEW request, Send("GetTicket", request) PROVE Inv'
    BY <1>1, <1>2, SendStep
  <1>3. PICK call : call = rpc[Client]
    OBVIOUS
  <1> DEFINE next == /\ verified' = verified + 1
                     /\ outcome' = IF verified + 1 = Len(finalTickets) THEN "complete" ELSE outcome
                     /\ UNCHANGED <<step, ticketId, finalTickets>>
  <1>4. ASSUME next, rpc' = [rpc EXCEPT ![Client] = Idle], UNCHANGED <<tables, limit>>
        PROVE  Inv'
    <2>1. LoopInv(call)
      BY <1>1, <1>3 DEF Inv, ClientInv, Ongoing
    <2>2. Open(call) = {} /\ Open(Idle)' = {}
      BY <1>1, <1>4 DEF Open
    <2>3. CallOfStep(Idle)' /\ ~Succeeded(Idle)'
      BY DEF CallOfStep, Succeeded, Idle
    <2>4. UNCHANGED <<Rows, Done>>
      BY <1>4 DEF Rows, Done, tables
    <2>5. LoopInv(Idle)' /\ CycleInv'
      BY <1>1, <1>4, <2>1, <2>2, <2>3, <2>4 DEF LoopInv, CycleInv, Inv, ClientInv, tables
    <2>6. LimitInv' /\ Ongoing'
      BY <1>1, <1>4 DEF Inv, ClientInv, LimitInv, Ongoing
    <2> QED
      BY <1>4, <2>5, <2>6, ReceiveStep
  <1> HIDE DEF next
  <1>5. ASSUME NEW checks, Receive("GetTicket", checks, next) PROVE Inv'
    BY <1>4, <1>5, ReceiveCases
  <1>6. \/ \E request : Send("GetTicket", request)
        \/ \E checks : Receive("GetTicket", checks, next)
    BY DEF verifyTicket, next
  <1> QED
    BY <1>2, <1>5, <1>6

----------------------------------------------------------------------------
(* The theorems. *)

LEMMA InvInit ==
    ASSUME Init
    PROVE  Inv
  <1>1. TablesInv
    BY DEF Init, TablesInit, TablesInv
  <1>2. CallsInv
    BY DEF Init, CallsInv
  <1>3. rpc[Client] = Idle /\ Rows = {}
    BY StressAssumption DEF Init, TablesInit, Rows
  <1>4. Done = {} /\ Open(rpc[Client]) = {} /\ CallOfStep(rpc[Client]) /\ ~Succeeded(rpc[Client])
    BY <1>3 DEF Init, Done, Open, CallOfStep, Succeeded
  <1>5. LoopInv(rpc[Client]) /\ LeftInv(rpc[Client]) /\ CycleInv
    BY <1>3, <1>4 DEF Init, LoopInv, LeftInv, CycleInv
  <1>6. LimitInv
    <2>1. limit \in Nat
      BY StressAssumption DEF Init, readPositiveInteger, DEFAULT_LIMIT
    <2> QED
      BY <2>1 DEF Init, LimitInv
  <1> QED
    BY <1>1, <1>2, <1>5, <1>6 DEF Inv, ClientInv

LEMMA InvNext ==
    ASSUME Inv, [Next]_vars
    PROVE  Inv'
  <1>1. CASE main
    <2>1. runCycle => step \in {"firstUpdate", "secondUpdate"}
      BY DEF runCycle
    <2> QED
      BY <1>1, <2>1, CreateStep, FirstUpdateStep, SecondUpdateStep, VerifyStep DEF main
  <1>2. CASE Buy
    <2>1. PICK method, request :
            /\ method \in {"CreateOrder", "CancelOrder"}
            /\ rpc' = [rpc EXCEPT ![Buyer] = Sent(method, request, NoMetadata)]
      <3>1. \E request :
              \/ rpc' = [rpc EXCEPT ![Buyer] = Sent("CreateOrder", request, NoMetadata)]
              \/ rpc' = [rpc EXCEPT ![Buyer] = Sent("CancelOrder", request, NoMetadata)]
        BY <1>2 DEF Buy
      <3> QED
        BY <3>1
    <2>2. CallsInv' /\ rpc'[Client] = rpc[Client]
      BY <2>1, SentShape, StressAssumption DEF Inv
    <2>3. TablesInv' /\ TicketsSame /\ UNCHANGED client
      BY <1>2, TablesUntouched DEF Buy, tables, Inv
    <2> QED
      BY <2>2, <2>3, OthersStep DEF Inv
  <1>3. ASSUME NEW c \in Calls, Served(c) PROVE Inv'
    <2>1. rpc[c].phase = "sent"
      BY <1>3 DEF Served, Serve, CreateTicket, UpdateTicket, GetTicket, ListTickets, CreateOrder,
                  CancelOrder, GetOrder, ListOrders, CreatePayment, Waits
    <2>2. PICK method, request : method = rpc[c].method /\ request = rpc[c].request
      OBVIOUS
    <2>3. /\ TablesInv' /\ rpc[c] # Idle
          /\ \E answer : Reply(c, answer) /\ TicketsWritten(method, request, answer)
      BY <1>3, <2>2, ServicesWrite DEF Served, Inv
    <2> QED
      BY <1>3, <2>1, <2>2, <2>3, AnswerStep DEF Served
  <1>4. ASSUME NEW c \in Calls, Drop(c), UNCHANGED <<tables, client>> PROVE Inv'
    <2>1. rpc[c] # Idle
      BY <1>4, PhaseIsCall DEF Drop
    <2>2. rpc[c].phase = "sent"
      BY <1>4, <2>1 DEF Drop, Inv, CallsInv, IsCall
    <2>3. PICK answer : answer = Failure("UNAVAILABLE", {})
      OBVIOUS
    <2>4. Reply(c, answer) /\ answer.code # "OK"
      BY <1>4, <2>3 DEF Drop, Failure
    <2>5. TablesInv' /\ TicketsSame
      BY <1>4, TablesUntouched DEF tables, Inv
    <2>6. TicketsWritten(rpc[c].method, rpc[c].request, answer)
      BY <2>4, <2>5 DEF TicketsWritten
    <2> QED
      BY <1>4, <2>1, <2>2, <2>4, <2>5, <2>6, AnswerStep
  <1>5. CASE Background /\ UNCHANGED <<rpc, client>>
    <2>1. TablesInv' /\ TicketsSame
      BY <1>5, EventsWrite DEF Inv
    <2>2. CallsInv'
      BY <1>5 DEF Inv, CallsInv
    <2> QED
      BY <1>5, <2>1, <2>2, OthersStep DEF Inv
  <1>6. CASE UNCHANGED vars
    <2>1. TablesInv' /\ TicketsSame /\ CallsInv' /\ UNCHANGED <<rpc, client>>
      BY <1>6, TablesUntouched DEF vars, tables, client, Inv, CallsInv
    <2> QED
      BY <2>1, OthersStep DEF Inv
  <1>7. CASE Break
    BY <1>7, BreakStep
  <1> QED
    BY <1>1, <1>2, <1>3, <1>4, <1>5, <1>6, <1>7 DEF Next

\* A run of the stress client that reports success (runStressTest, main) has left one
\* ticket per cycle, each with the price of its second update, and no other, however
\* many cycles it ran, whoever ordered the tickets meanwhile and whenever the connection
\* broke.
THEOREM CompleteUpdated == Spec => []CompleteMeansUpdated
  <1>1. Init => Inv
    BY InvInit
  <1>2. Inv /\ [Next]_vars => Inv'
    BY InvNext
  <1>3. Inv => CompleteMeansUpdated
    <2> SUFFICES ASSUME Inv, outcome = "complete"
                 PROVE  /\ Rows = {finalTickets[i].id : i \in 1 .. limit}
                        /\ Len(finalTickets) = limit
                        /\ \A t \in Rows : tickets[t].price = FINAL_UPDATE_PRICE
      BY DEF CompleteMeansUpdated, Rows
    <2>1. step = "verify" /\ Len(finalTickets) = limit
      BY DEF Inv, ClientInv, LimitInv
    <2>2. Rows = Done /\ \A t \in Done : tickets[t].price = FINAL_UPDATE_PRICE
      BY <2>1 DEF Inv, ClientInv, CycleInv, LoopInv, Open, Ongoing
    <2> QED
      BY <2>1, <2>2 DEF Done
  <1> QED
    BY <1>1, <1>2, <1>3, PTL DEF Spec

\* Wherever a run stops (the first failure ends it, and a call whose answer was lost may
\* still take effect), at most one ticket is not finished, and no ticket belongs to two
\* cycles: runCycle sends one request after the other, and none twice.
THEOREM OneTicketPerCycle ==
    Spec => [](/\ \A i, j \in 1 .. Len(finalTickets) : finalTickets[i].id = finalTickets[j].id => i = j
               /\ \A t, u \in Rows :
                    tickets[t].price # FINAL_UPDATE_PRICE /\ tickets[u].price # FINAL_UPDATE_PRICE => t = u)
  <1>1. Init => Inv
    BY InvInit
  <1>2. Inv /\ [Next]_vars => Inv'
    BY InvNext
  <1>3. Inv => /\ \A i, j \in 1 .. Len(finalTickets) : finalTickets[i].id = finalTickets[j].id => i = j
               /\ \A t, u \in Rows :
                    tickets[t].price # FINAL_UPDATE_PRICE /\ tickets[u].price # FINAL_UPDATE_PRICE => t = u
    BY DEF Inv, ClientInv, CycleInv
  <1> QED
    BY <1>1, <1>2, <1>3, PTL DEF Spec

=============================================================================
