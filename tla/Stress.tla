------------------------------- MODULE Stress -------------------------------
(***************************************************************************)
(* The stress client for tickets: one user creates tickets one after the   *)
(* other, updates each twice, and at the end reads all of them back.  The  *)
(* first failure ends the run.  Meanwhile another user orders the tickets, *)
(* and the connection may break at any time.                               *)
(*                                                                         *)
(* The title of a ticket changes with its price, so the price stands for   *)
(* both.  The gateway is passed through: a failed call is a failed         *)
(* response (GatewayErrors).                                               *)
(***************************************************************************)
EXTENDS Services, GatewayErrors, Sequences, Integers

CONSTANTS
    Client, Buyer,  \* the call slots of the two
    Owner, Other,   \* their users
    Settings        \* values STRESS_LIMIT may have: whether set, and the number

INITIAL_PRICE == 5
FIRST_UPDATE_PRICE == 10
FINAL_UPDATE_PRICE == 15
DEFAULT_LIMIT == 2  \* 200 in the script

ASSUME StressAssumption ==
    /\ {INITIAL_PRICE, FIRST_UPDATE_PRICE, FINAL_UPDATE_PRICE} \subseteq Prices
    /\ Client # Buyer /\ {Client, Buyer} \subseteq Calls /\ {Owner, Other} \subseteq Users
    /\ Settings \subseteq [set : BOOLEAN, value : Int]

\* A row is never the sign that there is none.
ASSUME MissingAssumption ==
    /\ Missing \notin [price : Prices, userId : Users, reservedBy : OrderIds \cup {NoOrder}]
    /\ Missing \notin [ticketId : TicketIds, userId : Users,
                       status : {"Created", "AwaitingPayment", "Complete", "Canceled"}]

VARIABLES
    limit,         \* number of cycles
    step,          \* what the client does next
    ticketId,      \* the ticket of this cycle
    finalTickets,  \* the tickets of the finished cycles
    verified,      \* how many of them were read back
    outcome

client == <<limit, step, ticketId, finalTickets, verified, outcome>>
vars == <<rpc, tables, client>>

\* 0 stands for the exception.
readPositiveInteger(setting, fallback) ==
    IF ~setting.set THEN fallback ELSE IF setting.value > 0 THEN setting.value ELSE 0

\* The status of the response the gateway makes of an answer.
Status(c) ==
    IF rpc[c].reply.code = "OK"
    THEN IF rpc[c].method = "CreateTicket" THEN 201 ELSE 200
    ELSE Catch(throwGatewayGrpcError(GrpcError(rpc[c].reply), {})).status

\* Only a 2xx is a response; anything else is thrown.
requestJson(c) == Status(c) \in 200 .. 299

assertStatus(c, expected) == Status(c) = expected

assertTicket(ticket, expected) == ticket.id = expected.id /\ ticket.price = expected.price

-----------------------------------------------------------------------------
(* One request at a time *)

Send(method, request) ==
    /\ rpc[Client] = Idle
    /\ rpc' = [rpc EXCEPT ![Client] = Sent(method, request, NoMetadata)]
    /\ UNCHANGED <<tables, client>>

\* The response to the request of this step; it fails the run, or the checks on
\* it do, or the run goes on with next.
Receive(method, checks, next) ==
    /\ Waits(Client, "done", method)
    /\ rpc' = [rpc EXCEPT ![Client] = Idle]
    /\ UNCHANGED <<tables, limit>>
    /\ \/ /\ ~requestJson(Client)
          /\ outcome' = "requestFailed"
          /\ UNCHANGED <<step, ticketId, finalTickets, verified>>
       \/ /\ requestJson(Client) /\ ~checks
          /\ outcome' = "unexpectedAnswer"
          /\ UNCHANGED <<step, ticketId, finalTickets, verified>>
       \/ requestJson(Client) /\ checks /\ next

createTicket ==
    /\ step = "create" /\ outcome = "running"
    /\ \/ Send("CreateTicket",
               [title |-> "title", price |-> INITIAL_PRICE, userId |-> Owner])
       \/ Receive("CreateTicket", assertStatus(Client, 201),
                  /\ ticketId' = rpc[Client].reply.message.id
                  /\ step' = "firstUpdate"
                  /\ UNCHANGED <<finalTickets, verified, outcome>>)

\* The ticket is expected as it was sent; next is what follows in the cycle.
updateTicket(price, next) ==
    \/ Send("UpdateTicket",
            [id |-> ticketId, title |-> "title", price |-> price, userId |-> Owner])
    \/ Receive("UpdateTicket",
               /\ assertStatus(Client, 200)
               /\ assertTicket(rpc[Client].reply.message.ticket, [id |-> ticketId, price |-> price]),
               next)

\* Mutant: a cycle ends with its first update.
runCycleShort ==
    /\ outcome = "running" /\ step = "firstUpdate"
    /\ updateTicket(FIRST_UPDATE_PRICE,
                    LET done == Append(finalTickets, [id |-> ticketId, price |-> FIRST_UPDATE_PRICE]) IN
                    /\ finalTickets' = done
                    /\ step' = IF Len(done) < limit THEN "create" ELSE "verify"
                    /\ UNCHANGED <<ticketId, verified, outcome>>)

\* The two updates of a cycle; then the next cycle, or the verification.
runCycle ==
    /\ outcome = "running"
    /\ \/ /\ step = "firstUpdate"
          /\ updateTicket(FIRST_UPDATE_PRICE,
                          step' = "secondUpdate"
                            /\ UNCHANGED <<ticketId, finalTickets, verified, outcome>>)
       \/ /\ step = "secondUpdate"
          /\ updateTicket(FINAL_UPDATE_PRICE,
                LET done == Append(finalTickets, [id |-> ticketId, price |-> FINAL_UPDATE_PRICE]) IN
                /\ finalTickets' = done
                /\ step' = IF Len(done) < limit THEN "create" ELSE "verify"
                /\ UNCHANGED <<ticketId, verified, outcome>>)

verifyTicket ==
    LET ticket == finalTickets[verified + 1] IN
    /\ step = "verify" /\ outcome = "running"
    /\ \/ Send("GetTicket", [id |-> ticket.id])
       \/ Receive("GetTicket",
                  /\ assertStatus(Client, 200)
                  /\ assertTicket(rpc[Client].reply.message.ticket, ticket),
                  /\ verified' = verified + 1
                  /\ outcome' = IF verified + 1 = Len(finalTickets) THEN "complete" ELSE outcome
                  /\ UNCHANGED <<step, ticketId, finalTickets>>)

\* The configuration is read first; a limit that is no positive number ends it.
Init ==
    /\ rpc = [c \in Calls |-> Idle]
    /\ TablesInit({})
    /\ \E setting \in Settings :
        /\ limit = readPositiveInteger(setting, DEFAULT_LIMIT)
        /\ outcome = IF limit = 0 THEN "requestFailed" ELSE "running"
    /\ step = "create" /\ ticketId = "none" /\ finalTickets = <<>> /\ verified = 0

main == createTicket \/ runCycle \/ verifyTicket

\* The connection breaks: the client is told, and the call may go on without it.
Break ==
    /\ outcome = "running" /\ rpc[Client] # Idle
    /\ Abandon(Client)
    /\ outcome' = "requestFailed"
    /\ UNCHANGED <<tables, limit, step, ticketId, finalTickets, verified>>

\* Somebody else orders a ticket, and cancels the order.
Buy ==
    /\ rpc[Buyer].phase \in {"idle", "done"}
    /\ \/ \E t \in ticketsSeen :
            rpc' = [rpc EXCEPT ![Buyer] =
                      Sent("CreateOrder", [ticketId |-> t, userId |-> Other], NoMetadata)]
       \/ \E o \in OrderIds :
            /\ orders[o] # Missing
            /\ rpc' = [rpc EXCEPT ![Buyer] =
                         Sent("CancelOrder", [orderId |-> o, userId |-> Other], NoMetadata)]
    /\ UNCHANGED <<tables, client>>

Served(c) == Serve(c) /\ UNCHANGED client

Next ==
    \/ main \/ Break \/ Buy
    \/ \E c \in Calls : Served(c) \/ (Drop(c) /\ UNCHANGED <<tables, client>>)
    \/ Background /\ UNCHANGED <<rpc, client>>

Spec == Init /\ [][Next]_vars

-----------------------------------------------------------------------------
(* Properties *)

\* A complete run has left one ticket per cycle, each with its second update, and
\* no other: nothing was created twice and no ticket stopped half way.
CompleteMeansUpdated ==
    outcome = "complete" =>
        LET rows == {t \in TicketIds : tickets[t] # Missing} IN
        /\ rows = {finalTickets[i].id : i \in 1 .. limit}
        /\ Len(finalTickets) = limit
        /\ \A t \in rows : tickets[t].price = FINAL_UPDATE_PRICE

=============================================================================
