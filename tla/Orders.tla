------------------------------- MODULE Orders -------------------------------
(***************************************************************************)
(* The orders service (apps/orders): its PostgreSQL tables, the gRPC       *)
(* operations that write them and the handlers of the events it consumes.  *)
(*                                                                         *)
(* A database transaction is one step, except the one of ReserveTicket,    *)
(* whose statements other transactions interleave with: it runs at READ    *)
(* COMMITTED and protects only the row of the ticket projection it locks.  *)
(* A transaction that fails leaves the state alone.                        *)
(*                                                                         *)
(* Streams deliver at least once and, across durables and after retries,   *)
(* in any order: an event the other services may have published is handled *)
(* at any time, and again at any later time.                               *)
(***************************************************************************)
EXTENDS Integers, Sequences

CONSTANTS
    Users,             \* callers of the gRPC operations
    TicketIds,         \* tickets of the tickets service
    OrderIds,          \* the ids uuid generation may draw; bounds the orders
    Calls,             \* concurrent ReserveTicket calls
    ExpirationWindow,  \* order.ExpirationWindow, in clock ticks
    MaxClock,          \* bound on the clock
    MaxTicketVersion,  \* bound on the versions of a ticket
    None               \* no row, no running call

VARIABLES
    orders,            \* table orders: OrderIds -> row or None
    tickets,           \* table tickets (the projection): version or NoRow
    processed_events,  \* table processed_events
    outbox_events,     \* table outbox_events, in insertion order
    pc,                \* per call: the statement it has reached or its reply
    call,              \* per running call: its arguments and what it has read
    now                \* the clock of the service and of its database

vars == <<orders, tickets, processed_events, outbox_events, pc, call, now>>

----------------------------------------------------------------------------
Active == {"Created", "AwaitingPayment"}

Settled == {"Canceled", "Complete"}

\* A row of table orders.
Order == [user : Users, ticket : TicketIds, expires_at : Int,
          status : Active \cup Settled, aggregate_version : Nat]

\* A ticket no event created yet. As its version is one below that of
\* TicketCreated, "the next version" means the same with and without a row.
NoRow == -1

\* The events Orders consumes. A payment has one PaymentCreated and one
\* result, an order one payment and one ExpirationComplete, a ticket one event
\* per version: an event is its own event_id.
PaymentCreated(o)     == [type |-> "PaymentCreated", order |-> o]
PaymentSucceeded(o)   == [type |-> "PaymentSucceeded", order |-> o]
PaymentFailed(o)      == [type |-> "PaymentFailed", order |-> o]
ExpirationComplete(o) == [type |-> "ExpirationComplete", order |-> o]
TicketSnapshot(t, v)  == [type |-> "TicketSnapshot", ticket |-> t, version |-> v]

OrderEvents == [type : {"PaymentCreated", "PaymentSucceeded", "PaymentFailed",
                        "ExpirationComplete"},
                order : OrderIds]

TicketEvents == [type : {"TicketSnapshot"}, ticket : TicketIds,
                 version : 0 .. MaxTicketVersion]

\* The events Orders writes to its outbox. A price is named by the version of
\* the ticket snapshot that carried it.
OrderCreated(o, row, price) ==
    [type |-> "OrderCreated", order |-> o, user |-> row.user,
     ticket |-> row.ticket, expires_at |-> row.expires_at,
     aggregate_version |-> row.aggregate_version, price |-> price]

OrderCanceled(o, row) ==
    [type |-> "OrderCanceled", order |-> o, ticket |-> row.ticket,
     aggregate_version |-> row.aggregate_version]

OutboxEvents ==
    [type : {"OrderCreated"}, order : OrderIds, user : Users,
     ticket : TicketIds, expires_at : Int, aggregate_version : Nat,
     price : 0 .. MaxTicketVersion]
    \cup
    [type : {"OrderCanceled"}, order : OrderIds, ticket : TicketIds,
     aggregate_version : Nat]

\* A ReserveTicket call runs through its statements and ends in a reply: an
\* order, new or existing, or an error (ErrNotFound, ErrReserved, the database).
Statements == {"begun", "locked", "clear"}

Replies == {"Idle", "Granted", "Refused"}

Call == [user : Users, ticket : TicketIds, started : Nat,
         price : NoRow .. MaxTicketVersion]

ASSUME ConstantsAssumption ==
    /\ ExpirationWindow \in Nat \ {0}
    /\ MaxClock \in Nat
    /\ MaxTicketVersion \in Nat

ASSUME NoneAssumption ==
    /\ None \notin Order
    /\ None \notin Call

----------------------------------------------------------------------------
Placed(o) == orders[o] # None

HasStatus(o, S) == Placed(o) /\ orders[o].status \in S

Init ==
    /\ orders = [o \in OrderIds |-> None]
    /\ tickets = [t \in TicketIds |-> NoRow]
    /\ processed_events = {}
    /\ outbox_events = <<>>
    /\ pc = [c \in Calls |-> "Idle"]
    /\ call = [c \in Calls |-> None]
    /\ now = 0

----------------------------------------------------------------------------
(* ReserveTicket, statement by statement. *)

\* Mutant: the projection row is read without FOR UPDATE.
HoldsNoTicketRow(c, t) == FALSE

\* SELECT ... FOR UPDATE on the projection row, held until the transaction ends.
HoldsTicketRow(c, t) == pc[c] \in {"locked", "clear"} /\ call[c].ticket = t

TicketRowLocked(t) == \E c \in Calls : HoldsTicketRow(c, t)

Proceed(c, statement, data) ==
    /\ pc' = [pc EXCEPT ![c] = statement]
    /\ call' = [call EXCEPT ![c] = data]

Reply(c, reply) ==
    /\ pc' = [pc EXCEPT ![c] = reply]
    /\ call' = [call EXCEPT ![c] = None]

\* service.ReserveTicket reads the clock for the expiry and begins the
\* transaction, whose NOW() stays the time it began at: one reading for both.
ReserveTicket(c, u, t) ==
    /\ pc[c] \in Replies
    /\ Proceed(c, "begun", [user |-> u, ticket |-> t, started |-> now, price |-> NoRow])
    /\ UNCHANGED <<orders, tickets, processed_events, outbox_events, now>>

\* Mutant: a ticket without a projection row is not reported as missing.
LockMissingRow(c) ==
    /\ pc[c] = "begun"
    /\ ~ TicketRowLocked(call[c].ticket)
    /\ Proceed(c, "locked", [call[c] EXCEPT !.price = tickets[call[c].ticket]])
    /\ UNCHANGED <<orders, tickets, processed_events, outbox_events, now>>

LockTicketRow(c) ==
    /\ pc[c] = "begun"
    /\ ~ TicketRowLocked(call[c].ticket)
    /\ IF tickets[call[c].ticket] = NoRow
         THEN Reply(c, "Refused")
         ELSE Proceed(c, "locked", [call[c] EXCEPT !.price = tickets[call[c].ticket]])
    /\ UNCHANGED <<orders, tickets, processed_events, outbox_events, now>>

\* WHERE ticket_id = t AND (Complete OR active AND expires_at > NOW()).
BlockingOrders(t, time) ==
    {o \in OrderIds : /\ Placed(o)
                      /\ orders[o].ticket = t
                      /\ \/ orders[o].status = "Complete"
                         \/ /\ orders[o].status \in Active
                            /\ orders[o].expires_at > time}

\* Mutant: the blocking orders are ranked by expiry alone.
FirstByExpiry(t, time) ==
    LET blocking == BlockingOrders(t, time)
    IN  {o \in blocking : \A p \in blocking : orders[p].expires_at <= orders[o].expires_at}

\* ORDER BY Complete first, expires_at DESC LIMIT 1: the rows that may be first.
FirstBlocking(t, time) ==
    LET blocking == BlockingOrders(t, time)
        complete == {o \in blocking : orders[o].status = "Complete"}
        ranked   == IF complete # {} THEN complete ELSE blocking
    IN  {o \in ranked : \A p \in ranked : orders[p].expires_at <= orders[o].expires_at}

\* The caller's own unsettled order is returned, another one refuses the call.
FindBlockingOrder(c) ==
    /\ pc[c] = "locked"
    /\ \/ /\ BlockingOrders(call[c].ticket, call[c].started) = {}
          /\ Proceed(c, "clear", call[c])
       \/ \E o \in FirstBlocking(call[c].ticket, call[c].started) :
            IF orders[o].user = call[c].user /\ orders[o].status # "Complete"
              THEN Reply(c, "Granted")
              ELSE Reply(c, "Refused")
    /\ UNCHANGED <<orders, tickets, processed_events, outbox_events, now>>

\* insertOrder, insertOrderCreatedEvent and the commit that shows both.
InsertOrder(c, o) ==
    /\ pc[c] = "clear"
    /\ ~ Placed(o)
    /\ LET row == [user |-> call[c].user, ticket |-> call[c].ticket,
                   expires_at |-> call[c].started + ExpirationWindow,
                   status |-> "Created", aggregate_version |-> 0]
       IN  /\ orders' = [orders EXCEPT ![o] = row]
           /\ outbox_events' = Append(outbox_events, OrderCreated(o, row, call[c].price))
    /\ Reply(c, "Granted")
    /\ UNCHANGED <<tickets, processed_events, now>>

\* A database error, a canceled context or a crash: the deferred Rollback.
RollbackReservation(c) ==
    /\ pc[c] \in Statements
    /\ Reply(c, "Refused")
    /\ UNCHANGED <<orders, tickets, processed_events, outbox_events, now>>

----------------------------------------------------------------------------
(* The transitions of an order. *)

Transition(o, status) ==
    [orders[o] EXCEPT !.status = status, !.aggregate_version = @ + 1]

\* Mutant: the event is written without the update.
CancelEventOnly(o) ==
    /\ UNCHANGED orders
    /\ outbox_events' = Append(outbox_events,
                               OrderCanceled(o, Transition(o, "Canceled")))

\* UPDATE ... SET status = 'Canceled' and insertOrderCanceledEvent.
CancelWithEvent(o) ==
    /\ orders' = [orders EXCEPT ![o] = Transition(o, "Canceled")]
    /\ outbox_events' = Append(outbox_events,
                               OrderCanceled(o, Transition(o, "Canceled")))

\* Mutant: the status of the order is not checked.
CancelAnyStatus(o, u) ==
    /\ Placed(o)
    /\ orders[o].user = u
    /\ orders[o].aggregate_version < 3
    /\ CancelWithEvent(o)
    /\ UNCHANGED <<tickets, processed_events, pc, call, now>>

\* CancelByIDAndUser. An order that is missing, another user's or settled is
\* left alone: it is reported as not found, canceled or not cancelable.
CancelOrder(o, u) ==
    /\ HasStatus(o, Active)
    /\ orders[o].user = u
    /\ CancelWithEvent(o)
    /\ UNCHANGED <<tickets, processed_events, pc, call, now>>

\* What Payments and Expiration may have published: a payment exists only for
\* a placed order and has one result; the expiration job of an order runs once
\* its delay has passed. Ticket events exist in every version.
MayBePublished(e) ==
    CASE e.type = "PaymentCreated"     -> Placed(e.order)
      [] e.type = "PaymentSucceeded"   -> /\ Placed(e.order)
                                          /\ PaymentFailed(e.order) \notin processed_events
      [] e.type = "PaymentFailed"      -> /\ Placed(e.order)
                                          /\ PaymentSucceeded(e.order) \notin processed_events
      [] e.type = "ExpirationComplete" -> Placed(e.order) /\ orders[e.order].expires_at <= now
      [] e.type = "TicketSnapshot"     -> TRUE

\* INSERT INTO processed_events ... ON CONFLICT DO NOTHING: a redelivery finds
\* the id and changes nothing, so a step is a first delivery.
RecordProcessed(e) ==
    /\ e \notin processed_events
    /\ processed_events' = processed_events \cup {e}

Deliver(e) == MayBePublished(e) /\ RecordProcessed(e)

\* Only a Created order expires; one that awaits payment is left to its result.
ApplyExpirationComplete(o) ==
    /\ Deliver(ExpirationComplete(o))
    /\ IF HasStatus(o, {"Created"})
         THEN CancelWithEvent(o)
         ELSE UNCHANGED <<orders, outbox_events>>
    /\ UNCHANGED <<tickets, pc, call, now>>

\* No event tells the other services of this transition or of Complete.
ApplyPaymentCreated(o) ==
    /\ Deliver(PaymentCreated(o))
    /\ IF HasStatus(o, {"Created"})
         THEN orders' = [orders EXCEPT ![o] = Transition(o, "AwaitingPayment")]
         ELSE UNCHANGED orders
    /\ UNCHANGED <<tickets, outbox_events, pc, call, now>>

\* Mutant: a success that comes before PaymentCreated is dropped.
SucceededOnlyIfAwaiting(o) ==
    /\ Deliver(PaymentSucceeded(o))
    /\ IF HasStatus(o, {"AwaitingPayment"})
         THEN orders' = [orders EXCEPT ![o] = Transition(o, "Complete")]
         ELSE UNCHANGED orders
    /\ UNCHANGED <<tickets, outbox_events, pc, call, now>>

\* Mutant: a success completes an order that was canceled meanwhile.
SucceededAnyStatus(o) ==
    /\ Deliver(PaymentSucceeded(o))
    /\ orders' = [orders EXCEPT ![o] = Transition(o, "Complete")]
    /\ UNCHANGED <<tickets, outbox_events, pc, call, now>>

ApplyPaymentSucceeded(o) ==
    /\ Deliver(PaymentSucceeded(o))
    /\ IF HasStatus(o, Active)
         THEN orders' = [orders EXCEPT ![o] = Transition(o, "Complete")]
         ELSE UNCHANGED orders
    /\ UNCHANGED <<tickets, outbox_events, pc, call, now>>

ApplyPaymentFailed(o) ==
    /\ Deliver(PaymentFailed(o))
    /\ IF HasStatus(o, Active)
         THEN CancelWithEvent(o)
         ELSE UNCHANGED <<orders, outbox_events>>
    /\ UNCHANGED <<tickets, pc, call, now>>

\* Mutant: the processed id of a version gap is committed.
UpsertRecordsGap(t, v) ==
    /\ ~ TicketRowLocked(t)
    /\ Deliver(TicketSnapshot(t, v))
    /\ tickets' = IF v = tickets[t] + 1 THEN [tickets EXCEPT ![t] = v] ELSE tickets
    /\ UNCHANGED <<orders, outbox_events, pc, call, now>>

\* Mutant: the projection is updated without waiting for the row lock.
UpsertIgnoresLock(t, v) ==
    /\ v <= tickets[t] + 1
    /\ Deliver(TicketSnapshot(t, v))
    /\ tickets' = IF v <= tickets[t] THEN tickets ELSE [tickets EXCEPT ![t] = v]
    /\ UNCHANGED <<orders, outbox_events, pc, call, now>>

\* ErrTicketEventVersionGap rolls back the processed id with the rest, so a
\* gap is no step. An older version is recorded and ignored.
UpsertTicketFromEvent(t, v) ==
    /\ ~ TicketRowLocked(t)
    /\ v <= tickets[t] + 1
    /\ Deliver(TicketSnapshot(t, v))
    /\ tickets' = IF v <= tickets[t] THEN tickets ELSE [tickets EXCEPT ![t] = v]
    /\ UNCHANGED <<orders, outbox_events, pc, call, now>>

Tick ==
    /\ now < MaxClock
    /\ now' = now + 1
    /\ UNCHANGED <<orders, tickets, processed_events, outbox_events, pc, call>>

----------------------------------------------------------------------------
ReservationStep(c) ==
    \/ \E u \in Users, t \in TicketIds : ReserveTicket(c, u, t)
    \/ LockTicketRow(c)
    \/ FindBlockingOrder(c)
    \/ \E o \in OrderIds : InsertOrder(c, o)
    \/ RollbackReservation(c)

\* The deliveries to the durables of Orders.
HandleOrderEvent(o) ==
    \/ ApplyExpirationComplete(o)
    \/ ApplyPaymentCreated(o)
    \/ ApplyPaymentSucceeded(o)
    \/ ApplyPaymentFailed(o)

Next ==
    \/ \E c \in Calls : ReservationStep(c)
    \/ \E o \in OrderIds, u \in Users : CancelOrder(o, u)
    \/ \E o \in OrderIds : HandleOrderEvent(o)
    \/ \E t \in TicketIds, v \in 0 .. MaxTicketVersion : UpsertTicketFromEvent(t, v)
    \/ Tick

Spec == Init /\ [][Next]_vars

----------------------------------------------------------------------------
\* Every table row, event and call has the shape of its type.
TypeOK ==
    /\ orders \in [OrderIds -> Order \cup {None}]
    /\ tickets \in [TicketIds -> NoRow .. MaxTicketVersion]
    /\ processed_events \subseteq OrderEvents \cup TicketEvents
    /\ outbox_events \in Seq(OutboxEvents)
    /\ pc \in [Calls -> Statements \cup Replies]
    /\ call \in [Calls -> Call \cup {None}]
    /\ \A c \in Calls : /\ pc[c] \in Statements => call[c] # None
                        /\ pc[c] \in {"locked", "clear"} => call[c].price # NoRow
    /\ now \in Nat

\* "This prevents concurrent callers from both inserting an active order for
\* the same ticket" (ReserveTicket): at no time do two orders that have not
\* expired claim the same ticket, whatever the calls in flight have read.
OneActiveOrderPerTicket ==
    \A o, p \in OrderIds :
        /\ HasStatus(o, Active) /\ orders[o].expires_at > now
        /\ HasStatus(p, Active) /\ orders[p].expires_at > now
        /\ orders[o].ticket = orders[p].ticket
        => o = p

EventsOf(type, o) ==
    {i \in DOMAIN outbox_events :
        outbox_events[i].type = type /\ outbox_events[i].order = o}

\* What the outbox says of an order is its history: one OrderCreated when it
\* was placed, with the owner, ticket and expiry the order has kept, then one
\* OrderCanceled when it was canceled and by whatever way (caller, expiration,
\* failed payment, in any order and however often delivered), with the version
\* the order has kept since; none otherwise.
OutboxTellsOrderHistory ==
    \A o \in OrderIds :
        /\ ~ Placed(o) => EventsOf("OrderCreated", o) = {}
        /\ Placed(o) =>
             \E i \in DOMAIN outbox_events :
                 /\ EventsOf("OrderCreated", o) = {i}
                 /\ outbox_events[i].user = orders[o].user
                 /\ outbox_events[i].ticket = orders[o].ticket
                 /\ outbox_events[i].expires_at = orders[o].expires_at
        /\ ~ HasStatus(o, {"Canceled"}) => EventsOf("OrderCanceled", o) = {}
        /\ HasStatus(o, {"Canceled"}) =>
             \E i \in DOMAIN outbox_events :
                 /\ EventsOf("OrderCanceled", o) = {i}
                 /\ outbox_events[i].aggregate_version = orders[o].aggregate_version
                 /\ outbox_events[i].ticket = orders[o].ticket
                 /\ \A j \in EventsOf("OrderCreated", o) : j < i

\* A processed event is never handled again, so its effect must be in the
\* orders for good: a failed payment has canceled its order unless it was
\* settled before, a payment never leaves an order open once its result is in,
\* and neither an expiration nor a payment leaves it Created.
ProcessedEventsAreInEffect ==
    \A o \in OrderIds :
        /\ PaymentFailed(o) \in processed_events => HasStatus(o, {"Canceled"})
        /\ PaymentSucceeded(o) \in processed_events => HasStatus(o, Settled)
        /\ {ExpirationComplete(o), PaymentCreated(o)} \cap processed_events # {} =>
             HasStatus(o, {"AwaitingPayment"} \cup Settled)

\* A ticket event is recorded as processed exactly when the projection has
\* reached its version: recording one the projection has not applied would
\* lose it (UpsertTicketFromEvent rolls a version gap back).
TicketEventsNeverLost ==
    \A e \in TicketEvents :
        /\ e \in processed_events => e.version <= tickets[e.ticket]
        /\ e.version <= tickets[e.ticket] => e \in processed_events

\* What a ReserveTicket call has read stays true until it commits: its NOW() is
\* not ahead of the clock, it alone holds the projection row, whose price is
\* still the one it read, and once it found no blocking order every active
\* order of the ticket has expired, although order rows are never locked.
LockedReadsHold ==
    \A c \in Calls :
        /\ pc[c] \in Statements => call[c].started <= now
        /\ pc[c] \in {"locked", "clear"} =>
             /\ call[c].price = tickets[call[c].ticket]
             /\ \A d \in Calls : HoldsTicketRow(d, call[c].ticket) => d = c
        /\ pc[c] = "clear" =>
             \A o \in OrderIds : HasStatus(o, Active) /\ orders[o].ticket = call[c].ticket
                                   => orders[o].expires_at <= call[c].started

\* "Complete keeps the ticket unavailable permanently": a call that looks at
\* the orders of a sold ticket is refused, even if it is its caller's second
\* call and its first order is still active.
SoldTicketIsRefused ==
    [][\A c \in Calls :
         /\ pc[c] = "locked" /\ pc'[c] # pc[c]
         /\ \E o \in OrderIds : HasStatus(o, {"Complete"}) /\ orders[o].ticket = call[c].ticket
         => pc'[c] = "Refused"]_vars

\* Canceled and Complete are final, whatever events and calls come late, and an
\* order never goes back from AwaitingPayment to Created.
SettledOrdersStay ==
    [][\A o \in OrderIds :
         /\ HasStatus(o, Settled) => orders'[o] = orders[o]
         /\ HasStatus(o, {"AwaitingPayment"}) => orders'[o].status # "Created"]_vars

\* "Complete keeps the ticket unavailable permanently" (SPEC.md), read as: a
\* ticket is sold to one order at most.
AtMostOneCompleteOrderPerTicket ==
    \A o, p \in OrderIds :
        HasStatus(o, {"Complete"}) /\ HasStatus(p, {"Complete"})
          /\ orders[o].ticket = orders[p].ticket => o = p
=============================================================================
