----------------------------- MODULE Ticketing ------------------------------
(***************************************************************************)
(* The tickets, orders and payments services together. Each keeps its own  *)
(* database and writes its events to its own outbox; the outboxes and the  *)
(* streams (Outbox, Consumers) carry every event of an outbox to every     *)
(* durable that filters for it, at least once and in any order. So here a  *)
(* service handles an event exactly when the outbox of the service that    *)
(* publishes it holds it, with the versions, owners and results it really  *)
(* carries. The timers of Expiration are the clock of Orders.              *)
(*                                                                         *)
(* The module extends Orders, whose tables and operations keep their names *)
(* (tickets is its projection), by the other services as instances; the    *)
(* table of Tickets is catalog and the projection of Payments payable.     *)
(***************************************************************************)
EXTENDS Orders, SequencesExt

CONSTANTS
    Sellers,           \* users who offer tickets
    Editors,           \* concurrent UpdateTicket calls
    TicketOf,          \* the ticket each order id is drawn for
    Contents,          \* what an owner may set: title and price
    Outcomes,          \* what the payment processor may decide
    MaxOwnerVersion

VARIABLES
    catalog, ticketsProcessed, ticketsOutbox, updates,
    payable, payments, paymentsProcessed, paymentsOutbox

Tck == INSTANCE Tickets
         WITH tickets <- catalog, processed_events <- ticketsProcessed,
              outbox_events <- ticketsOutbox, Calls <- Editors, MaxVersion <- MaxOwnerVersion

Pay == INSTANCE Payments
         WITH orders <- payable, processed_events <- paymentsProcessed,
              outbox_events <- paymentsOutbox

\* What the modules of the other services assume; tickets are offered by users.
ASSUME SystemAssumption ==
    /\ Tck!ConstantsAssumption /\ Tck!NoneAssumption
    /\ Pay!ConstantsAssumption /\ Pay!NoneAssumption
    /\ Sellers \subseteq Users

ticketsVars  == <<catalog, ticketsProcessed, ticketsOutbox, updates>>
paymentsVars == <<payable, payments, paymentsProcessed, paymentsOutbox>>

systemVars == <<vars, ticketsVars, paymentsVars>>

SystemInit == Init /\ Tck!Init /\ Pay!Init

----------------------------------------------------------------------------
(* The calls the services take, and the clock. *)

\* An order id is random: which of the unused ones is drawn is only a name.
CreateOrder(c) ==
    /\ ReservationStep(c)
    /\ \A o \in OrderIds : orders'[o] # None => orders'[o].ticket = TicketOf[o]
    /\ UNCHANGED <<ticketsVars, paymentsVars>>

CancelOrderOf(o, u) ==
    /\ CancelOrder(o, u)
    /\ UNCHANGED <<ticketsVars, paymentsVars>>

PassTime ==
    /\ Tick
    /\ UNCHANGED <<ticketsVars, paymentsVars>>

CreateTicket(t, u, content) ==
    /\ Tck!CreateTicket(t, u, content)
    /\ UNCHANGED <<vars, paymentsVars>>

EditTicket(c) ==
    /\ \/ \E t \in TicketIds, u \in Users, content \in Contents :
            Tck!CheckUpdate(c, t, u, content)
       \/ Tck!UpdateTicket(c)
       \/ Tck!AbandonUpdate(c)
    /\ UNCHANGED <<vars, paymentsVars>>

CreatePayment(o, u) ==
    /\ Pay!CreatePayment(o, u)
    /\ UNCHANGED <<vars, ticketsVars>>

ResolveNextPending ==
    /\ Pay!ResolveNextPending
    /\ UNCHANGED <<vars, ticketsVars>>

----------------------------------------------------------------------------
(* The deliveries, one action per durable of each service. *)

\* The ticket projection of Orders: orders-ticket-projection-v1.
ProjectTicket(t) ==
    /\ \E e \in ToSet(ticketsOutbox) :
         /\ e.ticket = t
         /\ e.aggregate_version \in 0 .. MaxTicketVersion
         /\ UpsertTicketFromEvent(t, e.aggregate_version)
    /\ UNCHANGED <<ticketsVars, paymentsVars>>

PaymentEventOf(o, type) == Pay!PaymentEvent(o, type) \in ToSet(paymentsOutbox)

\* orders-payment-created-v1, -succeeded-v1 and -failed-v1.
SettleOrder(o) ==
    /\ \/ PaymentEventOf(o, "PaymentCreated") /\ ApplyPaymentCreated(o)
       \/ PaymentEventOf(o, "PaymentSucceeded") /\ ApplyPaymentSucceeded(o)
       \/ PaymentEventOf(o, "PaymentFailed") /\ ApplyPaymentFailed(o)
    /\ UNCHANGED <<ticketsVars, paymentsVars>>

\* orders-expiration-complete-v1.
ExpireOrder(o) ==
    /\ ApplyExpirationComplete(o)
    /\ UNCHANGED <<ticketsVars, paymentsVars>>

OrderEventsOf(o, type) == {e \in ToSet(outbox_events) : e.type = type /\ e.order = o}

\* tickets-order-reservation-v1 and tickets-order-cancellation-v1.
LockOrUnlock(o) ==
    /\ \/ OrderEventsOf(o, "OrderCreated") # {} /\ Tck!ReserveTicketFromOrder(o)
       \/ OrderEventsOf(o, "OrderCanceled") # {} /\ Tck!UnreserveTicketFromOrder(o)
    /\ UNCHANGED <<vars, paymentsVars>>

\* payments-order-projection-v1.
ProjectOrder(o) ==
    /\ \/ \E e \in OrderEventsOf(o, "OrderCreated") : Pay!UpsertOrderFromEvent(o, e.user)
       \/ \E e \in OrderEventsOf(o, "OrderCanceled") :
            Pay!CancelOrderFromEvent(o, e.aggregate_version)
    /\ UNCHANGED <<vars, ticketsVars>>

DeliverEvent ==
    \E o \in OrderIds : SettleOrder(o) \/ LockOrUnlock(o) \/ ProjectOrder(o)

----------------------------------------------------------------------------
SystemNext ==
    \/ \E c \in Calls : CreateOrder(c)
    \/ \E c \in Editors : EditTicket(c)
    \/ \E t \in TicketIds, u \in Sellers, content \in Contents : CreateTicket(t, u, content)
    \/ \E o \in OrderIds, u \in Users : CancelOrderOf(o, u) \/ CreatePayment(o, u)
    \/ ResolveNextPending
    \/ \E t \in TicketIds : ProjectTicket(t)
    \/ DeliverEvent
    \/ \E o \in OrderIds : ExpireOrder(o)
    \/ PassTime

SystemSpec == SystemInit /\ [][SystemNext]_systemVars

\* A reservation that has begun commits or is rolled back.
EndReservation == \E c \in Calls : pc[c] \in Statements /\ CreateOrder(c)

\* Transactions end, the processor polls, and an event of an outbox that a durable
\* can apply is applied: what the outbox and the consumers guarantee
\* (Outbox!ImplementsRelay, Consumers!MessagesAreSettled), given that the operator
\* replays what was parked. A snapshot waits for the row lock that reservations take
\* and release, and PostgreSQL grants a lock in the order it was asked for. No
\* ExpirationComplete has to come: it is in no outbox, and a job that failed in all
\* its attempts stays failed (Expiration!ExpiresOrFails). Callers owe nothing.
FairSpec ==
    /\ SystemSpec
    /\ WF_systemVars(EndReservation)
    /\ WF_systemVars(ResolveNextPending)
    /\ WF_systemVars(DeliverEvent)
    /\ SF_systemVars(\E t \in TicketIds : ProjectTicket(t))

----------------------------------------------------------------------------
\* Created and AwaitingPayment are both an open order.
Abstract ==
    INSTANCE Saga
      WITH order   <- [o \in OrderIds |-> IF orders[o] = None THEN "None"
                                          ELSE IF orders[o].status \in {"Canceled", "Complete"}
                                                 THEN orders[o].status ELSE "Open"],
           payment <- [o \in OrderIds |-> IF payments[o] = None THEN "None" ELSE payments[o]]

\* The three services implement the saga: across their databases and however
\* their events overtake each other, an order settles once and is completed
\* only by its own successful payment.
ImplementsSaga == Abstract!Spec

KnownCanceled(o) == payable[o] # None /\ payable[o].status = "Canceled"

LockedFor(o) == Tck!Exists(TicketOf[o]) /\ catalog[TicketOf[o]].reserved_by = o

\* Payments asks its projection who may pay and Tickets locks for an order it
\* was told of: each copy of an order agrees with Orders on its owner, its
\* ticket and, once it is canceled there, on its cancellation.
CopiesAgreeWithOrders ==
    \A o \in OrderIds :
        /\ payable[o] # None =>
             /\ Placed(o)
             /\ payable[o].user = orders[o].user
             /\ KnownCanceled(o) => HasStatus(o, {"Canceled"})
        /\ LockedFor(o) => Placed(o) /\ orders[o].ticket = TicketOf[o]

\* An order is sold at the price of the latest version its service knows, although
\* the price is read some statements before the order is inserted and Tickets goes
\* on publishing (Orders!LockedReadsHold).
OrderCarriesCurrentPrice ==
    [][Len(outbox_events') > Len(outbox_events) =>
         LET e == Last(outbox_events')
         IN  e.type = "OrderCreated" => e.price = tickets[e.ticket]]_systemVars

\* An order that somebody pays for, or whose ExpirationComplete was taken, does not
\* stay open: it is canceled, or its payment is resolved and the result reaches it,
\* also when the result overtakes PaymentCreated (ApplyPaymentSucceeded takes Created
\* and AwaitingPayment) or the expiration is taken while it awaits payment and passes
\* without effect. What may stay open is an unpaid order whose timer failed.
PaidOrExpiredOrdersSettle ==
    \A o \in OrderIds :
        payments[o] # None \/ ExpirationComplete(o) \in processed_events ~> HasStatus(o, Settled)

\* A canceled order frees its ticket for good, even if OrderCanceled overtakes
\* OrderCreated (ErrOrderReservationPending).
CanceledOrdersFreeTheTicket ==
    \A o \in OrderIds :
        HasStatus(o, {"Canceled"}) ~>
            []~ LockedFor(o)

\* Whatever the order in which the publisher and the streams bring its events,
\* the projection of Orders reaches the version of a ticket: again and again, so
\* for good once nobody writes to the ticket any more.
ProjectionCatchesUp ==
    \A t \in TicketIds :
        []<>(Tck!Exists(t) => tickets[t] = catalog[t].aggregate_version)

\* A cancellation reaches Payments before the order is paid for, or a payment
\* does: an order that stays unpaid does not stay payable.
UnpaidCancellationsArrive ==
    \A o \in OrderIds :
        HasStatus(o, {"Canceled"}) ~>
            payments[o] # None \/ KnownCanceled(o)

\* "`orders.order.canceled.v1` advances an existing projection to `Canceled`":
\* the projection of a canceled order does not stay Created.
CancellationsArrive ==
    \A o \in OrderIds :
        HasStatus(o, {"Canceled"}) ~> KnownCanceled(o)
=============================================================================
