------------------------------ MODULE Durables ------------------------------
(***************************************************************************)
(* The durables of the system: the stream each is bound to, the service    *)
(* whose database and dead letter stream it uses, the events its filter    *)
(* accepts and, for each event, what its handler must have applied before. *)
(***************************************************************************)
EXTENDS Integers

CONSTANTS
    OrderIds,         \* orders whose events are consumed
    TicketIds,        \* tickets whose events are consumed
    MaxTicketVersion  \* bound on the versions of a ticket

TicketSnapshot(t, v) == [stream |-> "TICKETS_EVENTS", type |-> "TicketSnapshot",
                         id |-> t, version |-> v]

OrderEvent(type, o) == [stream |-> "ORDERS_EVENTS", type |-> type, id |-> o, version |-> 0]

PaymentEvent(type, o) == [stream |-> "PAYMENTS_EVENTS", type |-> type, id |-> o, version |-> 0]

TicketEvents == {TicketSnapshot(t, v) : t \in TicketIds, v \in 0 .. MaxTicketVersion}

OrderEvents == {OrderEvent(type, o) : type \in {"OrderCreated", "OrderCanceled"}, o \in OrderIds}

PaymentEvents ==
    {PaymentEvent(type, o) :
        type \in {"PaymentCreated", "PaymentSucceeded", "PaymentFailed"}, o \in OrderIds}

ExpirationEvents ==
    {[stream |-> "EXPIRATION_EVENTS", type |-> "ExpirationComplete", id |-> o, version |-> 0] :
        o \in OrderIds}

AllEvents == TicketEvents \cup OrderEvents \cup PaymentEvents \cup ExpirationEvents

OfType(types) == {e \in AllEvents : e.type \in types}

Independent == [e \in AllEvents |-> {}]

\* Of a ticket's events, the one of the version before; of an order's, the
\* creation before the cancellation.
AfterPreviousVersion ==
    [e \in AllEvents |-> IF e \in TicketEvents
                           THEN {p \in TicketEvents : p.id = e.id /\ p.version = e.version - 1}
                           ELSE {}]

AfterCreation ==
    [e \in AllEvents |-> IF e.type = "OrderCanceled" THEN {OrderEvent("OrderCreated", e.id)} ELSE {}]

----------------------------------------------------------------------------
(* A service is the name of its database and of its dead letter stream;    *)
(* parking in it and replaying from it are actions of Consumers.           *)

OrdersService == "orders"

TicketsService == "tickets"

PaymentsService == "payments"

ExpirationService == "expiration"

(* Orders: ORDERS_DLQ. *)

OrdersTicketProjection ==
    [stream |-> "TICKETS_EVENTS", service |-> OrdersService, accepts |-> TicketEvents,
     after |-> AfterPreviousVersion]

OrdersPaymentCreated ==
    [stream |-> "PAYMENTS_EVENTS", service |-> OrdersService,
     accepts |-> OfType({"PaymentCreated"}), after |-> Independent]

OrdersPaymentSucceeded ==
    [stream |-> "PAYMENTS_EVENTS", service |-> OrdersService,
     accepts |-> OfType({"PaymentSucceeded"}), after |-> Independent]

OrdersPaymentFailed ==
    [stream |-> "PAYMENTS_EVENTS", service |-> OrdersService,
     accepts |-> OfType({"PaymentFailed"}), after |-> Independent]

OrdersExpirationComplete ==
    [stream |-> "EXPIRATION_EVENTS", service |-> OrdersService, accepts |-> ExpirationEvents,
     after |-> Independent]

(* Tickets: TICKETS_DLQ. *)

TicketsOrderReservation ==
    [stream |-> "ORDERS_EVENTS", service |-> TicketsService,
     accepts |-> OfType({"OrderCreated"}), after |-> Independent]

TicketsOrderCancellation ==
    [stream |-> "ORDERS_EVENTS", service |-> TicketsService,
     accepts |-> OfType({"OrderCanceled"}), after |-> AfterCreation]

(* Payments: PAYMENTS_DLQ. Expiration: a BullMQ queue and EXPIRATION_DLQ. *)

PaymentsOrderProjection ==
    [stream |-> "ORDERS_EVENTS", service |-> PaymentsService, accepts |-> OrderEvents,
     after |-> AfterCreation]

ExpirationOrderCreated ==
    [stream |-> "ORDERS_EVENTS", service |-> ExpirationService,
     accepts |-> OfType({"OrderCreated"}), after |-> Independent]
=============================================================================
