------------------------------ MODULE Payments ------------------------------
(***************************************************************************)
(* The payments service (apps/payments): the projection of the orders it   *)
(* may be paid for, CreatePayment, the processor that resolves pending     *)
(* payments and the durable that consumes the order events. Every          *)
(* transaction that reads an order row locks it first and is one step.     *)
(* Deliveries are as in Orders: any order, any number of times.            *)
(***************************************************************************)
EXTENDS Integers, Sequences

CONSTANTS
    Users,     \* owners of orders and callers
    OrderIds,  \* orders of the orders service
    Outcomes,  \* what the configured processor may decide
    None       \* no row

VARIABLES
    orders,            \* table orders (the projection): row or None
    payments,          \* table payments, by its UNIQUE order_id: status or None
    processed_events,  \* table processed_events
    outbox_events      \* table outbox_events, in insertion order

vars == <<orders, payments, processed_events, outbox_events>>

Statuses == {"Pending", "Succeeded", "Failed"}

Order == [user : Users, status : {"Created", "Canceled"}, aggregate_version : Nat]

\* An order is created at version 0 and canceled at 1, or at 2 if Orders made
\* it AwaitingPayment before (a transition without an event).
OrderCreated(o)     == [type |-> "OrderCreated", order |-> o, aggregate_version |-> 0]
OrderCanceled(o, v) == [type |-> "OrderCanceled", order |-> o, aggregate_version |-> v]

CancelVersions == {1, 2}

OrderEvents == [type : {"OrderCreated", "OrderCanceled"}, order : OrderIds,
                aggregate_version : {0} \cup CancelVersions]

PaymentEvent(o, type) == [type |-> type, order |-> o]

OutboxEvents == [type : {"PaymentCreated", "PaymentSucceeded", "PaymentFailed"},
                 order : OrderIds]

ASSUME ConstantsAssumption == Outcomes \subseteq {"Succeeded", "Failed"}

ASSUME NoneAssumption == None \notin Order /\ None \notin Statuses

----------------------------------------------------------------------------
Known(o) == orders[o] # None

Init ==
    /\ orders = [o \in OrderIds |-> None]
    /\ payments = [o \in OrderIds |-> None]
    /\ processed_events = {}
    /\ outbox_events = <<>>

\* Mutant: the status of the order is not checked.
CreatePaymentAnyStatus(o, u) ==
    /\ Known(o)
    /\ orders[o].user = u
    /\ payments[o] = None
    /\ payments' = [payments EXCEPT ![o] = "Pending"]
    /\ outbox_events' = Append(outbox_events, PaymentEvent(o, "PaymentCreated"))
    /\ UNCHANGED <<orders, processed_events>>

\* repository.Create. An unknown or another user's order (ErrOrderNotFound), a
\* payment that exists (returned as it is) and a canceled order
\* (ErrOrderNotPayable) leave the tables alone.
CreatePayment(o, u) ==
    /\ Known(o)
    /\ orders[o].user = u
    /\ payments[o] = None
    /\ orders[o].status = "Created"
    /\ payments' = [payments EXCEPT ![o] = "Pending"]
    /\ outbox_events' = Append(outbox_events, PaymentEvent(o, "PaymentCreated"))
    /\ UNCHANGED <<orders, processed_events>>

\* insertPaymentResultEvent: the subject of each final status.
ResultEvent(o, status) ==
    PaymentEvent(o, IF status = "Succeeded" THEN "PaymentSucceeded" ELSE "PaymentFailed")

\* Mutant: payments of canceled orders are left pending.
ResolveUnlessCanceled ==
    /\ \E o \in OrderIds, outcome \in Outcomes :
         /\ payments[o] = "Pending"
         /\ orders[o].status # "Canceled"
         /\ payments' = [payments EXCEPT ![o] = outcome]
         /\ outbox_events' = Append(outbox_events, ResultEvent(o, outcome))
    /\ UNCHANGED <<orders, processed_events>>

\* Mutant: a resolved payment is taken again.
ResolveTwice ==
    /\ \E o \in OrderIds, outcome \in Outcomes :
         /\ payments[o] # None
         /\ Len(outbox_events) < 4
         /\ payments' = [payments EXCEPT ![o] = outcome]
         /\ outbox_events' = Append(outbox_events, ResultEvent(o, outcome))
    /\ UNCHANGED <<orders, processed_events>>

\* The processor takes the first pending payment that no other processor has
\* locked (FOR UPDATE SKIP LOCKED); ids are random, so it may be any of them.
ResolveNextPending ==
    /\ \E o \in OrderIds, outcome \in Outcomes :
         /\ payments[o] = "Pending"
         /\ payments' = [payments EXCEPT ![o] = outcome]
         /\ outbox_events' = Append(outbox_events, ResultEvent(o, outcome))
    /\ UNCHANGED <<orders, processed_events>>

----------------------------------------------------------------------------
\* INSERT INTO processed_events ... ON CONFLICT DO NOTHING: a redelivery finds
\* the id and changes nothing, so a step is a first delivery.
RecordProcessed(e) ==
    /\ e \notin processed_events
    /\ processed_events' = processed_events \cup {e}

\* OrderCreated carries version 0, so no gap is possible.
UpsertOrderFromEvent(o, u) ==
    /\ RecordProcessed(OrderCreated(o))
    /\ orders' = IF Known(o) THEN orders
                 ELSE [orders EXCEPT ![o] = [user |-> u, status |-> "Created",
                                             aggregate_version |-> 0]]
    /\ UNCHANGED <<payments, outbox_events>>

\* Mutant: a cancellation of an unknown order is recorded as processed.
CancelRecordsUnknown(o, v) ==
    /\ \A w \in CancelVersions \ {v} : OrderCanceled(o, w) \notin processed_events
    /\ RecordProcessed(OrderCanceled(o, v))
    /\ orders' = IF Known(o) /\ v = orders[o].aggregate_version + 1
                   THEN [orders EXCEPT ![o] = [@ EXCEPT !.status = "Canceled",
                                                        !.aggregate_version = v]]
                   ELSE orders
    /\ UNCHANGED <<payments, outbox_events>>

\* An order that is unknown, or a version that is not the next one
\* (ErrOrderEventVersionGap), rolls the delivery back: no step. Orders cancels
\* an order once, at one version.
CancelOrderFromEvent(o, v) ==
    /\ \A w \in CancelVersions \ {v} : OrderCanceled(o, w) \notin processed_events
    /\ Known(o)
    /\ v <= orders[o].aggregate_version + 1
    /\ RecordProcessed(OrderCanceled(o, v))
    /\ orders' = IF v <= orders[o].aggregate_version THEN orders
                 ELSE [orders EXCEPT ![o] = [@ EXCEPT !.status = "Canceled",
                                                      !.aggregate_version = v]]
    /\ UNCHANGED <<payments, outbox_events>>

----------------------------------------------------------------------------
Next ==
    \/ \E o \in OrderIds, u \in Users : CreatePayment(o, u) \/ UpsertOrderFromEvent(o, u)
    \/ \E o \in OrderIds, v \in CancelVersions : CancelOrderFromEvent(o, v)
    \/ ResolveNextPending

Spec == Init /\ [][Next]_vars

\* Processor.Run polls for the life of the service, and a failed transaction
\* leaves its payment Pending for the next poll. Callers and publishers owe
\* nothing.
FairSpec == Spec /\ WF_vars(ResolveNextPending)

----------------------------------------------------------------------------
\* Every row and event has the shape of its type.
TypeOK ==
    /\ orders \in [OrderIds -> Order \cup {None}]
    /\ payments \in [OrderIds -> Statuses \cup {None}]
    /\ processed_events \subseteq OrderEvents
    /\ outbox_events \in Seq(OutboxEvents)

EventsOf(o) == {i \in DOMAIN outbox_events : outbox_events[i].order = o}

\* "A retry cannot publish a second outcome" (Processor): the outbox holds
\* nothing about an unpaid order, one PaymentCreated for a pending payment and
\* after it exactly one result for a resolved one, the result it has kept.
OutboxTellsPaymentHistory ==
    \A o \in OrderIds :
        /\ payments[o] = None => EventsOf(o) = {}
        /\ payments[o] = "Pending" =>
             \E i \in DOMAIN outbox_events :
                 EventsOf(o) = {i} /\ outbox_events[i] = PaymentEvent(o, "PaymentCreated")
        /\ payments[o] \in {"Succeeded", "Failed"} =>
             \E i, j \in DOMAIN outbox_events :
                 /\ EventsOf(o) = {i, j} /\ i < j
                 /\ outbox_events[i] = PaymentEvent(o, "PaymentCreated")
                 /\ outbox_events[j] = ResultEvent(o, payments[o])

\* A processed cancellation is in effect for good, and only after the creation
\* it follows: one that comes first is retried, not recorded and lost.
CancellationsNeverLost ==
    \A o \in OrderIds :
        (\E v \in CancelVersions : OrderCanceled(o, v) \in processed_events) <=>
            Known(o) /\ orders[o].status = "Canceled"

\* Once Payments knows that an order is canceled, no payment for it is taken.
CanceledOrderIsNotPaid ==
    [][\A o \in OrderIds :
         Known(o) /\ orders[o].status = "Canceled" /\ payments[o] = None =>
             orders'[o].status = "Canceled" /\ payments'[o] = None]_vars

\* Every payment is eventually resolved, whatever becomes of its order.
PaymentsAreResolved ==
    \A o \in OrderIds : payments[o] = "Pending" ~> payments[o] \in {"Succeeded", "Failed"}
=============================================================================
