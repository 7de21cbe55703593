--------------------------- MODULE PaymentsProofs ---------------------------
(***************************************************************************)
(* Theorems about Payments, for any users, orders and outcomes.            *)
(***************************************************************************)
EXTENDS Payments, TLAPS

----------------------------------------------------------------------------
(* Types. *)

\* What a cancellation makes of a row.
LEMMA CanceledRow ==
    ASSUME NEW row \in Order, NEW v \in CancelVersions
    PROVE  LET new == [row EXCEPT !.status = "Canceled", !.aggregate_version = v]
           IN  new \in Order /\ new.status = "Canceled"
  <1>1. v \in Nat
    BY DEF CancelVersions
  <1> QED
    BY <1>1 DEF Order

\* Every row and event of the payments service has the shape of its type.
THEOREM TypeCorrect == Spec => []TypeOK
  <1>1. Init => TypeOK
    BY DEF Init, TypeOK
  <1>2. TypeOK /\ [Next]_vars => TypeOK'
    <2> SUFFICES ASSUME TypeOK, [Next]_vars PROVE TypeOK'
      OBVIOUS
    <2>1. ASSUME NEW o \in OrderIds, NEW u \in Users, CreatePayment(o, u)
          PROVE  TypeOK'
      <3>1. PaymentEvent(o, "PaymentCreated") \in OutboxEvents
        BY DEF PaymentEvent, OutboxEvents
      <3> QED
        BY <2>1, <3>1 DEF CreatePayment, TypeOK, Statuses
    <2>2. ASSUME NEW o \in OrderIds, NEW u \in Users, UpsertOrderFromEvent(o, u)
          PROVE  TypeOK'
      <3>1. [user |-> u, status |-> "Created", aggregate_version |-> 0] \in Order
        BY DEF Order
      <3>2. OrderCreated(o) \in OrderEvents
        BY DEF OrderCreated, OrderEvents
      <3> QED
        BY <2>2, <3>1, <3>2 DEF UpsertOrderFromEvent, RecordProcessed, TypeOK
    <2>3. ASSUME NEW o \in OrderIds, NEW v \in CancelVersions, CancelOrderFromEvent(o, v)
          PROVE  TypeOK'
      <3>1. orders[o] \in Order
        BY <2>3 DEF CancelOrderFromEvent, Known, TypeOK
      <3>2. [orders[o] EXCEPT !.status = "Canceled", !.aggregate_version = v] \in Order
        BY <3>1, CanceledRow
      <3>3. OrderCanceled(o, v) \in OrderEvents
        BY DEF OrderCanceled, OrderEvents
      <3> QED
        BY <2>3, <3>2, <3>3 DEF CancelOrderFromEvent, RecordProcessed, TypeOK
    <2>4. ASSUME ResolveNextPending
          PROVE  TypeOK'
      <3>1. PICK o \in OrderIds, outcome \in Outcomes :
              /\ payments' = [payments EXCEPT ![o] = outcome]
              /\ outbox_events' = Append(outbox_events, ResultEvent(o, outcome))
        BY <2>4 DEF ResolveNextPending
      <3>2. ResultEvent(o, outcome) \in OutboxEvents
        BY DEF ResultEvent, PaymentEvent, OutboxEvents
      <3>3. outcome \in Statuses
        BY ConstantsAssumption DEF Statuses
      <3> QED
        BY <2>4, <3>1, <3>2, <3>3 DEF ResolveNextPending, TypeOK
    <2>5. CASE UNCHANGED vars
      BY <2>5 DEF vars, TypeOK
    <2> QED
      BY <2>1, <2>2, <2>3, <2>4, <2>5 DEF Next
  <1> QED
    BY <1>1, <1>2, PTL DEF Spec

----------------------------------------------------------------------------
(* Cancellations. *)

\* What is missing in CancellationsNeverLost to be inductive: an order that is not
\* canceled is at the version of its creation, so the version of a cancellation is
\* never one that was passed, and recording it without an effect cannot happen.
CreatedIsFirst ==
    \A o \in OrderIds :
        Known(o) /\ orders[o].status = "Created" => orders[o].aggregate_version = 0

CancellationInv == TypeOK /\ CancellationsNeverLost /\ CreatedIsFirst

\* A cancellation is recorded exactly when the order is canceled.
THEOREM CancellationsKept == Spec => []CancellationsNeverLost
  <1>1. Init => CancellationInv
    BY DEF Init, CancellationInv, TypeOK, CancellationsNeverLost, CreatedIsFirst, Known
  <1>2. TypeOK' /\ CancellationInv /\ [Next]_vars => CancellationInv'
    <2> SUFFICES ASSUME TypeOK', CancellationInv, [Next]_vars PROVE CancellationInv'
      OBVIOUS
    <2> USE DEF CancellationInv
    <2>1. ASSUME NEW o \in OrderIds, NEW u \in Users, UpsertOrderFromEvent(o, u)
          PROVE  CancellationInv'
      <3>1. \A p \in OrderIds, v \in CancelVersions :
              OrderCanceled(p, v) \in processed_events' <=> OrderCanceled(p, v) \in processed_events
        BY <2>1 DEF UpsertOrderFromEvent, RecordProcessed, OrderCreated, OrderCanceled
      <3>2. \A p \in OrderIds :
              \/ orders'[p] = orders[p]
              \/ /\ orders[p] = None
                 /\ orders'[p] = [user |-> u, status |-> "Created", aggregate_version |-> 0]
        BY <2>1 DEF UpsertOrderFromEvent, Known, TypeOK
      <3> QED
        BY <3>1, <3>2 DEF CancellationsNeverLost, CreatedIsFirst, Known
    <2>2. ASSUME NEW o \in OrderIds, NEW v \in CancelVersions, CancelOrderFromEvent(o, v)
          PROVE  CancellationInv'
      <3>1. orders[o] \in Order /\ orders[o] # None
        BY <2>2 DEF CancelOrderFromEvent, Known, TypeOK
      <3>2. \A w \in CancelVersions : OrderCanceled(o, w) \notin processed_events
        BY <2>2 DEF CancelOrderFromEvent, RecordProcessed
      <3>3. orders[o].status = "Created" /\ orders[o].aggregate_version = 0
        BY <3>1, <3>2 DEF CancellationsNeverLost, CreatedIsFirst, Known, Order
      <3>4. orders' = [orders EXCEPT ![o] = [@ EXCEPT !.status = "Canceled",
                                                      !.aggregate_version = v]]
        BY <2>2, <3>3 DEF CancelOrderFromEvent, CancelVersions
      <3>5. /\ orders'[o].status = "Canceled" /\ orders'[o] # None
            /\ \A p \in OrderIds \ {o} : orders'[p] = orders[p]
        <4>1. LET row == [orders[o] EXCEPT !.status = "Canceled", !.aggregate_version = v]
              IN  row # None /\ row.status = "Canceled"
          BY <3>1, CanceledRow, NoneAssumption
        <4> QED
          BY <3>4, <4>1 DEF TypeOK
      <3>6. /\ OrderCanceled(o, v) \in processed_events'
            /\ \A p \in OrderIds \ {o}, w \in CancelVersions :
                 OrderCanceled(p, w) \in processed_events' <=> OrderCanceled(p, w) \in processed_events
        BY <2>2 DEF CancelOrderFromEvent, RecordProcessed, OrderCanceled
      <3> QED
        BY <3>5, <3>6 DEF CancellationsNeverLost, CreatedIsFirst, Known
    <2>3. ASSUME UNCHANGED <<orders, processed_events>>
          PROVE  CancellationInv'
      BY <2>3 DEF CancellationsNeverLost, CreatedIsFirst, Known
    <2> QED
      BY <2>1, <2>2, <2>3 DEF Next, CreatePayment, ResolveNextPending, vars
  <1>3. CancellationInv => CancellationsNeverLost
    BY DEF CancellationInv
  <1> QED
    BY <1>1, <1>2, <1>3, TypeCorrect, PTL DEF Spec

\* Once Payments knows that an order is canceled, it stays canceled and unpaid.
THEOREM CanceledNotPaid == Spec => CanceledOrderIsNotPaid
  <1>1. TypeOK /\ [Next]_vars =>
          [\A o \in OrderIds :
             Known(o) /\ orders[o].status = "Canceled" /\ payments[o] = None =>
                 orders'[o].status = "Canceled" /\ payments'[o] = None]_vars
    <2> SUFFICES ASSUME TypeOK, [Next]_vars, NEW o \in OrderIds,
                        Known(o), orders[o].status = "Canceled", payments[o] = None
                 PROVE  orders'[o].status = "Canceled" /\ payments'[o] = None
      OBVIOUS
    <2>1. ASSUME NEW p \in OrderIds, NEW u \in Users,
                 CreatePayment(p, u) \/ UpsertOrderFromEvent(p, u)
          PROVE  orders'[o].status = "Canceled" /\ payments'[o] = None
      BY <2>1 DEF CreatePayment, UpsertOrderFromEvent, Known, TypeOK
    <2>2. ASSUME NEW p \in OrderIds, NEW v \in CancelVersions, CancelOrderFromEvent(p, v)
          PROVE  orders'[o].status = "Canceled" /\ payments'[o] = None
      <3>1. orders[p] \in Order
        BY <2>2 DEF CancelOrderFromEvent, Known, TypeOK
      <3>2. [orders[p] EXCEPT !.status = "Canceled", !.aggregate_version = v].status = "Canceled"
        BY <3>1, CanceledRow
      <3> QED
        BY <2>2, <3>2 DEF CancelOrderFromEvent, TypeOK
    <2>3. ASSUME ResolveNextPending
          PROVE  orders'[o].status = "Canceled" /\ payments'[o] = None
      BY <2>3, NoneAssumption DEF ResolveNextPending, TypeOK, Statuses
    <2>4. CASE UNCHANGED vars
      BY <2>4 DEF vars
    <2> QED
      BY <2>1, <2>2, <2>3, <2>4 DEF Next
  <1> QED
    BY <1>1, TypeCorrect, PTL DEF Spec, CanceledOrderIsNotPaid

----------------------------------------------------------------------------
(* The outbox. *)

\* Appending an event of an order adds its place to the history of that order and
\* leaves the other histories alone.
LEMMA AppendEvent ==
    ASSUME TypeOK, NEW o \in OrderIds, NEW e \in OutboxEvents, e.order = o,
           outbox_events' = Append(outbox_events, e)
    PROVE  /\ Len(outbox_events) + 1 \in DOMAIN outbox_events'
           /\ outbox_events'[Len(outbox_events) + 1] = e
           /\ \A i \in DOMAIN outbox_events :
                /\ i \in DOMAIN outbox_events' /\ outbox_events'[i] = outbox_events[i]
                /\ i < Len(outbox_events) + 1
           /\ EventsOf(o)' = EventsOf(o) \cup {Len(outbox_events) + 1}
           /\ \A p \in OrderIds \ {o} : EventsOf(p)' = EventsOf(p)
  <1>1. outbox_events \in Seq(OutboxEvents)
    BY DEF TypeOK
  <1>2. /\ Len(outbox_events) \in Nat
        /\ DOMAIN outbox_events = 1 .. Len(outbox_events)
        /\ DOMAIN outbox_events' = 1 .. Len(outbox_events) + 1
        /\ \A i \in DOMAIN outbox_events : outbox_events'[i] = outbox_events[i]
        /\ outbox_events'[Len(outbox_events) + 1] = e
    BY <1>1
  <1>3. EventsOf(o)' = EventsOf(o) \cup {Len(outbox_events) + 1}
    BY <1>2 DEF EventsOf
  <1>4. ASSUME NEW p \in OrderIds \ {o} PROVE EventsOf(p)' = EventsOf(p)
    BY <1>2 DEF EventsOf
  <1> QED
    BY <1>2, <1>3, <1>4

\* The history of one order, as OutboxTellsPaymentHistory asks for it.
HistoryOf(o) ==
    /\ payments[o] = None => EventsOf(o) = {}
    /\ payments[o] = "Pending" =>
         \E i \in DOMAIN outbox_events :
             EventsOf(o) = {i} /\ outbox_events[i] = PaymentEvent(o, "PaymentCreated")
    /\ payments[o] \in {"Succeeded", "Failed"} =>
         \E i, j \in DOMAIN outbox_events :
             /\ EventsOf(o) = {i, j} /\ i < j
             /\ outbox_events[i] = PaymentEvent(o, "PaymentCreated")
             /\ outbox_events[j] = ResultEvent(o, payments[o])

\* The history of an order no step is about stays as it is.
LEMMA HistoryStays ==
    ASSUME TypeOK, NEW o \in OrderIds, HistoryOf(o), payments'[o] = payments[o],
           EventsOf(o)' = EventsOf(o),
           \A i \in DOMAIN outbox_events :
               i \in DOMAIN outbox_events' /\ outbox_events'[i] = outbox_events[i]
    PROVE  HistoryOf(o)'
  BY DEF HistoryOf

\* One PaymentCreated and at most one result per order, the one that is kept,
\* however often and by however many processors a payment is taken up.
THEOREM OutboxHistory == Spec => []OutboxTellsPaymentHistory
  <1> DEFINE Inv == \A o \in OrderIds : HistoryOf(o)
  <1>1. Init => Inv
    BY NoneAssumption DEF Init, HistoryOf, EventsOf, Statuses
  <1>2. TypeOK /\ Inv /\ [Next]_vars => Inv'
    <2> SUFFICES ASSUME TypeOK, Inv, [Next]_vars PROVE Inv'
      OBVIOUS
    <2>1. ASSUME NEW o \in OrderIds, NEW u \in Users, CreatePayment(o, u)
          PROVE  Inv'
      <3> DEFINE e == PaymentEvent(o, "PaymentCreated")
                 n == Len(outbox_events) + 1
      <3>1. /\ payments[o] = None
            /\ payments' = [payments EXCEPT ![o] = "Pending"]
            /\ outbox_events' = Append(outbox_events, e)
        BY <2>1 DEF CreatePayment
      <3>2. e \in OutboxEvents /\ e.order = o
        BY DEF PaymentEvent, OutboxEvents
      <3>3. payments'[o] = "Pending" /\ \A p \in OrderIds \ {o} : payments'[p] = payments[p]
        BY <3>1 DEF TypeOK
      <3>4. EventsOf(o)' = {n} /\ n \in DOMAIN outbox_events' /\ outbox_events'[n] = e
        BY <3>1, <3>2, AppendEvent DEF HistoryOf
      <3>5. HistoryOf(o)'
        BY <3>3, <3>4, NoneAssumption DEF HistoryOf, Statuses
      <3>6. ASSUME NEW p \in OrderIds \ {o} PROVE HistoryOf(p)'
        BY <3>1, <3>2, <3>3, AppendEvent, HistoryStays
      <3> QED
        BY <3>5, <3>6
    <2>2. ASSUME ResolveNextPending
          PROVE  Inv'
      <3>1. PICK o \in OrderIds, outcome \in Outcomes :
              /\ payments[o] = "Pending"
              /\ payments' = [payments EXCEPT ![o] = outcome]
              /\ outbox_events' = Append(outbox_events, ResultEvent(o, outcome))
        BY <2>2 DEF ResolveNextPending
      <3> DEFINE e == ResultEvent(o, outcome)
                 n == Len(outbox_events) + 1
      <3>2. e \in OutboxEvents /\ e.order = o
        BY DEF ResultEvent, PaymentEvent, OutboxEvents
      <3>3. payments'[o] = outcome /\ \A p \in OrderIds \ {o} : payments'[p] = payments[p]
        BY <3>1 DEF TypeOK
      <3>4. PICK i \in DOMAIN outbox_events :
              EventsOf(o) = {i} /\ outbox_events[i] = PaymentEvent(o, "PaymentCreated")
        BY <3>1 DEF HistoryOf
      <3>5. /\ EventsOf(o)' = {i, n} /\ i < n
            /\ i \in DOMAIN outbox_events' /\ n \in DOMAIN outbox_events'
            /\ outbox_events'[i] = PaymentEvent(o, "PaymentCreated")
            /\ outbox_events'[n] = ResultEvent(o, payments'[o])
        BY <3>1, <3>2, <3>3, <3>4, AppendEvent
      <3>6. payments'[o] # None /\ payments'[o] # "Pending"
        BY <3>3, ConstantsAssumption, NoneAssumption DEF Statuses
      <3>7. HistoryOf(o)'
        BY <3>5, <3>6 DEF HistoryOf
      <3>8. ASSUME NEW p \in OrderIds \ {o} PROVE HistoryOf(p)'
        BY <3>1, <3>2, <3>3, AppendEvent, HistoryStays
      <3> QED
        BY <3>7, <3>8
    <2>3. ASSUME UNCHANGED <<payments, outbox_events>>
          PROVE  Inv'
      BY <2>3 DEF HistoryOf, EventsOf
    <2> QED
      BY <2>1, <2>2, <2>3 DEF Next, UpsertOrderFromEvent, CancelOrderFromEvent, vars
  <1>3. Inv => OutboxTellsPaymentHistory
    BY DEF HistoryOf, OutboxTellsPaymentHistory
  <1> QED
    BY <1>1, <1>2, <1>3, TypeCorrect, PTL DEF Spec
=============================================================================
