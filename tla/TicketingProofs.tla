-------------------------- MODULE TicketingProofs ---------------------------
(***************************************************************************)
(* Theorems about Orders, for every set of users, tickets, orders and      *)
(* concurrent calls and every value of the window and of the bounds, and,  *)
(* from "The steps of the system" on, about Ticketing, which extends it:   *)
(* the services behave in the composition as their own modules say, and    *)
(* their databases agree although they only exchange events.               *)
(***************************************************************************)
EXTENDS Ticketing, TLAPS

----------------------------------------------------------------------------
(* Type correctness. *)

\* A transition of an order row gives an order row, one version later.
LEMMA TransitionType ==
    ASSUME TypeOK, NEW o \in OrderIds, Placed(o), NEW s \in Active \cup Settled
    PROVE  /\ Transition(o, s) \in Order
           /\ Transition(o, s).status = s
           /\ Transition(o, s).ticket = orders[o].ticket
           /\ Transition(o, s).user = orders[o].user
           /\ Transition(o, s).expires_at = orders[o].expires_at
           /\ Transition(o, s).aggregate_version = orders[o].aggregate_version + 1
  <1>1. orders[o] \in Order
    BY DEF TypeOK, Placed
  <1>2. PICK n \in Nat : n = orders[o].aggregate_version + 1
    BY <1>1 DEF Order
  <1>3. PICK row \in Order : row = orders[o]
    BY <1>1
  <1>4. Transition(o, s) = [row EXCEPT !.status = s, !.aggregate_version = n]
    BY <1>2, <1>3 DEF Transition
  <1>5. /\ Transition(o, s) \in Order
        /\ Transition(o, s).status = s
        /\ Transition(o, s).ticket = row.ticket
        /\ Transition(o, s).user = row.user
        /\ Transition(o, s).expires_at = row.expires_at
        /\ Transition(o, s).aggregate_version = n
    BY <1>4 DEF Order
  <1> QED
    BY <1>2, <1>3, <1>5

\* CancelWithEvent keeps both tables well typed.
LEMMA CancelType ==
    ASSUME TypeOK, NEW o \in OrderIds, Placed(o), CancelWithEvent(o)
    PROVE  /\ orders' \in [OrderIds -> Order \cup {None}]
           /\ outbox_events' \in Seq(OutboxEvents)
  <1> DEFINE row == Transition(o, "Canceled")
  <1>1. row \in Order
    BY TransitionType DEF Settled
  <1>2. OrderCanceled(o, row) \in OutboxEvents
    BY <1>1 DEF OrderCanceled, OutboxEvents, Order
  <1>3. orders' \in [OrderIds -> Order \cup {None}]
    BY <1>1 DEF CancelWithEvent, TypeOK
  <1>4. outbox_events' \in Seq(OutboxEvents)
    BY <1>2 DEF CancelWithEvent, TypeOK
  <1> QED
    BY <1>3, <1>4

\* Every step keeps the types: what the operations and handlers write has its
\* type.
LEMMA TypeStep ==
    ASSUME TypeOK, [Next]_vars
    PROVE  TypeOK'
  <1> USE ConstantsAssumption
  <1>1. ASSUME NEW c \in Calls, NEW u \in Users, NEW t \in TicketIds, ReserveTicket(c, u, t)
        PROVE  TypeOK'
    <2> DEFINE data == [user |-> u, ticket |-> t, started |-> now, price |-> NoRow]
    <2>1. data \in Call
      BY DEF Call, NoRow, TypeOK
    <2>2. data # None
      BY <2>1, NoneAssumption
    <2> QED
      BY <1>1, <2>1, <2>2 DEF ReserveTicket, Proceed, TypeOK, Statements
  <1>2. ASSUME NEW c \in Calls, LockTicketRow(c)
        PROVE  TypeOK'
    <2> DEFINE data == [call[c] EXCEPT !.price = tickets[call[c].ticket]]
    <2>1. call[c] \in Call
      BY <1>2 DEF LockTicketRow, TypeOK, Statements
    <2>2. data \in Call
      BY <2>1 DEF Call, TypeOK
    <2>3. data # None
      BY <2>2, NoneAssumption
    <2>4. CASE tickets[call[c].ticket] = NoRow
      BY <1>2, <2>4 DEF LockTicketRow, Reply, TypeOK, Replies, Statements
    <2>5. CASE tickets[call[c].ticket] # NoRow
      <3>1. /\ pc' = [pc EXCEPT ![c] = "locked"]
            /\ call' = [call EXCEPT ![c] = data]
        BY <1>2, <2>5 DEF LockTicketRow, Proceed
      <3>2. data.price # NoRow
        BY <2>1, <2>5 DEF Call
      <3> HIDE DEF data
      <3> QED
        BY <1>2, <2>2, <2>3, <3>1, <3>2 DEF LockTicketRow, TypeOK, Statements
    <2> QED
      BY <2>4, <2>5
  <1>3. ASSUME NEW c \in Calls, FindBlockingOrder(c)
        PROVE  TypeOK'
    <2>1. call[c] \in Call /\ call[c] # None
      BY <1>3 DEF FindBlockingOrder, TypeOK, Statements
    <2>2. CASE Proceed(c, "clear", call[c])
      BY <1>3, <2>1, <2>2 DEF FindBlockingOrder, Proceed, TypeOK, Statements
    <2>3. CASE Reply(c, "Granted") \/ Reply(c, "Refused")
      BY <1>3, <2>3 DEF FindBlockingOrder, Reply, TypeOK, Replies, Statements
    <2> QED
      BY <1>3, <2>2, <2>3 DEF FindBlockingOrder
  <1>4. ASSUME NEW c \in Calls, NEW o \in OrderIds, InsertOrder(c, o)
        PROVE  TypeOK'
    <2> DEFINE row == [user |-> call[c].user, ticket |-> call[c].ticket,
                       expires_at |-> call[c].started + ExpirationWindow,
                       status |-> "Created", aggregate_version |-> 0]
    <2>1. call[c] \in Call
      BY <1>4 DEF InsertOrder, TypeOK, Statements
    <2>2. row \in Order
      BY <2>1 DEF Call, Order, Active
    <2>3. call[c].price \in 0 .. MaxTicketVersion
      BY <1>4, <2>1 DEF InsertOrder, TypeOK, Call, NoRow
    <2>4. OrderCreated(o, row, call[c].price) \in OutboxEvents
      BY <2>2, <2>3 DEF OrderCreated, OutboxEvents, Order
    <2>5. orders' \in [OrderIds -> Order \cup {None}]
      BY <1>4, <2>2 DEF InsertOrder, TypeOK
    <2>6. outbox_events' \in Seq(OutboxEvents)
      BY <1>4, <2>4 DEF InsertOrder, TypeOK
    <2> QED
      BY <1>4, <2>5, <2>6 DEF InsertOrder, Reply, TypeOK, Replies, Statements
  <1>5. ASSUME NEW c \in Calls, RollbackReservation(c)
        PROVE  TypeOK'
    BY <1>5 DEF RollbackReservation, Reply, TypeOK, Replies, Statements
  <1>6. ASSUME NEW o \in OrderIds, NEW u \in Users, CancelOrder(o, u)
        PROVE  TypeOK'
    BY <1>6, CancelType DEF CancelOrder, HasStatus, TypeOK
  <1>7. ASSUME NEW o \in OrderIds, ApplyExpirationComplete(o)
        PROVE  TypeOK'
    <2>1. processed_events' \subseteq OrderEvents \cup TicketEvents
      BY <1>7 DEF ApplyExpirationComplete, Deliver, RecordProcessed, TypeOK,
                  ExpirationComplete, OrderEvents
    <2>2. /\ orders' \in [OrderIds -> Order \cup {None}]
          /\ outbox_events' \in Seq(OutboxEvents)
      BY <1>7, CancelType DEF ApplyExpirationComplete, HasStatus, TypeOK
    <2> QED
      BY <1>7, <2>1, <2>2 DEF ApplyExpirationComplete, TypeOK
  <1>8. ASSUME NEW o \in OrderIds, ApplyPaymentCreated(o)
        PROVE  TypeOK'
    <2>1. processed_events' \subseteq OrderEvents \cup TicketEvents
      BY <1>8 DEF ApplyPaymentCreated, Deliver, RecordProcessed, TypeOK,
                  PaymentCreated, OrderEvents
    <2>2. orders' \in [OrderIds -> Order \cup {None}]
      BY <1>8, TransitionType DEF ApplyPaymentCreated, HasStatus, TypeOK, Active
    <2> QED
      BY <1>8, <2>1, <2>2 DEF ApplyPaymentCreated, TypeOK
  <1>9. ASSUME NEW o \in OrderIds, ApplyPaymentSucceeded(o)
        PROVE  TypeOK'
    <2>1. processed_events' \subseteq OrderEvents \cup TicketEvents
      BY <1>9 DEF ApplyPaymentSucceeded, Deliver, RecordProcessed, TypeOK,
                  PaymentSucceeded, OrderEvents
    <2>2. orders' \in [OrderIds -> Order \cup {None}]
      BY <1>9, TransitionType DEF ApplyPaymentSucceeded, HasStatus, TypeOK, Settled
    <2> QED
      BY <1>9, <2>1, <2>2 DEF ApplyPaymentSucceeded, TypeOK
  <1>10. ASSUME NEW o \in OrderIds, ApplyPaymentFailed(o)
         PROVE  TypeOK'
    <2>1. processed_events' \subseteq OrderEvents \cup TicketEvents
      BY <1>10 DEF ApplyPaymentFailed, Deliver, RecordProcessed, TypeOK,
                   PaymentFailed, OrderEvents
    <2>2. /\ orders' \in [OrderIds -> Order \cup {None}]
          /\ outbox_events' \in Seq(OutboxEvents)
      BY <1>10, CancelType DEF ApplyPaymentFailed, HasStatus, TypeOK
    <2> QED
      BY <1>10, <2>1, <2>2 DEF ApplyPaymentFailed, TypeOK
  <1>11. ASSUME NEW t \in TicketIds, NEW v \in 0 .. MaxTicketVersion,
                UpsertTicketFromEvent(t, v)
         PROVE  TypeOK'
    <2>1. processed_events' \subseteq OrderEvents \cup TicketEvents
      BY <1>11 DEF UpsertTicketFromEvent, Deliver, RecordProcessed, TypeOK,
                   TicketSnapshot, TicketEvents
    <2>2. tickets' \in [TicketIds -> NoRow .. MaxTicketVersion]
      BY <1>11 DEF UpsertTicketFromEvent, TypeOK, NoRow
    <2> QED
      BY <1>11, <2>1, <2>2 DEF UpsertTicketFromEvent, TypeOK
  <1>12. CASE Tick
    BY <1>12 DEF Tick, TypeOK
  <1>13. CASE UNCHANGED vars
    BY <1>13 DEF vars, TypeOK
  <1> QED
    BY <1>1, <1>2, <1>3, <1>4, <1>5, <1>6, <1>7, <1>8, <1>9, <1>10, <1>11,
       <1>12, <1>13 DEF Next, ReservationStep, HandleOrderEvent

\* The type invariant holds in every reachable state: every row, event and
\* call that the operations and handlers write has its type.
THEOREM TypeCorrect == Spec => []TypeOK
  <1>1. Init => TypeOK
    BY ConstantsAssumption DEF Init, TypeOK, NoRow, Replies, Statements
  <1>2. TypeOK /\ [Next]_vars => TypeOK'
    BY TypeStep
  <1> QED
    BY <1>1, <1>2, PTL DEF Spec

----------------------------------------------------------------------------
(* Reservations. *)

\* The frame of the operations on an existing order: they leave the ticket
\* projection, the calls in flight and the clock alone, and either change no
\* order or move one active order, with an OrderCanceled when it is canceled.
LEMMA OrderStepShape ==
    ASSUME TypeOK, NEW o \in OrderIds,
           (\E u \in Users : CancelOrder(o, u)) \/ HandleOrderEvent(o)
    PROVE  /\ UNCHANGED <<tickets, pc, call, now>>
           /\ \/ UNCHANGED <<orders, outbox_events>>
              \/ HasStatus(o, Active) /\ CancelWithEvent(o)
              \/ \E s \in {"AwaitingPayment", "Complete"} :
                    /\ HasStatus(o, Active)
                    /\ orders' = [orders EXCEPT ![o] = Transition(o, s)]
                    /\ UNCHANGED outbox_events
  BY DEF CancelOrder, HandleOrderEvent, ApplyExpirationComplete, ApplyPaymentCreated,
         ApplyPaymentSucceeded, ApplyPaymentFailed, HasStatus, Active

\* Such a step makes no order active that was not, and moves no order to
\* another ticket or expiry.
LEMMA OrderStepAddsNoActive ==
    ASSUME TypeOK, NEW o \in OrderIds,
           (\E u \in Users : CancelOrder(o, u)) \/ HandleOrderEvent(o),
           NEW p \in OrderIds, HasStatus(p, Active)'
    PROVE  /\ HasStatus(p, Active)
           /\ orders'[p].ticket = orders[p].ticket
           /\ orders'[p].expires_at = orders[p].expires_at
  <1>1. CASE UNCHANGED orders
    BY <1>1 DEF HasStatus, Placed
  <1>2. ASSUME NEW s \in {"AwaitingPayment", "Complete", "Canceled"}, HasStatus(o, Active),
               orders' = [orders EXCEPT ![o] = Transition(o, s)]
        PROVE  /\ HasStatus(p, Active)
               /\ orders'[p].ticket = orders[p].ticket
               /\ orders'[p].expires_at = orders[p].expires_at
    <2>1. Placed(o) /\ s \in Active \cup Settled
      BY <1>2 DEF HasStatus, Active, Settled
    <2>2. /\ Transition(o, s).ticket = orders[o].ticket
          /\ Transition(o, s).expires_at = orders[o].expires_at
      BY <2>1, TransitionType
    <2>3. orders'[p] = IF p = o THEN Transition(o, s) ELSE orders[p]
      BY <1>2 DEF TypeOK
    <2> QED
      BY <1>2, <2>2, <2>3 DEF HasStatus, Placed
  <1> QED
    BY <1>1, <1>2, OrderStepShape DEF CancelWithEvent

\* What a call in flight has read stays true until it commits: no other
\* transaction can void it, whatever statements interleave.
LEMMA LockedReadsStep ==
    ASSUME TypeOK, LockedReadsHold, [Next]_vars
    PROVE  LockedReadsHold'
  <1> USE ConstantsAssumption
  <1>1. ASSUME NEW c \in Calls, NEW u \in Users, NEW t \in TicketIds, ReserveTicket(c, u, t)
        PROVE  LockedReadsHold'
    BY <1>1 DEF ReserveTicket, Proceed, LockedReadsHold, HoldsTicketRow, HasStatus, Placed,
                TypeOK, Statements, Replies, Call
  <1>2. ASSUME NEW c \in Calls, LockTicketRow(c)
        PROVE  LockedReadsHold'
    <2>1. /\ call[c] \in Call /\ pc[c] = "begun"
          /\ ~ TicketRowLocked(call[c].ticket)
          /\ UNCHANGED <<orders, tickets, now>>
      BY <1>2 DEF LockTicketRow, TypeOK, Statements
    <2>2. CASE Reply(c, "Refused")
      BY <2>1, <2>2 DEF Reply, LockedReadsHold, HoldsTicketRow, HasStatus, Placed, TypeOK,
                        Statements
    <2>3. CASE Proceed(c, "locked", [call[c] EXCEPT !.price = tickets[call[c].ticket]])
      <3>1. /\ call'[c].price = tickets[call[c].ticket]
            /\ call'[c].ticket = call[c].ticket
            /\ call'[c].started = call[c].started
        BY <2>1, <2>3 DEF Proceed, TypeOK, Call
      <3>2. /\ pc'[c] = "locked"
            /\ \A d \in Calls : d # c => pc'[d] = pc[d] /\ call'[d] = call[d]
        BY <2>3 DEF Proceed, TypeOK
      <3> QED
        BY <2>1, <3>1, <3>2 DEF LockedReadsHold, TicketRowLocked, HoldsTicketRow, HasStatus,
                                Placed, Statements
    <2> QED
      BY <1>2, <2>2, <2>3 DEF LockTicketRow
  <1>3. ASSUME NEW c \in Calls, FindBlockingOrder(c)
        PROVE  LockedReadsHold'
    <2>1. call[c] \in Call /\ UNCHANGED <<orders, tickets, now>>
      BY <1>3 DEF FindBlockingOrder, TypeOK, Statements
    <2>2. CASE Reply(c, "Granted") \/ Reply(c, "Refused")
      <3>1. /\ pc'[c] \in {"Granted", "Refused"}
            /\ \A d \in Calls : d # c => pc'[d] = pc[d] /\ call'[d] = call[d]
        BY <2>2 DEF Reply, TypeOK
      <3>2. pc'[c] \notin Statements /\ pc'[c] \notin {"locked", "clear"} /\ pc'[c] # "clear"
        BY <3>1 DEF Statements
      <3> QED
        BY <2>1, <3>1, <3>2 DEF LockedReadsHold, HoldsTicketRow, HasStatus, Placed
    <2>3. CASE /\ BlockingOrders(call[c].ticket, call[c].started) = {}
               /\ Proceed(c, "clear", call[c])
      <3>1. ASSUME NEW o \in OrderIds, HasStatus(o, Active), orders[o].ticket = call[c].ticket
            PROVE  orders[o].expires_at <= call[c].started
        <4>1. ~ (orders[o].expires_at > call[c].started)
          BY <2>3, <3>1 DEF BlockingOrders, HasStatus
        <4>2. orders[o].expires_at \in Int /\ call[c].started \in Int
          BY <2>1, <3>1 DEF HasStatus, Placed, TypeOK, Order, Call
        <4> QED
          BY <4>1, <4>2
      <3>2. pc' = [pc EXCEPT ![c] = "clear"] /\ call' = call /\ pc[c] = "locked"
        BY <1>3, <2>3 DEF FindBlockingOrder, Proceed, TypeOK
      <3> QED
        BY <2>1, <3>1, <3>2 DEF LockedReadsHold, HoldsTicketRow, HasStatus, Placed, TypeOK,
                                Statements
    <2> QED
      BY <1>3, <2>2, <2>3 DEF FindBlockingOrder
  <1>4. ASSUME NEW c \in Calls, NEW o \in OrderIds, InsertOrder(c, o)
        PROVE  LockedReadsHold'
    <2>1. /\ UNCHANGED <<tickets, now>>
          /\ pc[c] = "clear"
          /\ \A p \in OrderIds : p # o => orders'[p] = orders[p]
          /\ orders'[o].ticket = call[c].ticket
      BY <1>4 DEF InsertOrder, TypeOK
    <2>2. \A d \in Calls : pc'[d] \in Statements =>
             d # c /\ pc'[d] = pc[d] /\ call'[d] = call[d]
      BY <1>4 DEF InsertOrder, Reply, TypeOK, Statements
    <2>3. ASSUME NEW d \in Calls, pc'[d] = "clear", NEW p \in OrderIds, HasStatus(p, Active)',
                 orders'[p].ticket = call'[d].ticket
          PROVE  orders'[p].expires_at <= call'[d].started
      <3>1. d # c /\ pc[d] = "clear" /\ call'[d] = call[d]
        BY <2>2, <2>3 DEF Statements
      <3>2. call[d].ticket # call[c].ticket
        BY <2>1, <3>1 DEF LockedReadsHold, HoldsTicketRow
      <3>3. p # o
        BY <2>1, <2>3, <3>1, <3>2
      <3> QED
        BY <2>1, <2>3, <3>1, <3>3 DEF LockedReadsHold, HasStatus, Placed
    <2> QED
      BY <2>1, <2>2, <2>3 DEF LockedReadsHold, HoldsTicketRow, Statements
  <1>5. ASSUME NEW c \in Calls, RollbackReservation(c)
        PROVE  LockedReadsHold'
    BY <1>5 DEF RollbackReservation, Reply, LockedReadsHold, HoldsTicketRow, HasStatus, Placed,
                TypeOK, Statements, Replies
  <1>6. ASSUME NEW o \in OrderIds,
               (\E u \in Users : CancelOrder(o, u)) \/ HandleOrderEvent(o)
        PROVE  LockedReadsHold'
    <2>1. UNCHANGED <<tickets, pc, call, now>>
      BY <1>6, OrderStepShape
    <2>2. \A p \in OrderIds : HasStatus(p, Active)' =>
             /\ HasStatus(p, Active)
             /\ orders'[p].ticket = orders[p].ticket
             /\ orders'[p].expires_at = orders[p].expires_at
      BY <1>6, OrderStepAddsNoActive
    <2> QED
      BY <2>1, <2>2 DEF LockedReadsHold, HoldsTicketRow
  <1>7. ASSUME NEW t \in TicketIds, NEW v \in 0 .. MaxTicketVersion, UpsertTicketFromEvent(t, v)
        PROVE  LockedReadsHold'
    BY <1>7 DEF UpsertTicketFromEvent, TicketRowLocked, LockedReadsHold, HoldsTicketRow,
                HasStatus, Placed, TypeOK, Statements, Call
  <1>8. CASE Tick
    BY <1>8 DEF Tick, LockedReadsHold, HoldsTicketRow, HasStatus, Placed, TypeOK, Statements, Call
  <1>9. CASE UNCHANGED vars
    BY <1>9 DEF vars, LockedReadsHold, HoldsTicketRow, HasStatus, Placed
  <1> QED
    BY <1>1, <1>2, <1>3, <1>4, <1>5, <1>6, <1>7, <1>8, <1>9 DEF Next, ReservationStep

\* OneActiveOrderPerTicket with the lock's invariant is inductive.
ReservationInv == TypeOK /\ LockedReadsHold /\ OneActiveOrderPerTicket

\* A reservation may rely on what it has read until it commits, so at no time do
\* two unexpired active orders claim the same ticket.
LEMMA ReservationsSafe == Spec => []ReservationInv
  <1> USE ConstantsAssumption
  <1>1. Init => ReservationInv
    <2> SUFFICES ASSUME Init PROVE ReservationInv
      OBVIOUS
    <2>1. TypeOK
      BY DEF Init, TypeOK, NoRow, Replies, Statements
    <2>2. LockedReadsHold
      BY DEF Init, LockedReadsHold, Statements
    <2>3. OneActiveOrderPerTicket
      BY DEF Init, OneActiveOrderPerTicket, HasStatus, Placed
    <2> QED
      BY <2>1, <2>2, <2>3 DEF ReservationInv
  <1>2. ReservationInv /\ TypeOK' /\ [Next]_vars => ReservationInv'
    <2> SUFFICES ASSUME ReservationInv, TypeOK', [Next]_vars PROVE ReservationInv'
      OBVIOUS
    <2> USE DEF ReservationInv
    <2>1. LockedReadsHold'
      BY LockedReadsStep
    <2>2. ASSUME NEW c \in Calls, NEW o \in OrderIds, InsertOrder(c, o)
          PROVE  OneActiveOrderPerTicket'
      <3>1. /\ pc[c] = "clear" /\ now' = now
            /\ \A p \in OrderIds : p # o => orders'[p] = orders[p]
            /\ orders'[o].ticket = call[c].ticket
        BY <2>2 DEF InsertOrder, TypeOK
      <3>2. call[c].started <= now /\ call[c].started \in Nat /\ now \in Nat
        BY <3>1 DEF LockedReadsHold, TypeOK, Statements, Call
      <3>3. ASSUME NEW p \in OrderIds, p # o, HasStatus(p, Active)',
                   orders'[p].ticket = orders'[o].ticket
            PROVE  ~ (orders'[p].expires_at > now')
        <4>1. HasStatus(p, Active) /\ orders[p].ticket = call[c].ticket
          BY <3>1, <3>3 DEF HasStatus, Placed
        <4>2. orders[p].expires_at <= call[c].started /\ orders[p].expires_at \in Int
          BY <3>1, <4>1 DEF LockedReadsHold, HasStatus, Placed, TypeOK, Order
        <4> QED
          BY <3>1, <3>2, <3>3, <4>2
      <3> QED
        BY <3>1, <3>3 DEF OneActiveOrderPerTicket, HasStatus, Placed
    <2>3. ASSUME NEW o \in OrderIds,
                 (\E u \in Users : CancelOrder(o, u)) \/ HandleOrderEvent(o)
          PROVE  OneActiveOrderPerTicket'
      <3>1. now' = now
        BY <2>3, OrderStepShape
      <3>2. \A p \in OrderIds : HasStatus(p, Active)' =>
               /\ HasStatus(p, Active)
               /\ orders'[p].ticket = orders[p].ticket
               /\ orders'[p].expires_at = orders[p].expires_at
        BY <2>3, OrderStepAddsNoActive
      <3> QED
        BY <3>1, <3>2 DEF OneActiveOrderPerTicket
    <2>4. ASSUME Tick PROVE OneActiveOrderPerTicket'
      <3>1. \A p \in OrderIds : HasStatus(p, Active) => orders[p].expires_at \in Int
        BY DEF HasStatus, Placed, TypeOK, Order
      <3> QED
        BY <2>4, <3>1 DEF Tick, OneActiveOrderPerTicket, HasStatus, Placed, TypeOK
    <2>5. ASSUME UNCHANGED <<orders, now>> PROVE OneActiveOrderPerTicket'
      BY <2>5 DEF OneActiveOrderPerTicket, HasStatus, Placed
    <2>6. OneActiveOrderPerTicket'
      BY <2>2, <2>3, <2>4, <2>5
         DEF Next, ReservationStep, ReserveTicket, LockTicketRow, FindBlockingOrder,
             RollbackReservation, UpsertTicketFromEvent, vars
    <2> QED
      BY <2>1, <2>6
  <1> QED
    BY <1>1, <1>2, TypeCorrect, PTL DEF Spec

\* No two unexpired active orders ever claim the same ticket: the comment on
\* PostgresRepository.ReserveTicket, for any number of concurrent callers.
THEOREM OneActiveOrder == Spec => []OneActiveOrderPerTicket
  <1>1. ReservationInv => OneActiveOrderPerTicket
    BY DEF ReservationInv
  <1> QED
    BY <1>1, ReservationsSafe, PTL

\* The price, the lock and the absence of a blocking order that ReserveTicket
\* has read hold until it commits, although order rows are never locked.
THEOREM LockedReads == Spec => []LockedReadsHold
  <1>1. ReservationInv => LockedReadsHold
    BY DEF ReservationInv
  <1> QED
    BY <1>1, ReservationsSafe, PTL

----------------------------------------------------------------------------
(* Orders over their lives. *)

\* How an order may move: once placed it stays placed, with its owner, ticket
\* and expiry; a settled order does not change; no order becomes Created again.
LEMMA OrderLife ==
    ASSUME TypeOK, [Next]_vars, NEW p \in OrderIds, Placed(p)
    PROVE  /\ Placed(p)'
           /\ orders'[p].user = orders[p].user
           /\ orders'[p].ticket = orders[p].ticket
           /\ HasStatus(p, Settled) => orders'[p] = orders[p]
           /\ HasStatus(p, {"AwaitingPayment"}) => orders'[p].status # "Created"
  <1> DEFINE Kept == /\ Placed(p)'
                     /\ orders'[p].user = orders[p].user
                     /\ orders'[p].ticket = orders[p].ticket
                     /\ HasStatus(p, Settled) => orders'[p] = orders[p]
                     /\ HasStatus(p, {"AwaitingPayment"}) => orders'[p].status # "Created"
  <1>1. ASSUME orders'[p] = orders[p] PROVE Kept
    BY <1>1 DEF HasStatus, Placed
  <1>2. ASSUME NEW c \in Calls, NEW o \in OrderIds, InsertOrder(c, o)
        PROVE  Kept
    <2>1. o # p /\ orders'[p] = orders[p]
      BY <1>2 DEF InsertOrder, Placed, TypeOK
    <2> QED
      BY <1>1, <2>1
  <1>3. ASSUME NEW o \in OrderIds,
               (\E u \in Users : CancelOrder(o, u)) \/ HandleOrderEvent(o)
        PROVE  Kept
    <2>1. CASE UNCHANGED orders
      BY <1>1, <2>1
    <2>2. ASSUME NEW s \in {"AwaitingPayment", "Complete", "Canceled"}, HasStatus(o, Active),
                 orders' = [orders EXCEPT ![o] = Transition(o, s)]
          PROVE  Kept
      <3>1. Placed(o) /\ s \in Active \cup Settled
        BY <2>2 DEF HasStatus, Active, Settled
      <3>2. /\ Transition(o, s) \in Order /\ Transition(o, s).status # "Created"
            /\ Transition(o, s).user = orders[o].user
            /\ Transition(o, s).ticket = orders[o].ticket
        BY <3>1, TransitionType
      <3>3. orders'[p] = IF p = o THEN Transition(o, s) ELSE orders[p]
        BY <2>2 DEF TypeOK
      <3>4. CASE p # o
        BY <1>1, <3>3, <3>4
      <3>5. CASE p = o
        <4>1. Placed(p)' /\ ~ HasStatus(p, Settled)
          BY <2>2, <3>2, <3>3, <3>5, NoneAssumption DEF HasStatus, Placed, Active, Settled
        <4> QED
          BY <3>2, <3>3, <3>5, <4>1
      <3> QED
        BY <3>4, <3>5
    <2> QED
      BY <1>3, <2>1, <2>2, OrderStepShape DEF CancelWithEvent
  <1>4. CASE UNCHANGED orders
    BY <1>1, <1>4
  <1> QED
    BY <1>2, <1>3, <1>4
       DEF Next, ReservationStep, ReserveTicket, LockTicketRow, FindBlockingOrder,
           RollbackReservation, UpsertTicketFromEvent, Tick, vars

\* Canceled and Complete are final and no order becomes Created again.
THEOREM SettledStay == Spec => SettledOrdersStay
  <1>1. TypeOK /\ [Next]_vars =>
          [\A o \in OrderIds :
             /\ HasStatus(o, Settled) => orders'[o] = orders[o]
             /\ HasStatus(o, {"AwaitingPayment"}) => orders'[o].status # "Created"]_vars
    BY OrderLife DEF HasStatus
  <1> QED
    BY <1>1, TypeCorrect, PTL DEF Spec, SettledOrdersStay

\* An order's version counts its transitions: an order is Created at 0, awaits
\* payment at 1 and settles at 1 or, after it awaited payment, at 2.
VersionsCountTransitions ==
    \A o \in OrderIds :
        Placed(o) =>
          /\ orders[o].status = "Created" => orders[o].aggregate_version = 0
          /\ orders[o].status = "AwaitingPayment" => orders[o].aggregate_version = 1
          /\ orders[o].status \in Settled => orders[o].aggregate_version \in {1, 2}

\* The versions that Orders publishes are the ones Payments waits for: 0 on
\* OrderCreated and 1 or 2 on OrderCanceled. A 2 is the gap that Payments never
\* closes when PaymentCreated came first.
THEOREM VersionsCount == Spec => []VersionsCountTransitions
  <1>1. Init => VersionsCountTransitions
    BY DEF Init, VersionsCountTransitions, Placed
  <1>2. VersionsCountTransitions /\ TypeOK /\ [Next]_vars => VersionsCountTransitions'
    <2> SUFFICES ASSUME VersionsCountTransitions, TypeOK, [Next]_vars
                 PROVE  VersionsCountTransitions'
      OBVIOUS
    <2>1. ASSUME NEW c \in Calls, NEW o \in OrderIds, InsertOrder(c, o)
          PROVE  VersionsCountTransitions'
      <3>1. /\ orders'[o].status = "Created" /\ orders'[o].aggregate_version = 0
            /\ \A p \in OrderIds : p # o => orders'[p] = orders[p]
        BY <2>1 DEF InsertOrder, TypeOK
      <3> QED
        BY <3>1 DEF VersionsCountTransitions, Placed, Settled
    <2>2. ASSUME NEW o \in OrderIds,
                 NEW s \in {"AwaitingPayment", "Complete", "Canceled"}, HasStatus(o, Active),
                 s = "AwaitingPayment" => HasStatus(o, {"Created"}),
                 orders' = [orders EXCEPT ![o] = Transition(o, s)]
          PROVE  VersionsCountTransitions'
      <3>1. Placed(o) /\ s \in Active \cup Settled
        BY <2>2 DEF HasStatus, Active, Settled
      <3>2. /\ Transition(o, s).status = s
            /\ Transition(o, s).aggregate_version = orders[o].aggregate_version + 1
        BY <3>1, TransitionType
      <3>3. \A p \in OrderIds : orders'[p] = IF p = o THEN Transition(o, s) ELSE orders[p]
        BY <2>2 DEF TypeOK
      <3>4. /\ orders[o].aggregate_version \in {0, 1}
            /\ HasStatus(o, {"Created"}) => orders[o].aggregate_version = 0
        BY <2>2 DEF VersionsCountTransitions, HasStatus, Active
      <3> QED
        BY <2>2, <3>2, <3>3, <3>4 DEF VersionsCountTransitions, Placed, Settled
    <2>3. CASE UNCHANGED orders
      BY <2>3 DEF VersionsCountTransitions, Placed
    <2>4. ASSUME NEW o \in OrderIds,
                 (\E u \in Users : CancelOrder(o, u)) \/ HandleOrderEvent(o)
          PROVE  VersionsCountTransitions'
      <3>1. CASE UNCHANGED orders
        BY <2>3, <3>1
      <3>2. CASE HasStatus(o, Active) /\ CancelWithEvent(o)
        BY <2>2, <3>2 DEF CancelWithEvent
      <3>3. CASE \E u \in Users : CancelOrder(o, u)
        BY <3>2, <3>3 DEF CancelOrder
      <3>4. CASE ApplyExpirationComplete(o)
        BY <3>1, <3>2, <3>4 DEF ApplyExpirationComplete, HasStatus, Active
      <3>5. CASE ApplyPaymentCreated(o)
        BY <2>2, <3>1, <3>5 DEF ApplyPaymentCreated, HasStatus, Active
      <3>6. CASE ApplyPaymentSucceeded(o)
        BY <2>2, <3>1, <3>6 DEF ApplyPaymentSucceeded
      <3>7. CASE ApplyPaymentFailed(o)
        BY <3>1, <3>2, <3>7 DEF ApplyPaymentFailed
      <3> QED
        BY <2>4, <3>3, <3>4, <3>5, <3>6, <3>7 DEF HandleOrderEvent
    <2> QED
      BY <2>1, <2>3, <2>4
         DEF Next, ReservationStep, ReserveTicket, LockTicketRow, FindBlockingOrder,
             RollbackReservation, UpsertTicketFromEvent, Tick, vars
  <1> QED
    BY <1>1, <1>2, TypeCorrect, PTL DEF Spec

\* A call that has locked the projection row leaves "locked" in two ways only:
\* its own query for blocking orders, which a sold ticket always answers with a
\* Complete order, or a rollback. Both refuse the call.
THEOREM SoldRefused == Spec => SoldTicketIsRefused
  <1>1. TypeOK /\ [Next]_vars =>
          [\A c \in Calls :
             /\ pc[c] = "locked" /\ pc'[c] # pc[c]
             /\ \E o \in OrderIds : HasStatus(o, {"Complete"}) /\ orders[o].ticket = call[c].ticket
             => pc'[c] = "Refused"]_vars
    <2> SUFFICES ASSUME TypeOK, Next, NEW c \in Calls, pc[c] = "locked", pc'[c] # pc[c],
                        NEW o \in OrderIds, HasStatus(o, {"Complete"}),
                        orders[o].ticket = call[c].ticket
                 PROVE  pc'[c] = "Refused"
      OBVIOUS
    <2>1. ASSUME NEW d \in Calls, ReservationStep(d)
          PROVE  d = c
      BY <2>1 DEF ReservationStep, ReserveTicket, LockTicketRow, FindBlockingOrder, InsertOrder,
                  RollbackReservation, Proceed, Reply, TypeOK
    <2>2. CASE FindBlockingOrder(c)
      <3> DEFINE blocking == BlockingOrders(call[c].ticket, call[c].started)
                 complete == {p \in blocking : orders[p].status = "Complete"}
      <3>1. o \in complete
        BY DEF BlockingOrders, HasStatus, Placed
      <3>2. \A p \in FirstBlocking(call[c].ticket, call[c].started) : p \in complete
        BY <3>1 DEF FirstBlocking
      <3>3. PICK p \in FirstBlocking(call[c].ticket, call[c].started) :
              IF orders[p].user = call[c].user /\ orders[p].status # "Complete"
                THEN Reply(c, "Granted")
                ELSE Reply(c, "Refused")
        BY <2>2, <3>1 DEF FindBlockingOrder
      <3>4. Reply(c, "Refused")
        BY <3>2, <3>3
      <3> QED
        BY <3>4 DEF Reply, TypeOK
    <2>3. CASE RollbackReservation(c)
      BY <2>3 DEF RollbackReservation, Reply, TypeOK
    <2>4. ASSUME ReservationStep(c)
          PROVE  FindBlockingOrder(c) \/ RollbackReservation(c)
      BY <2>4 DEF ReservationStep, ReserveTicket, LockTicketRow, InsertOrder, Replies
    <2>5. ASSUME NEW p \in OrderIds,
                 (\E u \in Users : CancelOrder(p, u)) \/ HandleOrderEvent(p)
          PROVE  FALSE
      BY <2>5, OrderStepShape
    <2> QED
      BY <2>1, <2>2, <2>3, <2>4, <2>5 DEF Next, UpsertTicketFromEvent, Tick
  <1> QED
    BY <1>1, TypeCorrect, PTL DEF Spec, SoldTicketIsRefused

----------------------------------------------------------------------------
(* Events that were handled. *)

\* The events about orders and those about tickets are told apart.
LEMMA EventKinds ==
    ASSUME NEW o \in OrderIds
    PROVE  /\ ExpirationComplete(o) \notin TicketEvents
           /\ PaymentCreated(o) \notin TicketEvents
           /\ PaymentSucceeded(o) \notin TicketEvents
           /\ PaymentFailed(o) \notin TicketEvents
  BY DEF ExpirationComplete, PaymentCreated, PaymentSucceeded, PaymentFailed, TicketEvents

\* A ticket event is recorded as processed exactly when the projection has
\* reached its version, so a version gap never loses one.
THEOREM TicketEventsKept == Spec => []TicketEventsNeverLost
  <1> USE ConstantsAssumption
  <1>1. Init => TicketEventsNeverLost
    BY DEF Init, TicketEventsNeverLost, TicketEvents, NoRow
  <1>2. TicketEventsNeverLost /\ TypeOK /\ [Next]_vars => TicketEventsNeverLost'
    <2> SUFFICES ASSUME TicketEventsNeverLost, TypeOK, [Next]_vars
                 PROVE  TicketEventsNeverLost'
      OBVIOUS
    <2>1. ASSUME NEW t \in TicketIds, NEW v \in 0 .. MaxTicketVersion,
                 UpsertTicketFromEvent(t, v)
          PROVE  TicketEventsNeverLost'
      <3>1. /\ v <= tickets[t] + 1
            /\ processed_events' = processed_events \cup {TicketSnapshot(t, v)}
            /\ tickets' = IF v <= tickets[t] THEN tickets ELSE [tickets EXCEPT ![t] = v]
        BY <2>1 DEF UpsertTicketFromEvent, Deliver, RecordProcessed
      <3>2. tickets[t] \in Int /\ v \in Int
        BY DEF TypeOK, NoRow
      <3>3. ASSUME NEW e \in TicketEvents
            PROVE  /\ e.ticket = t /\ e.version = v <=> e = TicketSnapshot(t, v)
                   /\ e.version \in Int /\ e.ticket \in TicketIds /\ tickets[e.ticket] \in Int
        BY <3>3 DEF TicketEvents, TicketSnapshot, TypeOK, NoRow
      <3>4. ASSUME NEW e \in TicketEvents
            PROVE  e \in processed_events' <=> e.version <= tickets'[e.ticket]
        <4>1. e \in processed_events <=> e.version <= tickets[e.ticket]
          BY <3>4 DEF TicketEventsNeverLost
        <4>2. tickets'[e.ticket] = IF e.ticket = t /\ ~ (v <= tickets[t]) THEN v
                                                                         ELSE tickets[e.ticket]
          BY <3>1, <3>3 DEF TypeOK
        <4> QED
          BY <3>1, <3>2, <3>3, <4>1, <4>2
      <3> QED
        BY <3>4 DEF TicketEventsNeverLost
    <2>2. ASSUME NEW o \in OrderIds, HandleOrderEvent(o)
          PROVE  TicketEventsNeverLost'
      <3>1. tickets' = tickets
        BY <2>2 DEF HandleOrderEvent, ApplyExpirationComplete, ApplyPaymentCreated,
                    ApplyPaymentSucceeded, ApplyPaymentFailed
      <3>2. \A e \in TicketEvents : e \in processed_events' <=> e \in processed_events
        BY <2>2, EventKinds
           DEF HandleOrderEvent, ApplyExpirationComplete, ApplyPaymentCreated,
               ApplyPaymentSucceeded, ApplyPaymentFailed, Deliver, RecordProcessed
      <3> QED
        BY <3>1, <3>2 DEF TicketEventsNeverLost
    <2>3. CASE UNCHANGED <<tickets, processed_events>>
      BY <2>3 DEF TicketEventsNeverLost
    <2> QED
      BY <2>1, <2>2, <2>3
         DEF Next, ReservationStep, ReserveTicket, LockTicketRow, FindBlockingOrder, InsertOrder,
             RollbackReservation, CancelOrder, Tick, vars
  <1> QED
    BY <1>1, <1>2, TypeCorrect, PTL DEF Spec

\* Only a successful payment completes an order. A PaymentFailed that finds a
\* Complete order would be recorded without effect: as a payment has one
\* result, there is none.
CompleteOrdersArePaid ==
    \A o \in OrderIds :
        HasStatus(o, {"Complete"}) => PaymentSucceeded(o) \in processed_events

\* ProcessedEventsAreInEffect is inductive with CompleteOrdersArePaid.
EffectsInv == ProcessedEventsAreInEffect /\ CompleteOrdersArePaid

\* A processed event stays processed, and its effect stays in the orders: the
\* part of EffectsInv that every step leaves alone.
LEMMA EffectsStay ==
    ASSUME TypeOK, TypeOK', ProcessedEventsAreInEffect, [Next]_vars, NEW o \in OrderIds
    PROVE  /\ PaymentFailed(o) \in processed_events => HasStatus(o, {"Canceled"})'
           /\ PaymentSucceeded(o) \in processed_events => HasStatus(o, Settled)'
           /\ {ExpirationComplete(o), PaymentCreated(o)} \cap processed_events # {} =>
                HasStatus(o, {"AwaitingPayment"} \cup Settled)'
  <1>1. HasStatus(o, Settled) => HasStatus(o, Settled)' /\ orders'[o] = orders[o]
    BY OrderLife DEF HasStatus, Placed
  <1>2. HasStatus(o, {"Canceled"}) => HasStatus(o, {"Canceled"})'
    BY <1>1 DEF HasStatus, Placed, Settled
  <1>3. HasStatus(o, {"AwaitingPayment"}) => HasStatus(o, {"AwaitingPayment"} \cup Settled)'
    <2> SUFFICES ASSUME HasStatus(o, {"AwaitingPayment"})
                 PROVE  HasStatus(o, {"AwaitingPayment"} \cup Settled)'
      OBVIOUS
    <2>1. Placed(o)' /\ orders'[o].status # "Created"
      BY OrderLife DEF HasStatus
    <2>2. orders'[o].status \in Active \cup Settled
      BY <2>1 DEF TypeOK, Placed, Order
    <2> QED
      BY <2>1, <2>2 DEF HasStatus, Active
  <1>4. HasStatus(o, {"AwaitingPayment"} \cup Settled) =>
          HasStatus(o, {"AwaitingPayment"}) \/ HasStatus(o, Settled)
    BY DEF HasStatus
  <1>5. HasStatus(o, Settled)' => HasStatus(o, {"AwaitingPayment"} \cup Settled)'
    BY DEF HasStatus
  <1> QED
    BY <1>1, <1>2, <1>3, <1>4, <1>5 DEF ProcessedEventsAreInEffect

\* The events about orders are told apart by type and order.
LEMMA OrderEventsDiffer ==
    ASSUME NEW o, NEW p
    PROVE  /\ PaymentFailed(o) # PaymentSucceeded(p) /\ PaymentFailed(o) # PaymentCreated(p)
           /\ PaymentFailed(o) # ExpirationComplete(p)
           /\ PaymentSucceeded(o) # PaymentCreated(p)
           /\ PaymentSucceeded(o) # ExpirationComplete(p)
           /\ PaymentCreated(o) # ExpirationComplete(p)
           /\ PaymentFailed(o) = PaymentFailed(p) => o = p
           /\ PaymentSucceeded(o) = PaymentSucceeded(p) => o = p
           /\ PaymentCreated(o) = PaymentCreated(p) => o = p
           /\ ExpirationComplete(o) = ExpirationComplete(p) => o = p
  BY DEF PaymentFailed, PaymentSucceeded, PaymentCreated, ExpirationComplete

\* Every event that was processed is in effect in the orders for good, although
\* the payment's two events and the expiration come in any order and however
\* often: a result is never recorded and then lost.
THEOREM ProcessedInEffect == Spec => []ProcessedEventsAreInEffect
  <1>1. Init => EffectsInv
    BY DEF Init, EffectsInv, ProcessedEventsAreInEffect, CompleteOrdersArePaid, HasStatus, Placed
  <1>2. EffectsInv /\ TypeOK /\ TypeOK' /\ [Next]_vars => EffectsInv'
    <2> SUFFICES ASSUME EffectsInv, TypeOK, TypeOK', [Next]_vars PROVE EffectsInv'
      OBVIOUS
    <2> DEFINE Stay(o) ==
                 /\ PaymentFailed(o) \in processed_events => HasStatus(o, {"Canceled"})'
                 /\ PaymentSucceeded(o) \in processed_events => HasStatus(o, Settled)'
                 /\ {ExpirationComplete(o), PaymentCreated(o)} \cap processed_events # {} =>
                      HasStatus(o, {"AwaitingPayment"} \cup Settled)'
    <2>0. \A o \in OrderIds : Stay(o)
      BY EffectsStay DEF EffectsInv
    <2>1. ASSUME NEW e, processed_events' = processed_events \cup {e},
                 \A o \in OrderIds :
                   /\ e = PaymentFailed(o) => HasStatus(o, {"Canceled"})'
                   /\ e = PaymentSucceeded(o) => HasStatus(o, Settled)'
                   /\ e \in {ExpirationComplete(o), PaymentCreated(o)} =>
                        HasStatus(o, {"AwaitingPayment"} \cup Settled)',
                 \A o \in OrderIds :
                   HasStatus(o, {"Complete"})' /\ ~ HasStatus(o, {"Complete"}) =>
                     e = PaymentSucceeded(o)
          PROVE  EffectsInv'
      <3>1. ProcessedEventsAreInEffect'
        <4> SUFFICES ASSUME NEW o \in OrderIds
                     PROVE  /\ PaymentFailed(o) \in processed_events' => HasStatus(o, {"Canceled"})'
                            /\ PaymentSucceeded(o) \in processed_events' => HasStatus(o, Settled)'
                            /\ {ExpirationComplete(o), PaymentCreated(o)} \cap processed_events' # {} =>
                                 HasStatus(o, {"AwaitingPayment"} \cup Settled)'
          BY DEF ProcessedEventsAreInEffect, PaymentFailed, PaymentSucceeded, PaymentCreated,
                 ExpirationComplete
        <4> QED
          BY <2>0, <2>1
      <3>2. CompleteOrdersArePaid'
        <4> SUFFICES ASSUME NEW o \in OrderIds, HasStatus(o, {"Complete"})'
                     PROVE  PaymentSucceeded(o) \in processed_events'
          BY DEF CompleteOrdersArePaid, PaymentSucceeded
        <4> QED
          BY <2>1 DEF EffectsInv, CompleteOrdersArePaid
      <3> QED
        BY <3>1, <3>2 DEF EffectsInv
    <2>2. ASSUME NEW o \in OrderIds, NEW s \in {"AwaitingPayment", "Complete", "Canceled"},
                 HasStatus(o, Active), orders' = [orders EXCEPT ![o] = Transition(o, s)]
          PROVE  /\ HasStatus(o, {s})'
                 /\ \A p \in OrderIds : p # o => orders'[p] = orders[p]
      <3>1. Placed(o) /\ s \in Active \cup Settled
        BY <2>2 DEF HasStatus, Active, Settled
      <3>2. Transition(o, s) \in Order /\ Transition(o, s).status = s
        BY <3>1, TransitionType
      <3>3. orders'[o] = Transition(o, s)
        BY <2>2 DEF TypeOK
      <3>4. \A p \in OrderIds : p # o => orders'[p] = orders[p]
        BY <2>2 DEF TypeOK
      <3> QED
        BY <3>2, <3>3, <3>4, NoneAssumption DEF HasStatus, Placed
    <2>3. ASSUME NEW o \in OrderIds, Placed(o)
          PROVE  HasStatus(o, {"Created"}) \/ HasStatus(o, {"AwaitingPayment"}) \/ HasStatus(o, Settled)
      BY <2>3 DEF HasStatus, Placed, TypeOK, Order, Active
    <2>4. ASSUME NEW o \in OrderIds, ApplyExpirationComplete(o)
          PROVE  EffectsInv'
      <3>1. /\ Placed(o)
            /\ processed_events' = processed_events \cup {ExpirationComplete(o)}
        BY <2>4 DEF ApplyExpirationComplete, Deliver, MayBePublished, RecordProcessed,
                    ExpirationComplete
      <3>2. CASE HasStatus(o, {"Created"})
        <4>1. HasStatus(o, Active) /\ orders' = [orders EXCEPT ![o] = Transition(o, "Canceled")]
          BY <2>4, <3>2 DEF ApplyExpirationComplete, CancelWithEvent, HasStatus, Active
        <4>2. HasStatus(o, {"Canceled"})' /\ \A p \in OrderIds : p # o => orders'[p] = orders[p]
          BY <2>2, <4>1
        <4> QED
          BY <2>1, <3>1, <4>2, OrderEventsDiffer DEF HasStatus, Placed, Settled
      <3>3. CASE ~ HasStatus(o, {"Created"})
        <4>1. UNCHANGED orders
          BY <2>4, <3>3 DEF ApplyExpirationComplete
        <4>2. HasStatus(o, {"AwaitingPayment"} \cup Settled)'
          BY <2>3, <3>1, <3>3, <4>1 DEF HasStatus, Placed
        <4> QED
          BY <2>1, <3>1, <4>1, <4>2, OrderEventsDiffer DEF HasStatus, Placed
      <3> QED
        BY <3>2, <3>3
    <2>5. ASSUME NEW o \in OrderIds, ApplyPaymentCreated(o)
          PROVE  EffectsInv'
      <3>1. /\ Placed(o)
            /\ processed_events' = processed_events \cup {PaymentCreated(o)}
        BY <2>5 DEF ApplyPaymentCreated, Deliver, MayBePublished, RecordProcessed, PaymentCreated
      <3>2. CASE HasStatus(o, {"Created"})
        <4>1. /\ HasStatus(o, Active)
              /\ orders' = [orders EXCEPT ![o] = Transition(o, "AwaitingPayment")]
          BY <2>5, <3>2 DEF ApplyPaymentCreated, HasStatus, Active
        <4>2. /\ HasStatus(o, {"AwaitingPayment"})'
              /\ \A p \in OrderIds : p # o => orders'[p] = orders[p]
          BY <2>2, <4>1
        <4> QED
          BY <2>1, <3>1, <4>2, OrderEventsDiffer DEF HasStatus, Placed
      <3>3. CASE ~ HasStatus(o, {"Created"})
        <4>1. UNCHANGED orders
          BY <2>5, <3>3 DEF ApplyPaymentCreated
        <4>2. HasStatus(o, {"AwaitingPayment"} \cup Settled)'
          BY <2>3, <3>1, <3>3, <4>1 DEF HasStatus, Placed
        <4> QED
          BY <2>1, <3>1, <4>1, <4>2, OrderEventsDiffer DEF HasStatus, Placed
      <3> QED
        BY <3>2, <3>3
    <2>6. ASSUME NEW o \in OrderIds, ApplyPaymentSucceeded(o)
          PROVE  EffectsInv'
      <3>1. /\ Placed(o)
            /\ processed_events' = processed_events \cup {PaymentSucceeded(o)}
        BY <2>6 DEF ApplyPaymentSucceeded, Deliver, MayBePublished, RecordProcessed,
                    PaymentSucceeded
      <3>2. CASE HasStatus(o, Active)
        <4>1. orders' = [orders EXCEPT ![o] = Transition(o, "Complete")]
          BY <2>6, <3>2 DEF ApplyPaymentSucceeded
        <4>2. HasStatus(o, {"Complete"})' /\ \A p \in OrderIds : p # o => orders'[p] = orders[p]
          BY <2>2, <3>2, <4>1
        <4> QED
          BY <2>1, <3>1, <4>2, OrderEventsDiffer DEF HasStatus, Placed, Settled
      <3>3. CASE ~ HasStatus(o, Active)
        <4>1. UNCHANGED orders
          BY <2>6, <3>3 DEF ApplyPaymentSucceeded
        <4>2. HasStatus(o, Settled)'
          BY <2>3, <3>1, <3>3, <4>1 DEF HasStatus, Placed, Active
        <4> QED
          BY <2>1, <3>1, <4>1, <4>2, OrderEventsDiffer DEF HasStatus, Placed
      <3> QED
        BY <3>2, <3>3
    <2>7. ASSUME NEW o \in OrderIds, ApplyPaymentFailed(o)
          PROVE  EffectsInv'
      <3>1. /\ Placed(o) /\ PaymentSucceeded(o) \notin processed_events
            /\ processed_events' = processed_events \cup {PaymentFailed(o)}
        BY <2>7 DEF ApplyPaymentFailed, Deliver, MayBePublished, RecordProcessed, PaymentFailed
      <3>2. CASE HasStatus(o, Active)
        <4>1. orders' = [orders EXCEPT ![o] = Transition(o, "Canceled")]
          BY <2>7, <3>2 DEF ApplyPaymentFailed, CancelWithEvent
        <4>2. HasStatus(o, {"Canceled"})' /\ \A p \in OrderIds : p # o => orders'[p] = orders[p]
          BY <2>2, <3>2, <4>1
        <4> QED
          BY <2>1, <3>1, <4>2, OrderEventsDiffer DEF HasStatus, Placed
      <3>3. CASE ~ HasStatus(o, Active)
        <4>1. UNCHANGED orders
          BY <2>7, <3>3 DEF ApplyPaymentFailed
        <4>2. ~ HasStatus(o, {"Complete"})
          BY <3>1 DEF EffectsInv, CompleteOrdersArePaid
        <4>3. HasStatus(o, {"Canceled"})'
          BY <2>3, <3>1, <3>3, <4>1, <4>2 DEF HasStatus, Placed, Active, Settled
        <4> QED
          BY <2>1, <3>1, <4>1, <4>3, OrderEventsDiffer DEF HasStatus, Placed
      <3> QED
        BY <3>2, <3>3
    <2>8. ASSUME \A o \in OrderIds : HasStatus(o, {"Complete"})' => HasStatus(o, {"Complete"}),
                 \A o \in OrderIds :
                   /\ PaymentFailed(o) \in processed_events' <=> PaymentFailed(o) \in processed_events
                   /\ PaymentSucceeded(o) \in processed_events' <=>
                        PaymentSucceeded(o) \in processed_events
                   /\ ExpirationComplete(o) \in processed_events' <=>
                        ExpirationComplete(o) \in processed_events
                   /\ PaymentCreated(o) \in processed_events' <=>
                        PaymentCreated(o) \in processed_events
          PROVE  EffectsInv'
      <3>1. ProcessedEventsAreInEffect'
        <4> SUFFICES ASSUME NEW o \in OrderIds
                     PROVE  /\ PaymentFailed(o) \in processed_events' => HasStatus(o, {"Canceled"})'
                            /\ PaymentSucceeded(o) \in processed_events' => HasStatus(o, Settled)'
                            /\ {ExpirationComplete(o), PaymentCreated(o)} \cap processed_events' # {} =>
                                 HasStatus(o, {"AwaitingPayment"} \cup Settled)'
          BY DEF ProcessedEventsAreInEffect, PaymentFailed, PaymentSucceeded, PaymentCreated,
                 ExpirationComplete
        <4> QED
          BY <2>0, <2>8
      <3>2. CompleteOrdersArePaid'
        <4> SUFFICES ASSUME NEW o \in OrderIds, HasStatus(o, {"Complete"})'
                     PROVE  PaymentSucceeded(o) \in processed_events'
          BY DEF CompleteOrdersArePaid, PaymentSucceeded
        <4> QED
          BY <2>8 DEF EffectsInv, CompleteOrdersArePaid
      <3> QED
        BY <3>1, <3>2 DEF EffectsInv
    <2>9. ASSUME NEW t \in TicketIds, NEW v \in 0 .. MaxTicketVersion,
                 UpsertTicketFromEvent(t, v)
          PROVE  EffectsInv'
      <3>1. processed_events' = processed_events \cup {TicketSnapshot(t, v)} /\ UNCHANGED orders
        BY <2>9 DEF UpsertTicketFromEvent, Deliver, RecordProcessed
      <3>2. TicketSnapshot(t, v) \in TicketEvents
        BY DEF TicketSnapshot, TicketEvents
      <3> QED
        BY <2>8, <3>1, <3>2, EventKinds DEF HasStatus, Placed
    <2>10. ASSUME NEW o \in OrderIds, NEW u \in Users, CancelOrder(o, u)
           PROVE  EffectsInv'
      <3>1. /\ HasStatus(o, Active) /\ UNCHANGED processed_events
            /\ orders' = [orders EXCEPT ![o] = Transition(o, "Canceled")]
        BY <2>10 DEF CancelOrder, CancelWithEvent
      <3>2. HasStatus(o, {"Canceled"})' /\ \A p \in OrderIds : p # o => orders'[p] = orders[p]
        BY <2>2, <3>1
      <3> QED
        BY <2>8, <3>1, <3>2 DEF HasStatus, Placed
    <2>11. ASSUME NEW c \in Calls, NEW o \in OrderIds, InsertOrder(c, o)
           PROVE  EffectsInv'
      <3>1. /\ UNCHANGED processed_events
            /\ orders'[o].status = "Created"
            /\ \A p \in OrderIds : p # o => orders'[p] = orders[p]
        BY <2>11 DEF InsertOrder, TypeOK
      <3> QED
        BY <2>8, <3>1 DEF HasStatus, Placed
    <2>12. CASE UNCHANGED <<orders, processed_events>>
      BY <2>8, <2>12 DEF HasStatus, Placed
    <2> QED
      BY <2>4, <2>5, <2>6, <2>7, <2>9, <2>10, <2>11, <2>12
         DEF Next, ReservationStep, ReserveTicket, LockTicketRow, FindBlockingOrder,
             RollbackReservation, HandleOrderEvent, Tick, vars
  <1>3. EffectsInv => ProcessedEventsAreInEffect
    BY DEF EffectsInv
  <1> QED
    BY <1>1, <1>2, <1>3, TypeCorrect, PTL DEF Spec

----------------------------------------------------------------------------
(* The outbox. *)

\* Inserting an outbox row adds its index to the events of its order and type.
LEMMA EventsOfAppend ==
    ASSUME outbox_events \in Seq(OutboxEvents), NEW e \in OutboxEvents,
           outbox_events' = Append(outbox_events, e), NEW type, NEW o
    PROVE  LET n == Len(outbox_events) + 1
           IN  /\ e.type = type /\ e.order = o => EventsOf(type, o)' = EventsOf(type, o) \cup {n}
               /\ e.type # type \/ e.order # o => EventsOf(type, o)' = EventsOf(type, o)
               /\ n \in DOMAIN outbox_events' /\ outbox_events'[n] = e
               /\ \A i \in DOMAIN outbox_events :
                    i < n /\ i \in DOMAIN outbox_events' /\ outbox_events'[i] = outbox_events[i]
  <1> DEFINE n == Len(outbox_events) + 1
  <1>1. /\ Len(outbox_events) \in Nat
        /\ DOMAIN outbox_events = 1 .. Len(outbox_events)
        /\ DOMAIN outbox_events' = 1 .. n
        /\ outbox_events'[n] = e
        /\ \A i \in 1 .. Len(outbox_events) : outbox_events'[i] = outbox_events[i]
    OBVIOUS
  <1>2. \A i \in DOMAIN outbox_events' : i = n \/ i \in DOMAIN outbox_events
    BY <1>1
  <1>3. \A i \in DOMAIN outbox_events : i < n /\ i # n /\ i \in DOMAIN outbox_events'
    BY <1>1
  <1>4. n \in DOMAIN outbox_events'
    BY <1>1
  <1>5. /\ e.type = type /\ e.order = o => EventsOf(type, o)' = EventsOf(type, o) \cup {n}
        /\ e.type # type \/ e.order # o => EventsOf(type, o)' = EventsOf(type, o)
    <2> HIDE DEF n
    <2> QED
      BY <1>1, <1>2, <1>3, <1>4 DEF EventsOf
  <1> QED
    BY <1>1, <1>3, <1>4, <1>5

\* The history of one order in the outbox.
HistoryOf(o) ==
    /\ ~ Placed(o) => EventsOf("OrderCreated", o) = {}
    /\ Placed(o) =>
         \E i \in DOMAIN outbox_events :
             /\ EventsOf("OrderCreated", o) = {i}
             /\ outbox_events[i].user = orders[o].user
             /\ outbox_events[i].ticket = orders[o].ticket
             /\ outbox_events[i].expires_at = orders[o].expires_at
    /\ ~ HasStatus(o, {"Canceled"}) => EventsOf("OrderCanceled", o) = {}
    /\ HasStatus(o, {"Canceled"}) =>
         \E i \in DOMAIN outbox_events :
             /\ EventsOf("OrderCanceled", o) = {i}
             /\ outbox_events[i].aggregate_version = orders[o].aggregate_version
             /\ outbox_events[i].ticket = orders[o].ticket
             /\ \A j \in EventsOf("OrderCreated", o) : j < i

\* A new outbox row about another order leaves the history of an order alone.
LEMMA HistoryOfOthers ==
    ASSUME TypeOK, NEW p \in OrderIds, HistoryOf(p), NEW e \in OutboxEvents, e.order # p,
           outbox_events' = Append(outbox_events, e), orders'[p] = orders[p]
    PROVE  HistoryOf(p)'
  <1>1. \A type \in {"OrderCreated", "OrderCanceled"} : EventsOf(type, p)' = EventsOf(type, p)
    BY EventsOfAppend DEF TypeOK
  <1>2. \A i \in DOMAIN outbox_events :
          i \in DOMAIN outbox_events' /\ outbox_events'[i] = outbox_events[i]
    BY EventsOfAppend DEF TypeOK
  <1>3. /\ Placed(p)' <=> Placed(p)
        /\ HasStatus(p, {"Canceled"})' <=> HasStatus(p, {"Canceled"})
    BY DEF Placed, HasStatus
  <1> QED
    BY <1>1, <1>2, <1>3 DEF HistoryOf

\* The outbox tells every order's history: one OrderCreated, and one
\* OrderCanceled after it exactly when the order is canceled, with its version.
THEOREM OutboxHistory == Spec => []OutboxTellsOrderHistory
  <1> USE ConstantsAssumption
  <1>1. Init => OutboxTellsOrderHistory
    BY DEF Init, OutboxTellsOrderHistory, EventsOf, Placed, HasStatus
  <1>2. OutboxTellsOrderHistory /\ TypeOK /\ TypeOK' /\ [Next]_vars => OutboxTellsOrderHistory'
    <2> SUFFICES ASSUME OutboxTellsOrderHistory, TypeOK, TypeOK', [Next]_vars,
                        NEW p \in OrderIds
                 PROVE  HistoryOf(p)'
      BY DEF OutboxTellsOrderHistory, HistoryOf
    <2>0. HistoryOf(p)
      BY DEF OutboxTellsOrderHistory, HistoryOf
    <2>1. ASSUME NEW c \in Calls, NEW o \in OrderIds, InsertOrder(c, o)
          PROVE  HistoryOf(p)'
      <3> DEFINE row == [user |-> call[c].user, ticket |-> call[c].ticket,
                         expires_at |-> call[c].started + ExpirationWindow,
                         status |-> "Created", aggregate_version |-> 0]
                 e == OrderCreated(o, row, call[c].price)
      <3>1. /\ ~ Placed(o)
            /\ orders' = [orders EXCEPT ![o] = row]
            /\ outbox_events' = Append(outbox_events, e)
        BY <2>1 DEF InsertOrder
      <3>2. call[c] \in Call /\ call[c].price \in 0 .. MaxTicketVersion
        BY <2>1 DEF InsertOrder, TypeOK, Statements, Call, NoRow
      <3>3. row \in Order /\ row.status = "Created"
        BY <3>2 DEF Call, Order, Active
      <3>4. /\ e \in OutboxEvents /\ e.order = o /\ e.type = "OrderCreated"
            /\ e.user = row.user /\ e.ticket = row.ticket /\ e.expires_at = row.expires_at
        BY <3>2, <3>3 DEF OrderCreated, OutboxEvents, Order
      <3>5. orders'[p] = IF p = o THEN row ELSE orders[p]
        BY <3>1 DEF TypeOK
      <3> HIDE DEF row, e
      <3>6. CASE p # o
        BY <2>0, <3>1, <3>4, <3>5, <3>6, HistoryOfOthers
      <3>7. CASE p = o
        <4>1. /\ Placed(p)' /\ ~ HasStatus(p, {"Canceled"})'
              /\ ~ Placed(p) /\ ~ HasStatus(p, {"Canceled"})
          BY <3>1, <3>3, <3>5, <3>7, NoneAssumption DEF Placed, HasStatus
        <4>2. EventsOf("OrderCreated", p)' = {Len(outbox_events) + 1}
          <5>1. EventsOf("OrderCreated", p) = {}
            BY <2>0, <4>1 DEF HistoryOf
          <5>2. EventsOf("OrderCreated", p)' =
                  EventsOf("OrderCreated", p) \cup {Len(outbox_events) + 1}
            <6>1. outbox_events \in Seq(OutboxEvents)
              BY DEF TypeOK
            <6> QED
              BY <6>1, <3>1, <3>4, <3>7, EventsOfAppend
          <5> QED
            BY <5>1, <5>2
        <4>3. EventsOf("OrderCanceled", p)' = {}
          <5>1. EventsOf("OrderCanceled", p) = {}
            BY <2>0, <4>1 DEF HistoryOf
          <5>2. EventsOf("OrderCanceled", p)' = EventsOf("OrderCanceled", p)
            BY <3>1, <3>4, EventsOfAppend DEF TypeOK
          <5> QED
            BY <5>1, <5>2
        <4>4. /\ Len(outbox_events) + 1 \in DOMAIN outbox_events'
              /\ outbox_events'[Len(outbox_events) + 1] = e
          BY <3>1, <3>4, EventsOfAppend DEF TypeOK
        <4> QED
          BY <3>4, <3>5, <3>7, <4>1, <4>2, <4>3, <4>4 DEF HistoryOf
      <3> QED
        BY <3>6, <3>7
    <2>2. ASSUME NEW o \in OrderIds, HasStatus(o, Active), CancelWithEvent(o)
          PROVE  HistoryOf(p)'
      <3> DEFINE row == Transition(o, "Canceled")
                 e == OrderCanceled(o, row)
                 n == Len(outbox_events) + 1
      <3>1. Placed(o) /\ ~ HasStatus(o, {"Canceled"})
        BY <2>2 DEF HasStatus, Active
      <3>2. /\ row \in Order /\ row.status = "Canceled"
            /\ row.user = orders[o].user /\ row.ticket = orders[o].ticket
            /\ row.expires_at = orders[o].expires_at
        BY <3>1, TransitionType DEF Settled
      <3>3. /\ e \in OutboxEvents /\ e.order = o /\ e.type = "OrderCanceled"
            /\ e.aggregate_version = row.aggregate_version /\ e.ticket = row.ticket
        BY <3>2 DEF OrderCanceled, OutboxEvents, Order
      <3>4. /\ orders'[p] = IF p = o THEN row ELSE orders[p]
            /\ outbox_events' = Append(outbox_events, e)
        BY <2>2 DEF CancelWithEvent, TypeOK
      <3> HIDE DEF row, e
      <3>5. CASE p # o
        BY <2>0, <3>3, <3>4, <3>5, HistoryOfOthers
      <3>6. CASE p = o
        <4>1. Placed(p) /\ Placed(p)' /\ HasStatus(p, {"Canceled"})'
          BY <3>1, <3>2, <3>4, <3>6, NoneAssumption DEF Placed, HasStatus
        <4>2. EventsOf("OrderCreated", p)' = EventsOf("OrderCreated", p)
          BY <3>3, <3>4, EventsOfAppend DEF TypeOK
        <4>3. EventsOf("OrderCanceled", p)' = {n}
          <5>1. EventsOf("OrderCanceled", p) = {}
            BY <2>0, <3>1, <3>6 DEF HistoryOf
          <5>2. EventsOf("OrderCanceled", p)' = EventsOf("OrderCanceled", p) \cup {n}
            <6>1. outbox_events \in Seq(OutboxEvents)
              BY DEF TypeOK
            <6> QED
              BY <6>1, <3>3, <3>4, <3>6, EventsOfAppend DEF n
          <5> QED
            BY <5>1, <5>2
        <4>4. /\ n \in DOMAIN outbox_events' /\ outbox_events'[n] = e
              /\ \A i \in DOMAIN outbox_events :
                   i < n /\ i \in DOMAIN outbox_events' /\ outbox_events'[i] = outbox_events[i]
          BY <3>3, <3>4, EventsOfAppend DEF TypeOK
        <4>5. \A j \in EventsOf("OrderCreated", p)' : j < n
          BY <4>2, <4>4 DEF EventsOf
        <4> HIDE DEF n
        <4> QED
          BY <2>0, <3>2, <3>3, <3>4, <3>6, <4>1, <4>2, <4>3, <4>4, <4>5 DEF HistoryOf
      <3> QED
        BY <3>5, <3>6
    <2>3. ASSUME NEW o \in OrderIds, NEW s \in {"AwaitingPayment", "Complete"},
                 HasStatus(o, Active), orders' = [orders EXCEPT ![o] = Transition(o, s)],
                 UNCHANGED outbox_events
          PROVE  HistoryOf(p)'
      <3>1. Placed(o) /\ s \in Active \cup Settled
        BY <2>3 DEF HasStatus, Active, Settled
      <3>2. /\ Transition(o, s) \in Order /\ Transition(o, s).status # "Canceled"
            /\ Transition(o, s).user = orders[o].user
            /\ Transition(o, s).ticket = orders[o].ticket
            /\ Transition(o, s).expires_at = orders[o].expires_at
        BY <3>1, TransitionType
      <3>3. orders'[p] = IF p = o THEN Transition(o, s) ELSE orders[p]
        BY <2>3 DEF TypeOK
      <3>4. /\ Placed(p)' <=> Placed(p)
            /\ HasStatus(p, {"Canceled"})' <=> HasStatus(p, {"Canceled"})
            /\ HasStatus(p, {"Canceled"}) => orders'[p] = orders[p]
            /\ orders'[p].user = orders[p].user
            /\ orders'[p].ticket = orders[p].ticket
            /\ orders'[p].expires_at = orders[p].expires_at
        BY <2>3, <3>1, <3>2, <3>3, NoneAssumption DEF Placed, HasStatus, Active
      <3>5. \A type : EventsOf(type, p)' = EventsOf(type, p)
        BY <2>3 DEF EventsOf
      <3> QED
        BY <2>0, <2>3, <3>4, <3>5 DEF HistoryOf
    <2>4. CASE UNCHANGED <<orders, outbox_events>>
      BY <2>0, <2>4 DEF HistoryOf, EventsOf, Placed, HasStatus
    <2>5. ASSUME NEW o \in OrderIds,
                 (\E u \in Users : CancelOrder(o, u)) \/ HandleOrderEvent(o)
          PROVE  HistoryOf(p)'
      BY <2>2, <2>3, <2>4, <2>5, OrderStepShape
    <2> QED
      BY <2>1, <2>4, <2>5
         DEF Next, ReservationStep, ReserveTicket, LockTicketRow, FindBlockingOrder,
             RollbackReservation, UpsertTicketFromEvent, Tick, vars
  <1> QED
    BY <1>1, <1>2, TypeCorrect, PTL DEF Spec

----------------------------------------------------------------------------
(* The steps of the system, by the service that takes them. *)

OrdersTurn ==
    /\ \/ \E c \in Calls :
            /\ ReservationStep(c)
            /\ \A o \in OrderIds : orders'[o] # None => orders'[o].ticket = TicketOf[o]
       \/ \E o \in OrderIds, u \in Users : CancelOrder(o, u)
       \/ \E o \in OrderIds :
            \/ ApplyExpirationComplete(o)
            \/ ApplyPaymentCreated(o)
            \/ PaymentEventOf(o, "PaymentSucceeded") /\ ApplyPaymentSucceeded(o)
            \/ ApplyPaymentFailed(o)
       \/ \E t \in TicketIds, v \in 0 .. MaxTicketVersion : UpsertTicketFromEvent(t, v)
       \/ Tick
    /\ UNCHANGED <<ticketsVars, paymentsVars>>

TicketsTurn ==
    /\ \/ \E t \in TicketIds, u \in Sellers, content \in Contents :
            Tck!CreateTicket(t, u, content)
       \/ \E c \in Editors :
            \/ \E t \in TicketIds, u \in Users, content \in Contents :
                 Tck!CheckUpdate(c, t, u, content)
            \/ Tck!UpdateTicket(c)
            \/ Tck!AbandonUpdate(c)
       \/ \E o \in OrderIds :
            \/ OrderEventsOf(o, "OrderCreated") # {} /\ Tck!ReserveTicketFromOrder(o)
            \/ OrderEventsOf(o, "OrderCanceled") # {} /\ Tck!UnreserveTicketFromOrder(o)
    /\ UNCHANGED <<vars, paymentsVars>>

PaymentsTurn ==
    /\ \/ \E o \in OrderIds, u \in Users : Pay!CreatePayment(o, u)
       \/ Pay!ResolveNextPending
       \/ \E o \in OrderIds :
            \/ \E e \in OrderEventsOf(o, "OrderCreated") : Pay!UpsertOrderFromEvent(o, e.user)
            \/ \E e \in OrderEventsOf(o, "OrderCanceled") :
                 Pay!CancelOrderFromEvent(o, e.aggregate_version)
    /\ UNCHANGED <<vars, ticketsVars>>

\* Every step of the system is a turn of one service, and the others stutter.
LEMMA Turns ==
    ASSUME SystemNext
    PROVE  OrdersTurn \/ TicketsTurn \/ PaymentsTurn
  <1>1. ASSUME NEW c \in Calls, CreateOrder(c)
        PROVE  OrdersTurn
    BY <1>1 DEF CreateOrder, OrdersTurn
  <1>2. ASSUME NEW o \in OrderIds, NEW u \in Users, CancelOrderOf(o, u)
        PROVE  OrdersTurn
    BY <1>2 DEF CancelOrderOf, OrdersTurn
  <1>3. ASSUME NEW t \in TicketIds, ProjectTicket(t)
        PROVE  OrdersTurn
    BY <1>3 DEF ProjectTicket, OrdersTurn
  <1>4. ASSUME NEW o \in OrderIds, SettleOrder(o) \/ ExpireOrder(o)
        PROVE  OrdersTurn
    BY <1>4 DEF SettleOrder, ExpireOrder, OrdersTurn
  <1>5. CASE PassTime
    BY <1>5 DEF PassTime, OrdersTurn
  <1>6. ASSUME NEW c \in Editors, EditTicket(c)
        PROVE  TicketsTurn
    BY <1>6 DEF EditTicket, TicketsTurn
  <1>7. ASSUME NEW t \in TicketIds, NEW u \in Sellers, NEW content \in Contents,
               CreateTicket(t, u, content)
        PROVE  TicketsTurn
    BY <1>7 DEF CreateTicket, TicketsTurn
  <1>8. ASSUME NEW o \in OrderIds, LockOrUnlock(o)
        PROVE  TicketsTurn
    BY <1>8 DEF LockOrUnlock, TicketsTurn
  <1>9. ASSUME NEW o \in OrderIds, NEW u \in Users, CreatePayment(o, u)
        PROVE  PaymentsTurn
    BY <1>9 DEF CreatePayment, PaymentsTurn
  <1>10. CASE ResolveNextPending
    BY <1>10 DEF ResolveNextPending, PaymentsTurn
  <1>11. ASSUME NEW o \in OrderIds, ProjectOrder(o)
         PROVE  PaymentsTurn
    BY <1>11 DEF ProjectOrder, PaymentsTurn
  <1> QED
    BY <1>1, <1>2, <1>3, <1>4, <1>5, <1>6, <1>7, <1>8, <1>9, <1>10, <1>11 DEF SystemNext, DeliverEvent

\* The composition takes no step of Orders that Orders does not allow.
LEMMA OrdersAsSpecified == SystemSpec => Spec
  <1>1. SystemInit => Init
    BY DEF SystemInit
  <1>2. [SystemNext]_systemVars => [Next]_vars
    <2>1. CASE OrdersTurn
      BY <2>1 DEF OrdersTurn, Next, HandleOrderEvent
    <2>2. CASE TicketsTurn \/ PaymentsTurn
      BY <2>2 DEF TicketsTurn, PaymentsTurn, vars, vars
    <2>3. CASE UNCHANGED systemVars
      BY <2>3 DEF systemVars, vars, vars
    <2> QED
      BY <2>1, <2>2, <2>3, Turns
  <1> QED
    BY <1>1, <1>2, PTL DEF SystemSpec, Spec

\* What holds of Orders alone holds of it in the composition.
OrdersInv ==
    /\ TypeOK
    /\ LockedReadsHold
    /\ OutboxTellsOrderHistory
    /\ VersionsCountTransitions

LEMMA OrdersKept == SystemSpec => []OrdersInv
  <1>1. TypeOK /\ LockedReadsHold /\ OutboxTellsOrderHistory /\ VersionsCountTransitions =>
          OrdersInv
    BY DEF OrdersInv
  <1> QED
    BY <1>1, OrdersAsSpecified, TypeCorrect, LockedReads, OutboxHistory, VersionsCount, PTL

----------------------------------------------------------------------------
(* What the events tell the other services. *)

\* An OrderCreated in the outbox is of a placed order and names its owner; an
\* OrderCanceled is of a canceled order and carries version 1 or 2.
LEMMA OrderEventsTrue ==
    ASSUME OrdersInv, NEW o \in OrderIds
    PROVE  /\ \A e \in OrderEventsOf(o, "OrderCreated") :
                Placed(o) /\ e.user = orders[o].user /\ e.user \in Users
           /\ \A e \in OrderEventsOf(o, "OrderCanceled") :
                HasStatus(o, {"Canceled"}) /\ e.aggregate_version \in {1, 2}
  <1>0. HistoryOf(o)
    BY DEF OrdersInv, OutboxTellsOrderHistory, HistoryOf
  <1>1. ASSUME NEW type, NEW e \in OrderEventsOf(o, type)
        PROVE  \E i \in EventsOf(type, o) : e = outbox_events[i]
    BY <1>1 DEF OrderEventsOf, ToSet, EventsOf
  <1>2. ASSUME NEW e \in OrderEventsOf(o, "OrderCreated")
        PROVE  Placed(o) /\ e.user = orders[o].user /\ e.user \in Users
    <2>1. Placed(o) /\ e.user = orders[o].user
      BY <1>0, <1>1, <1>2 DEF HistoryOf
    <2>2. orders[o] \in Order
      BY <2>1 DEF OrdersInv, TypeOK, Placed
    <2> QED
      BY <2>1, <2>2 DEF Order
  <1>3. ASSUME NEW e \in OrderEventsOf(o, "OrderCanceled")
        PROVE  HasStatus(o, {"Canceled"}) /\ e.aggregate_version \in {1, 2}
    <2>1. HasStatus(o, {"Canceled"}) /\ e.aggregate_version = orders[o].aggregate_version
      BY <1>0, <1>1, <1>3 DEF HistoryOf
    <2> QED
      BY <2>1 DEF OrdersInv, VersionsCountTransitions, HasStatus, Settled
  <1> QED
    BY <1>2, <1>3

\* The modules of the three services were checked and proved with assumptions
\* about what the others publish: which owners and versions an order event
\* carries, which payments have results, which ticket versions come. The
\* composition, where every event is one that the other service really wrote,
\* meets them: each service behaves as its own module says, so all that is
\* proved of Orders, Tickets and Payments holds of the system.
THEOREM ServicesAsSpecified == SystemSpec => Spec /\ Tck!Spec /\ Pay!Spec
  <1>1. SystemInit => Tck!Init /\ Pay!Init
    BY DEF SystemInit
  <1>2. [SystemNext]_systemVars => [Tck!Next]_Tck!vars
    <2>1. CASE TicketsTurn
      BY <2>1, SystemAssumption DEF TicketsTurn, Tck!Next
    <2>2. CASE OrdersTurn \/ PaymentsTurn \/ UNCHANGED systemVars
      BY <2>2 DEF OrdersTurn, PaymentsTurn, systemVars, ticketsVars, Tck!vars
    <2> QED
      BY <2>1, <2>2, Turns
  <1>3. OrdersInv /\ [SystemNext]_systemVars => [Pay!Next]_Pay!vars
    <2> SUFFICES ASSUME OrdersInv, [SystemNext]_systemVars PROVE [Pay!Next]_Pay!vars
      OBVIOUS
    <2>1. CASE PaymentsTurn
      <3>1. ASSUME NEW o \in OrderIds, NEW e \in OrderEventsOf(o, "OrderCreated"),
                   Pay!UpsertOrderFromEvent(o, e.user)
            PROVE  Pay!Next
        BY <3>1, OrderEventsTrue DEF Pay!Next
      <3>2. ASSUME NEW o \in OrderIds, NEW e \in OrderEventsOf(o, "OrderCanceled"),
                   Pay!CancelOrderFromEvent(o, e.aggregate_version)
            PROVE  Pay!Next
        BY <3>2, OrderEventsTrue DEF Pay!Next, Pay!CancelVersions
      <3> QED
        BY <2>1, <3>1, <3>2 DEF PaymentsTurn, Pay!Next
    <2>2. CASE OrdersTurn \/ TicketsTurn \/ UNCHANGED systemVars
      BY <2>2 DEF OrdersTurn, TicketsTurn, systemVars, paymentsVars, Pay!vars
    <2> QED
      BY <2>1, <2>2, Turns
  <1> QED
    BY <1>1, <1>2, <1>3, OrdersAsSpecified, OrdersKept, PTL
       DEF SystemSpec, Tck!Spec, Pay!Spec

----------------------------------------------------------------------------
(* The copies of an order. *)

\* An order as the saga sees it.
Seen(o) == IF orders[o] = None THEN "None"
           ELSE IF orders[o].status \in {"Canceled", "Complete"} THEN orders[o].status ELSE "Open"

\* A turn of Orders moves at most one order in the saga: it places one for the
\* ticket it is about, cancels an open one, or completes an open one for a
\* PaymentSucceeded that Payments has published.
LEMMA OrderMoves ==
    ASSUME OrdersInv, OrdersTurn
    PROVE  \/ \A p \in OrderIds : Seen(p)' = Seen(p)
           \/ \E o \in OrderIds :
                 /\ \A p \in OrderIds : p # o => Seen(p)' = Seen(p)
                 /\ \/ Seen(o) = "None" /\ Seen(o)' = "Open" /\ orders'[o].ticket = TicketOf[o]
                    \/ Seen(o) = "Open" /\ Seen(o)' = "Canceled"
                    \/ /\ Seen(o) = "Open" /\ Seen(o)' = "Complete"
                       /\ PaymentEventOf(o, "PaymentSucceeded")
  <1> DEFINE Moves(o, from, to) == /\ \A p \in OrderIds : p # o => Seen(p)' = Seen(p)
                                   /\ Seen(o) = from /\ Seen(o)' = to
  <1>0. TypeOK
    BY DEF OrdersInv
  <1>1. ASSUME NEW o \in OrderIds, NEW s \in {"AwaitingPayment", "Complete", "Canceled"},
               HasStatus(o, Active), orders' = [orders EXCEPT ![o] = Transition(o, s)]
        PROVE  Moves(o, "Open", IF s = "AwaitingPayment" THEN "Open" ELSE s)
    <2>1. Placed(o) /\ s \in Active \cup Settled
      BY <1>1 DEF HasStatus, Active, Settled
    <2>2. Transition(o, s) \in Order /\ Transition(o, s).status = s
      BY <1>0, <2>1, TransitionType
    <2>3. Transition(o, s) # None
      BY <2>2, NoneAssumption
    <2>4. /\ orders'[o] = Transition(o, s)
          /\ \A p \in OrderIds : p # o => orders'[p] = orders[p]
      BY <1>0, <1>1 DEF TypeOK
    <2> QED
      BY <1>1, <2>2, <2>3, <2>4 DEF Seen, HasStatus, Placed, Active
  <1>2. ASSUME NEW o \in OrderIds, NEW c \in Calls, InsertOrder(c, o)
        PROVE  Moves(o, "None", "Open")
    <2>1. Placed(o)' /\ orders[o] = None
      <3> DEFINE row == [user |-> call[c].user, ticket |-> call[c].ticket,
                         expires_at |-> call[c].started + ExpirationWindow,
                         status |-> "Created", aggregate_version |-> 0]
      <3>1. call[c] \in Call
        BY <1>0, <1>2 DEF InsertOrder, TypeOK, Statements
      <3>2. row \in Order
        BY <3>1, ConstantsAssumption DEF Call, Order, Active
      <3>3. orders'[o] = row
        BY <1>0, <1>2 DEF InsertOrder, TypeOK
      <3> QED
        BY <1>2, <3>2, <3>3, NoneAssumption DEF InsertOrder, Placed
    <2>2. /\ orders'[o].status = "Created"
          /\ \A p \in OrderIds : p # o => orders'[p] = orders[p]
      BY <1>0, <1>2 DEF InsertOrder, TypeOK
    <2> QED
      BY <2>1, <2>2 DEF Seen, Placed
  <1>3. ASSUME NEW c \in Calls, ReservationStep(c),
               \A o \in OrderIds : orders'[o] # None => orders'[o].ticket = TicketOf[o]
        PROVE  \/ UNCHANGED orders
               \/ \E o \in OrderIds : Moves(o, "None", "Open") /\ orders'[o].ticket = TicketOf[o]
    <2>1. ASSUME NEW o \in OrderIds, InsertOrder(c, o)
          PROVE  Moves(o, "None", "Open") /\ orders'[o].ticket = TicketOf[o]
      BY <1>2, <1>3, <2>1 DEF Seen
    <2> QED
      BY <1>3, <2>1 DEF ReservationStep, ReserveTicket, LockTicketRow, FindBlockingOrder,
                        RollbackReservation
  <1>4. ASSUME NEW o \in OrderIds, HasStatus(o, Active), CancelWithEvent(o)
        PROVE  Moves(o, "Open", "Canceled")
    BY <1>1, <1>4 DEF CancelWithEvent
  <1>5. ASSUME NEW o \in OrderIds, NEW u \in Users, CancelOrder(o, u)
        PROVE  Moves(o, "Open", "Canceled")
    BY <1>4, <1>5 DEF CancelOrder
  <1>6. ASSUME NEW o \in OrderIds, ApplyExpirationComplete(o) \/ ApplyPaymentFailed(o)
        PROVE  UNCHANGED orders \/ Moves(o, "Open", "Canceled")
    <2>1. HasStatus(o, {"Created"}) => HasStatus(o, Active)
      BY DEF HasStatus, Active
    <2> QED
      BY <1>4, <1>6, <2>1 DEF ApplyExpirationComplete, ApplyPaymentFailed
  <1>7. ASSUME NEW o \in OrderIds, ApplyPaymentCreated(o)
        PROVE  UNCHANGED orders \/ Moves(o, "Open", "Open")
    <2>1. HasStatus(o, {"Created"}) => HasStatus(o, Active)
      BY DEF HasStatus, Active
    <2> QED
      BY <1>1, <1>7, <2>1 DEF ApplyPaymentCreated
  <1>8. ASSUME NEW o \in OrderIds, ApplyPaymentSucceeded(o)
        PROVE  UNCHANGED orders \/ Moves(o, "Open", "Complete")
    BY <1>1, <1>8 DEF ApplyPaymentSucceeded
  <1>9. ASSUME UNCHANGED orders PROVE \A p \in OrderIds : Seen(p)' = Seen(p)
    BY <1>9 DEF Seen
  <1>10. CASE (\E t \in TicketIds, v \in 0 .. MaxTicketVersion : UpsertTicketFromEvent(t, v)) \/ Tick
    BY <1>9, <1>10 DEF UpsertTicketFromEvent, Tick
  <1> QED
    BY <1>3, <1>5, <1>6, <1>7, <1>8, <1>9, <1>10 DEF OrdersTurn

\* The rows that the proof looks at have their types.
RowTypes ==
    /\ catalog \in [TicketIds -> Tck!Ticket \cup {None}]
    /\ updates \in [Editors -> Tck!Update \cup {None}]
    /\ payable \in [OrderIds -> Pay!Order \cup {None}]
    /\ payments \in [OrderIds -> Pay!Statuses \cup {None}]
    /\ paymentsOutbox \in Seq(Pay!OutboxEvents)

\* An order is about the ticket its id was drawn for.
OrdersOfTheirTicket ==
    \A o \in OrderIds : Placed(o) => orders[o].ticket = TicketOf[o]

\* A PaymentSucceeded in the outbox is of a payment that succeeded.
SucceededIsTrue ==
    \A o \in OrderIds : PaymentEventOf(o, "PaymentSucceeded") => payments[o] = "Succeeded"

\* A Complete order has been paid for.
CompleteIsPaid ==
    \A o \in OrderIds : Seen(o) = "Complete" => payments[o] = "Succeeded"

\* CopiesAgreeWithOrders and the saga rest on this inductive invariant, together
\* with OrdersInv.
SystemInv ==
    /\ RowTypes
    /\ CopiesAgreeWithOrders
    /\ OrdersOfTheirTicket
    /\ SucceededIsTrue
    /\ CompleteIsPaid

\* A turn of Orders neither forgets an order nor changes its owner or ticket, and
\* a canceled order stays canceled: what the others have copied stays true.
LEMMA OrdersTurnKeeps ==
    ASSUME OrdersInv, SystemInv, OrdersTurn
    PROVE  SystemInv'
  <1>0. /\ TypeOK
        /\ [Next]_vars
        /\ UNCHANGED <<catalog, updates, payable, payments, paymentsOutbox>>
    BY DEF OrdersInv, OrdersTurn, Next, HandleOrderEvent, ticketsVars, paymentsVars
  <1>1. RowTypes' /\ SucceededIsTrue'
    BY <1>0 DEF SystemInv, RowTypes, SucceededIsTrue, PaymentEventOf
  <1>2. ASSUME NEW o \in OrderIds, Placed(o)
        PROVE  /\ Placed(o)' /\ orders'[o].user = orders[o].user
               /\ orders'[o].ticket = orders[o].ticket
               /\ HasStatus(o, {"Canceled"}) => HasStatus(o, {"Canceled"})'
    BY <1>0, <1>2, OrderLife DEF HasStatus, Settled
  <1>3. CopiesAgreeWithOrders'
    <2> SUFFICES ASSUME NEW o \in OrderIds
                 PROVE  /\ payable'[o] # None =>
                             /\ Placed(o)'
                             /\ payable'[o].user = orders'[o].user
                             /\ KnownCanceled(o)' => HasStatus(o, {"Canceled"})'
                        /\ LockedFor(o)' => Placed(o)' /\ orders'[o].ticket = TicketOf[o]
      BY DEF CopiesAgreeWithOrders, Placed, HasStatus, Placed, HasStatus
    <2>1. /\ payable[o] # None =>
                /\ Placed(o)
                /\ payable[o].user = orders[o].user
                /\ KnownCanceled(o) => HasStatus(o, {"Canceled"})
          /\ LockedFor(o) => Placed(o) /\ orders[o].ticket = TicketOf[o]
      BY DEF SystemInv, CopiesAgreeWithOrders
    <2>2. /\ LockedFor(o)' <=> LockedFor(o)
          /\ KnownCanceled(o)' <=> KnownCanceled(o)
      BY <1>0 DEF LockedFor, Tck!Exists, KnownCanceled
    <2> QED
      BY <1>0, <1>2, <2>1, <2>2
  <1>4. OrdersOfTheirTicket'
    <2> SUFFICES ASSUME NEW o \in OrderIds, Placed(o)'
                 PROVE  orders'[o].ticket = TicketOf[o]
      BY DEF OrdersOfTheirTicket
    <2>1. CASE Placed(o)
      BY <1>2, <2>1 DEF SystemInv, OrdersOfTheirTicket
    <2>2. CASE ~ Placed(o)
      <3>1. Seen(o) = "None" /\ Seen(o)' # "None"
        <4>1. orders'[o] \in Order \/ orders'[o] = None
          BY <1>0, TypeStep DEF TypeOK
        <4> QED
          BY <2>2, <4>1 DEF Seen, Placed, Order, Active, Settled
      <3> QED
        BY <3>1, OrderMoves
    <2> QED
      BY <2>1, <2>2
  <1>5. CompleteIsPaid'
    <2> SUFFICES ASSUME NEW o \in OrderIds, Seen(o)' = "Complete"
                 PROVE  payments[o] = "Succeeded"
      BY <1>0 DEF CompleteIsPaid
    <2>1. Seen(o) = "Complete" \/ PaymentEventOf(o, "PaymentSucceeded")
      BY OrderMoves
    <2> QED
      BY <2>1 DEF SystemInv, CompleteIsPaid, SucceededIsTrue
  <1> QED
    BY <1>1, <1>3, <1>4, <1>5 DEF SystemInv

\* A version bump of a ticket row that sets its content or its lock.
LEMMA BumpedRow ==
    ASSUME NEW row \in Tck!Ticket
    PROVE  /\ \A content \in Contents :
                LET new == [Tck!Bumped(row) EXCEPT !.content = content]
                IN  new \in Tck!Ticket /\ new.reserved_by = row.reserved_by
           /\ \A order \in OrderIds \cup {None} :
                LET new == [Tck!Bumped(row) EXCEPT !.reserved_by = order]
                IN  new \in Tck!Ticket /\ new.reserved_by = order
  <1>1. PICK n \in Nat : n = row.aggregate_version + 1
    BY DEF Tck!Ticket
  <1> QED
    BY <1>1 DEF Tck!Bumped, Tck!Ticket

\* A turn of Tickets takes a lock only for an order that Orders has placed.
LEMMA TicketsTurnLocks ==
    ASSUME OrdersInv, RowTypes, TicketsTurn
    PROVE  /\ catalog' \in [TicketIds -> Tck!Ticket \cup {None}]
           /\ updates' \in [Editors -> Tck!Update \cup {None}]
           /\ \A o \in OrderIds : LockedFor(o)' => LockedFor(o) \/ Placed(o)
  <1> DEFINE Kept == /\ catalog' \in [TicketIds -> Tck!Ticket \cup {None}]
                     /\ updates' \in [Editors -> Tck!Update \cup {None}]
                     /\ \A o \in OrderIds : LockedFor(o)' => LockedFor(o) \/ Placed(o)
  <1>0. /\ TicketOf \in [OrderIds -> TicketIds] /\ None \notin OrderIds
        /\ None \notin Tck!Update /\ Sellers \subseteq Users
    BY SystemAssumption DEF Tck!ConstantsAssumption, Tck!NoneAssumption
  <1>1. ASSUME NEW t \in TicketIds, NEW row \in Tck!Ticket,
               catalog' = [catalog EXCEPT ![t] = row],
               \A o \in OrderIds : row.reserved_by = o /\ TicketOf[o] = t =>
                 LockedFor(o) \/ Placed(o),
               updates' \in [Editors -> Tck!Update \cup {None}]
        PROVE  Kept
    BY <1>0, <1>1 DEF RowTypes, LockedFor, Tck!Exists
  <1>2. ASSUME NEW t \in TicketIds, NEW u \in Sellers, NEW content \in Contents,
               Tck!CreateTicket(t, u, content)
        PROVE  Kept
    <2> DEFINE row == [user |-> u, content |-> content, reserved_by |-> None,
                       aggregate_version |-> 0]
    <2>1. row \in Tck!Ticket /\ row.reserved_by = None
      BY <1>0 DEF Tck!Ticket
    <2>2. catalog' = [catalog EXCEPT ![t] = row] /\ UNCHANGED updates
      BY <1>2 DEF Tck!CreateTicket, Tck!WriteTicket
    <2>3. updates' \in [Editors -> Tck!Update \cup {None}]
      BY <2>2 DEF RowTypes
    <2>4. \A o \in OrderIds : row.reserved_by = o /\ TicketOf[o] = t =>
            LockedFor(o) \/ Placed(o)
      BY <1>0, <2>1
    <2> HIDE DEF row
    <2> QED
      BY <1>1, <2>1, <2>2, <2>3, <2>4, Zenon
  <1>3. ASSUME NEW c \in Editors, NEW t \in TicketIds, NEW u \in Users, NEW content \in Contents,
               Tck!CheckUpdate(c, t, u, content)
        PROVE  Kept
    <2>1. [user |-> u, ticket |-> t, content |-> content] \in Tck!Update
      BY DEF Tck!Update
    <2> QED
      BY <1>3, <2>1 DEF Tck!CheckUpdate, RowTypes, LockedFor, Tck!Exists
  <1>4. ASSUME NEW c \in Editors, Tck!UpdateTicket(c)
        PROVE  Kept
    <2> DEFINE t == updates[c].ticket
               row == [Tck!Bumped(catalog[t]) EXCEPT !.content = updates[c].content]
    <2>1. /\ updates[c] \in Tck!Update
          /\ updates' \in [Editors -> Tck!Update \cup {None}]
      BY <1>4 DEF Tck!UpdateTicket, RowTypes
    <2>2. CASE UNCHANGED catalog
      BY <2>1, <2>2 DEF LockedFor, Tck!Exists, RowTypes
    <2>3. CASE catalog[t] # None /\ Tck!WriteTicket(t, row)
      <3>1. t \in TicketIds /\ updates[c].content \in Contents /\ catalog[t] \in Tck!Ticket
        BY <2>1, <2>3 DEF RowTypes, Tck!Update
      <3>2. row \in Tck!Ticket /\ row.reserved_by = catalog[t].reserved_by
        BY <3>1, BumpedRow
      <3>3. catalog' = [catalog EXCEPT ![t] = row]
        BY <2>3 DEF Tck!WriteTicket
      <3>4. \A o \in OrderIds : row.reserved_by = o /\ TicketOf[o] = t => LockedFor(o)
        BY <2>3, <3>2 DEF LockedFor, Tck!Exists
      <3> HIDE DEF t, row
      <3> QED
        BY <1>1, <2>1, <3>1, <3>2, <3>3, <3>4
    <2> QED
      BY <1>4, <2>2, <2>3 DEF Tck!UpdateTicket
  <1>5. ASSUME NEW c \in Editors, Tck!AbandonUpdate(c)
        PROVE  Kept
    BY <1>5 DEF Tck!AbandonUpdate, RowTypes, LockedFor, Tck!Exists
  <1>6. ASSUME NEW o \in OrderIds, OrderEventsOf(o, "OrderCreated") # {},
               Tck!ReserveTicketFromOrder(o)
        PROVE  Kept
    <2> DEFINE t == TicketOf[o]
               row == [Tck!Bumped(catalog[t]) EXCEPT !.reserved_by = o]
    <2>1. Placed(o)
      BY <1>6, OrderEventsTrue
    <2>2. CASE UNCHANGED catalog
      BY <1>6, <2>2 DEF Tck!ReserveTicketFromOrder, LockedFor, Tck!Exists, RowTypes
    <2>3. CASE Tck!WriteTicket(t, row)
      <3>1. t \in TicketIds /\ catalog[t] \in Tck!Ticket
        BY <1>0, <1>6 DEF Tck!ReserveTicketFromOrder, Tck!Exists, RowTypes
      <3>2. row \in Tck!Ticket /\ row.reserved_by = o
        BY <3>1, BumpedRow
      <3>3. catalog' = [catalog EXCEPT ![t] = row] /\ UNCHANGED updates
        BY <1>6, <2>3 DEF Tck!WriteTicket, Tck!ReserveTicketFromOrder
      <3>4. updates' \in [Editors -> Tck!Update \cup {None}]
        BY <3>3 DEF RowTypes
      <3>5. \A p \in OrderIds : row.reserved_by = p /\ TicketOf[p] = t =>
              LockedFor(p) \/ Placed(p)
        BY <2>1, <3>2
      <3> HIDE DEF t, row
      <3> QED
        BY <1>1, <3>1, <3>2, <3>3, <3>4, <3>5, Zenon
    <2> QED
      BY <1>6, <2>2, <2>3 DEF Tck!ReserveTicketFromOrder
  <1>7. ASSUME NEW o \in OrderIds, Tck!UnreserveTicketFromOrder(o)
        PROVE  Kept
    <2> DEFINE row == [Tck!Bumped(catalog[TicketOf[o]]) EXCEPT !.reserved_by = None]
    <2>1. TicketOf[o] \in TicketIds /\ catalog[TicketOf[o]] \in Tck!Ticket
      BY <1>0, <1>7 DEF Tck!UnreserveTicketFromOrder, Tck!Exists, RowTypes
    <2>2. row \in Tck!Ticket /\ row.reserved_by = None
      BY <2>1, BumpedRow
    <2>3. catalog' = [catalog EXCEPT ![TicketOf[o]] = row] /\ UNCHANGED updates
      BY <1>7 DEF Tck!WriteTicket, Tck!UnreserveTicketFromOrder
    <2>4. updates' \in [Editors -> Tck!Update \cup {None}]
      BY <2>3 DEF RowTypes
    <2>5. \A p \in OrderIds : row.reserved_by = p /\ TicketOf[p] = TicketOf[o] =>
            LockedFor(p) \/ Placed(p)
      BY <1>0, <2>2
    <2> HIDE DEF row
    <2> QED
      BY <1>1, <2>1, <2>2, <2>3, <2>4, <2>5, Zenon
  <1> QED
    BY <1>2, <1>3, <1>4, <1>5, <1>6, <1>7 DEF TicketsTurn

\* So a lock in Tickets is always that of an order in Orders.
LEMMA TicketsTurnKeeps ==
    ASSUME OrdersInv, SystemInv, TicketsTurn
    PROVE  SystemInv'
  <1>0. UNCHANGED <<orders, payable, payments, paymentsOutbox>>
    BY DEF TicketsTurn, vars, paymentsVars
  <1>1. /\ RowTypes'
        /\ \A o \in OrderIds : LockedFor(o)' => LockedFor(o) \/ Placed(o)
    BY <1>0, TicketsTurnLocks DEF SystemInv, RowTypes
  <1>2. OrdersOfTheirTicket' /\ SucceededIsTrue' /\ CompleteIsPaid'
    BY <1>0 DEF SystemInv, OrdersOfTheirTicket, SucceededIsTrue, CompleteIsPaid, Placed, Seen,
                PaymentEventOf
  <1>3. \A o \in OrderIds : Placed(o) => orders[o].ticket = TicketOf[o]
    BY DEF SystemInv, OrdersOfTheirTicket
  <1>4. CopiesAgreeWithOrders'
    BY <1>0, <1>1, <1>3
       DEF SystemInv, CopiesAgreeWithOrders, KnownCanceled, Placed, HasStatus,
           Placed
  <1> QED
    BY <1>1, <1>2, <1>4 DEF SystemInv

\* An outbox row that is inserted is the only event that is new.
LEMMA AppendedEvent ==
    ASSUME paymentsOutbox \in Seq(Pay!OutboxEvents), NEW e \in Pay!OutboxEvents,
           paymentsOutbox' = Append(paymentsOutbox, e), NEW o \in OrderIds
    PROVE  /\ paymentsOutbox' \in Seq(Pay!OutboxEvents)
           /\ PaymentEventOf(o, "PaymentSucceeded")' =>
                \/ PaymentEventOf(o, "PaymentSucceeded")
                \/ e.order = o /\ e.type = "PaymentSucceeded"
  <1>1. paymentsOutbox' \in Seq(Pay!OutboxEvents)
    OBVIOUS
  <1>2. \A i \in DOMAIN paymentsOutbox' :
          \/ paymentsOutbox'[i] = e
          \/ i \in DOMAIN paymentsOutbox /\ paymentsOutbox'[i] = paymentsOutbox[i]
    OBVIOUS
  <1>3. ASSUME PaymentEventOf(o, "PaymentSucceeded")'
        PROVE  \/ PaymentEventOf(o, "PaymentSucceeded")
               \/ e.order = o /\ e.type = "PaymentSucceeded"
    BY <1>2, <1>3 DEF PaymentEventOf, Pay!PaymentEvent, ToSet
  <1> QED
    BY <1>1, <1>3

\* What a turn of Payments may do to the payment of an order: take one, for an
\* order it knows, or resolve one that is pending.
LEMMA PaymentMoves ==
    ASSUME RowTypes, PaymentsTurn
    PROVE  \/ UNCHANGED <<payments, paymentsOutbox>>
           \/ /\ UNCHANGED payable
              /\ \E o \in OrderIds :
                    /\ payable[o] # None
                    /\ payments[o] = None
                    /\ payments' = [payments EXCEPT ![o] = "Pending"]
                    /\ paymentsOutbox' =
                         Append(paymentsOutbox, Pay!PaymentEvent(o, "PaymentCreated"))
           \/ /\ UNCHANGED payable
              /\ \E o \in OrderIds, outcome \in {"Succeeded", "Failed"} :
                    /\ payments[o] = "Pending"
                    /\ payments' = [payments EXCEPT ![o] = outcome]
                    /\ paymentsOutbox' = Append(paymentsOutbox, Pay!ResultEvent(o, outcome))
  BY SystemAssumption
     DEF PaymentsTurn, Pay!CreatePayment, Pay!Known, Pay!ResolveNextPending,
         Pay!UpsertOrderFromEvent, Pay!CancelOrderFromEvent, Pay!ConstantsAssumption

\* What a turn of Payments may do to its copy of an order: learn of one that
\* Orders has placed, with its owner, or of its cancellation.
LEMMA CopyMoves ==
    ASSUME OrdersInv, RowTypes, PaymentsTurn, NEW p \in OrderIds
    PROVE  /\ payable'[p] \in Pay!Order \cup {None}
           /\ \/ payable'[p] = payable[p]
              \/ /\ Placed(p) /\ payable'[p].user = orders[p].user
                 /\ payable'[p].status = "Created"
              \/ /\ payable[p] # None /\ payable'[p].user = payable[p].user
                 /\ HasStatus(p, {"Canceled"})
  <1> DEFINE Moves ==
               /\ payable'[p] \in Pay!Order \cup {None}
               /\ \/ payable'[p] = payable[p]
                  \/ /\ Placed(p) /\ payable'[p].user = orders[p].user
                     /\ payable'[p].status = "Created"
                  \/ /\ payable[p] # None /\ payable'[p].user = payable[p].user
                     /\ HasStatus(p, {"Canceled"})
  <1>1. ASSUME payable'[p] = payable[p] PROVE Moves
    BY <1>1 DEF RowTypes
  <1>2. ASSUME NEW o \in OrderIds, NEW e \in OrderEventsOf(o, "OrderCreated"),
               Pay!UpsertOrderFromEvent(o, e.user)
        PROVE  Moves
    <2> DEFINE row == [user |-> e.user, status |-> "Created", aggregate_version |-> 0]
    <2>1. Placed(o) /\ e.user = orders[o].user /\ e.user \in Users
      BY <1>2, OrderEventsTrue
    <2>2. row \in Pay!Order /\ row.user = orders[o].user /\ row.status = "Created"
      BY <2>1 DEF Pay!Order
    <2>3. payable'[p] = payable[p] \/ (p = o /\ payable'[p] = row)
      BY <1>2 DEF Pay!UpsertOrderFromEvent, RowTypes
    <2> HIDE DEF row
    <2> QED
      BY <1>1, <2>1, <2>2, <2>3
  <1>3. ASSUME NEW o \in OrderIds, NEW e \in OrderEventsOf(o, "OrderCanceled"),
               Pay!CancelOrderFromEvent(o, e.aggregate_version)
        PROVE  Moves
    <2> DEFINE v == e.aggregate_version
               row == [payable[o] EXCEPT !.status = "Canceled", !.aggregate_version = v]
    <2>1. HasStatus(o, {"Canceled"}) /\ v \in {1, 2}
      BY <1>3, OrderEventsTrue
    <2>2. payable[o] # None /\ payable[o] \in Pay!Order
      BY <1>3 DEF Pay!CancelOrderFromEvent, Pay!Known, RowTypes
    <2>3. v \in Nat
      BY <2>1
    <2>4. payable'[p] = payable[p] \/ (p = o /\ payable'[p] = row)
      BY <1>3 DEF Pay!CancelOrderFromEvent, RowTypes
    <2> HIDE DEF v
    <2>5. row \in Pay!Order /\ row.user = payable[o].user
      BY <2>2, <2>3 DEF Pay!Order
    <2> HIDE DEF row
    <2> QED
      BY <1>1, <2>1, <2>2, <2>4, <2>5
  <1>4. CASE UNCHANGED payable
    BY <1>1, <1>4
  <1> QED
    BY <1>2, <1>3, <1>4 DEF PaymentsTurn, Pay!CreatePayment, Pay!ResolveNextPending

\* A turn of Payments keeps its copies true and its events honest.
LEMMA PaymentsTurnKeeps ==
    ASSUME OrdersInv, SystemInv, PaymentsTurn
    PROVE  SystemInv'
  <1>0. UNCHANGED <<orders, catalog, updates>> /\ RowTypes
    BY DEF PaymentsTurn, vars, ticketsVars, SystemInv
  <1>1. payable' \in [OrderIds -> Pay!Order \cup {None}]
    <2>1. DOMAIN payable' = OrderIds /\ payable' = [o \in OrderIds |-> payable'[o]]
      BY <1>0 DEF PaymentsTurn, Pay!CreatePayment, Pay!ResolveNextPending,
                  Pay!UpsertOrderFromEvent, Pay!CancelOrderFromEvent, RowTypes
    <2>2. \A o \in OrderIds : payable'[o] \in Pay!Order \cup {None}
      BY <1>0, CopyMoves
    <2> QED
      BY <2>1, <2>2
  <1>2. CopiesAgreeWithOrders'
    <2> SUFFICES ASSUME NEW o \in OrderIds
                 PROVE  /\ payable'[o] # None =>
                             /\ Placed(o)
                             /\ payable'[o].user = orders[o].user
                             /\ payable'[o].status = "Canceled" => HasStatus(o, {"Canceled"})
                        /\ LockedFor(o) => Placed(o) /\ orders[o].ticket = TicketOf[o]
      BY <1>0 DEF CopiesAgreeWithOrders, KnownCanceled, LockedFor, Tck!Exists,
                  Placed, HasStatus, Placed, HasStatus
    <2>1. /\ payable[o] # None =>
                /\ Placed(o)
                /\ payable[o].user = orders[o].user
                /\ payable[o].status = "Canceled" => HasStatus(o, {"Canceled"})
          /\ LockedFor(o) => Placed(o) /\ orders[o].ticket = TicketOf[o]
      BY DEF SystemInv, CopiesAgreeWithOrders, KnownCanceled
    <2> QED
      BY <1>0, <2>1, CopyMoves
  <1>3. OrdersOfTheirTicket'
    BY <1>0 DEF SystemInv, OrdersOfTheirTicket, Placed
  <1> DEFINE Honest ==
               /\ payments' \in [OrderIds -> Pay!Statuses \cup {None}]
               /\ paymentsOutbox' \in Seq(Pay!OutboxEvents)
               /\ SucceededIsTrue'
               /\ \A o \in OrderIds : payments[o] = "Succeeded" => payments'[o] = "Succeeded"
  <1>4. Honest
    <2>0. None \notin Pay!Statuses
      BY SystemAssumption DEF Pay!NoneAssumption
    <2>1. CASE UNCHANGED <<payments, paymentsOutbox>>
      BY <1>0, <2>1 DEF SystemInv, RowTypes, SucceededIsTrue, PaymentEventOf
    <2>2. ASSUME NEW o \in OrderIds, payments[o] = None,
                 payments' = [payments EXCEPT ![o] = "Pending"],
                 paymentsOutbox' = Append(paymentsOutbox, Pay!PaymentEvent(o, "PaymentCreated"))
          PROVE  Honest
      <3> DEFINE e == Pay!PaymentEvent(o, "PaymentCreated")
      <3>1. e \in Pay!OutboxEvents /\ e.order = o /\ e.type = "PaymentCreated"
        BY DEF Pay!PaymentEvent, Pay!OutboxEvents
      <3> HIDE DEF e
      <3>2. /\ paymentsOutbox' \in Seq(Pay!OutboxEvents)
            /\ \A p \in OrderIds : PaymentEventOf(p, "PaymentSucceeded")' =>
                 PaymentEventOf(p, "PaymentSucceeded")
        BY <1>0, <2>2, <3>1, AppendedEvent DEF RowTypes, e
      <3>3. /\ payments' \in [OrderIds -> Pay!Statuses \cup {None}]
            /\ \A p \in OrderIds : payments[p] = "Succeeded" => payments'[p] = "Succeeded"
        BY <1>0, <2>0, <2>2 DEF RowTypes, Pay!Statuses
      <3>4. \A p \in OrderIds : PaymentEventOf(p, "PaymentSucceeded") => payments[p] = "Succeeded"
        BY DEF SystemInv, SucceededIsTrue
      <3> QED
        BY <3>2, <3>3, <3>4 DEF SucceededIsTrue
    <2>3. ASSUME NEW o \in OrderIds, NEW outcome \in {"Succeeded", "Failed"},
                 payments[o] = "Pending",
                 payments' = [payments EXCEPT ![o] = outcome],
                 paymentsOutbox' = Append(paymentsOutbox, Pay!ResultEvent(o, outcome))
          PROVE  Honest
      <3> DEFINE e == Pay!ResultEvent(o, outcome)
      <3>1. /\ e \in Pay!OutboxEvents /\ e.order = o
            /\ e.type = "PaymentSucceeded" => outcome = "Succeeded"
        BY DEF Pay!ResultEvent, Pay!PaymentEvent, Pay!OutboxEvents
      <3>2. /\ payments' \in [OrderIds -> Pay!Statuses \cup {None}]
            /\ payments'[o] = outcome
            /\ \A p \in OrderIds : payments[p] = "Succeeded" => payments'[p] = "Succeeded"
        BY <1>0, <2>3 DEF RowTypes, Pay!Statuses
      <3> HIDE DEF e
      <3>3. /\ paymentsOutbox' \in Seq(Pay!OutboxEvents)
            /\ \A p \in OrderIds : PaymentEventOf(p, "PaymentSucceeded")' =>
                 PaymentEventOf(p, "PaymentSucceeded") \/ (p = o /\ outcome = "Succeeded")
        BY <1>0, <2>3, <3>1, AppendedEvent DEF RowTypes, e
      <3>4. \A p \in OrderIds : PaymentEventOf(p, "PaymentSucceeded") => payments[p] = "Succeeded"
        BY DEF SystemInv, SucceededIsTrue
      <3> QED
        BY <3>2, <3>3, <3>4 DEF SucceededIsTrue
    <2> QED
      BY <1>0, <2>1, <2>2, <2>3, PaymentMoves
  <1>5. CompleteIsPaid'
    BY <1>0, <1>4 DEF SystemInv, CompleteIsPaid, Seen
  <1>6. RowTypes'
    BY <1>0, <1>1, <1>4 DEF RowTypes
  <1> QED
    BY <1>2, <1>3, <1>4, <1>5, <1>6 DEF SystemInv

LEMMA SystemKept == SystemSpec => []SystemInv
  <1>1. SystemInit => SystemInv
    <2> SUFFICES ASSUME SystemInit PROVE SystemInv
      OBVIOUS
    <2>1. /\ orders = [o \in OrderIds |-> None]
          /\ catalog = [t \in TicketIds |-> None]
          /\ updates = [c \in Editors |-> None]
          /\ payable = [o \in OrderIds |-> None]
          /\ payments = [o \in OrderIds |-> None]
          /\ paymentsOutbox = <<>>
      BY DEF SystemInit, Init, Tck!Init, Pay!Init
    <2>2. TicketOf \in [OrderIds -> TicketIds]
      BY SystemAssumption DEF Tck!ConstantsAssumption
    <2>3. RowTypes
      BY <2>1 DEF RowTypes
    <2>4. CopiesAgreeWithOrders /\ OrdersOfTheirTicket
      BY <2>1, <2>2 DEF CopiesAgreeWithOrders, LockedFor, Tck!Exists, OrdersOfTheirTicket,
                        Placed
    <2>5. SucceededIsTrue /\ CompleteIsPaid
      BY <2>1 DEF SucceededIsTrue, CompleteIsPaid, Seen, PaymentEventOf, ToSet
    <2> QED
      BY <2>3, <2>4, <2>5 DEF SystemInv
  <1>2. OrdersInv /\ SystemInv /\ [SystemNext]_systemVars => SystemInv'
    <2> SUFFICES ASSUME OrdersInv, SystemInv, [SystemNext]_systemVars PROVE SystemInv'
      OBVIOUS
    <2>1. CASE UNCHANGED systemVars
      <3>1. UNCHANGED <<orders, catalog, updates, payable, payments, paymentsOutbox>>
        BY <2>1 DEF systemVars, vars, ticketsVars, paymentsVars
      <3> QED
        BY <3>1 DEF SystemInv, RowTypes, CopiesAgreeWithOrders, KnownCanceled, LockedFor,
                    Tck!Exists, Placed, HasStatus, OrdersOfTheirTicket, Placed,
                    SucceededIsTrue, PaymentEventOf, CompleteIsPaid, Seen
    <2> QED
      BY <2>1, Turns, OrdersTurnKeeps, TicketsTurnKeeps, PaymentsTurnKeeps
  <1> QED
    BY <1>1, <1>2, OrdersKept, PTL DEF SystemSpec

\* Payments asks its projection who may pay and Tickets locks for the orders it
\* was told of. However late, however often and in whatever order the events
\* come, no copy names another owner or another ticket than Orders, and none
\* says canceled of an order that is not.
THEOREM CopiesAgree == SystemSpec => []CopiesAgreeWithOrders
  <1>1. SystemInv => CopiesAgreeWithOrders
    BY DEF SystemInv
  <1> QED
    BY <1>1, SystemKept, PTL

----------------------------------------------------------------------------
(* The three services implement the saga. *)

\* A payment as the saga sees it.
SeenPaid(o) == IF payments[o] = None THEN "None" ELSE payments[o]

OrderView   == [o \in OrderIds |-> Seen(o)]
PaymentView == [o \in OrderIds |-> SeenPaid(o)]

\* What the saga says of the two views.
LEMMA SagaSteps ==
    /\ Abstract!Init <=> /\ OrderView = [o \in OrderIds |-> "None"]
                           /\ PaymentView = [o \in OrderIds |-> "None"]
    /\ \A o \in OrderIds :
         \/ /\ \/ Seen(o) = "None" /\ OrderView' = [OrderView EXCEPT ![o] = "Open"]
               \/ Seen(o) = "Open" /\ OrderView' = [OrderView EXCEPT ![o] = "Canceled"]
               \/ /\ Seen(o) = "Open" /\ SeenPaid(o) = "Succeeded"
                  /\ OrderView' = [OrderView EXCEPT ![o] = "Complete"]
            /\ UNCHANGED PaymentView
         \/ /\ \/ /\ Seen(o) \in {"Open", "Canceled"} /\ SeenPaid(o) = "None"
                  /\ PaymentView' = [PaymentView EXCEPT ![o] = "Pending"]
               \/ /\ SeenPaid(o) = "Pending"
                  /\ \E outcome \in {"Succeeded", "Failed"} :
                       PaymentView' = [PaymentView EXCEPT ![o] = outcome]
            /\ UNCHANGED OrderView
         => Abstract!Next
  <1>1. \A o \in OrderIds : OrderView[o] = Seen(o) /\ PaymentView[o] = SeenPaid(o)
    BY DEF OrderView, PaymentView
  <1> QED
    BY <1>1 DEF Abstract!Init, Abstract!Next, Abstract!Place, Abstract!Pay,
                Abstract!Resolve, Abstract!Complete, Abstract!Cancel, OrderView, PaymentView,
                Seen, SeenPaid

\* A turn of Orders places, cancels or completes an order of the saga, or none.
LEMMA OrdersTurnInSaga ==
    ASSUME OrdersInv, SystemInv, OrdersTurn
    PROVE  Abstract!Next \/ UNCHANGED <<OrderView, PaymentView>>
  <1>0. UNCHANGED PaymentView
    BY DEF OrdersTurn, paymentsVars, PaymentView, SeenPaid
  <1>1. CASE \A p \in OrderIds : Seen(p)' = Seen(p)
    BY <1>0, <1>1 DEF OrderView
  <1>2. ASSUME NEW o \in OrderIds, \A p \in OrderIds : p # o => Seen(p)' = Seen(p),
               \/ Seen(o) = "None" /\ Seen(o)' = "Open"
               \/ Seen(o) = "Open" /\ Seen(o)' = "Canceled"
               \/ /\ Seen(o) = "Open" /\ Seen(o)' = "Complete"
                  /\ PaymentEventOf(o, "PaymentSucceeded")
        PROVE  Abstract!Next
    <2>1. OrderView' = [OrderView EXCEPT ![o] = Seen(o)']
      BY <1>2 DEF OrderView
    <2>2. PaymentEventOf(o, "PaymentSucceeded") => SeenPaid(o) = "Succeeded"
      <3>1. None \notin Pay!Statuses
        BY SystemAssumption DEF Pay!NoneAssumption
      <3>2. PaymentEventOf(o, "PaymentSucceeded") => payments[o] = "Succeeded"
        BY DEF SystemInv, SucceededIsTrue
      <3> QED
        BY <3>1, <3>2 DEF SeenPaid, Pay!Statuses
    <2> QED
      BY <1>0, <1>2, <2>1, <2>2, SagaSteps
  <1> QED
    BY <1>1, <1>2, OrderMoves

\* A turn of Payments takes or resolves a payment of the saga, or none: the order
\* it takes one for is open or canceled, since a complete one has been paid.
LEMMA PaymentsTurnInSaga ==
    ASSUME SystemInv, PaymentsTurn
    PROVE  Abstract!Next \/ UNCHANGED <<OrderView, PaymentView>>
  <1>0. /\ UNCHANGED OrderView
        /\ RowTypes
        /\ None \notin Pay!Statuses
    BY SystemAssumption DEF PaymentsTurn, vars, OrderView, Seen, SystemInv, Pay!NoneAssumption
  <1>1. CASE UNCHANGED payments
    BY <1>0, <1>1 DEF PaymentView, SeenPaid
  <1>2. ASSUME NEW o \in OrderIds, NEW s \in Pay!Statuses,
               payments' = [payments EXCEPT ![o] = s]
        PROVE  PaymentView' = [PaymentView EXCEPT ![o] = s]
    <2>1. SeenPaid(o)' = s /\ \A p \in OrderIds : p # o => SeenPaid(p)' = SeenPaid(p)
      BY <1>0, <1>2 DEF RowTypes, SeenPaid
    <2> QED
      BY <2>1 DEF PaymentView
  <1>3. ASSUME NEW o \in OrderIds, payable[o] # None, payments[o] = None,
               payments' = [payments EXCEPT ![o] = "Pending"]
        PROVE  Abstract!Next
    <2>1. PaymentView' = [PaymentView EXCEPT ![o] = "Pending"]
      BY <1>2, <1>3 DEF Pay!Statuses
    <2>2. Placed(o)
      BY <1>3 DEF SystemInv, CopiesAgreeWithOrders
    <2>3. Seen(o) # "Complete"
      BY <1>0, <1>3 DEF SystemInv, CompleteIsPaid, Pay!Statuses
    <2>4. Seen(o) \in {"Open", "Canceled"} /\ SeenPaid(o) = "None"
      BY <1>3, <2>2, <2>3 DEF Seen, SeenPaid, Placed
    <2> QED
      BY <1>0, <2>1, <2>4, SagaSteps
  <1>4. ASSUME NEW o \in OrderIds, NEW outcome \in {"Succeeded", "Failed"},
               payments[o] = "Pending", payments' = [payments EXCEPT ![o] = outcome]
        PROVE  Abstract!Next
    <2>1. PaymentView' = [PaymentView EXCEPT ![o] = outcome]
      BY <1>2, <1>4 DEF Pay!Statuses
    <2>2. SeenPaid(o) = "Pending"
      BY <1>0, <1>4 DEF SeenPaid, Pay!Statuses
    <2> QED
      BY <1>0, <2>1, <2>2, SagaSteps
  <1> QED
    BY <1>0, <1>1, <1>3, <1>4, PaymentMoves

\* Across three databases and however their events overtake each other, an order
\* is placed once and settles once, it is paid for at most once, and it is
\* completed by nothing but its own successful payment.
THEOREM SagaImplemented == SystemSpec => ImplementsSaga
  <1>1. SystemInit => Abstract!Init
    <2> SUFFICES ASSUME SystemInit PROVE Abstract!Init
      OBVIOUS
    <2>1. orders = [o \in OrderIds |-> None] /\ payments = [o \in OrderIds |-> None]
      BY DEF SystemInit, Init, Pay!Init
    <2> QED
      BY <2>1, SagaSteps DEF OrderView, PaymentView, Seen, SeenPaid
  <1>2. OrdersInv /\ SystemInv /\ [SystemNext]_systemVars =>
          Abstract!Next \/ UNCHANGED <<OrderView, PaymentView>>
    <2> SUFFICES ASSUME OrdersInv, SystemInv, [SystemNext]_systemVars
                 PROVE  Abstract!Next \/ UNCHANGED <<OrderView, PaymentView>>
      OBVIOUS
    <2>1. CASE TicketsTurn \/ UNCHANGED systemVars
      BY <2>1 DEF TicketsTurn, systemVars, vars, paymentsVars, OrderView, PaymentView, Seen,
                  SeenPaid
    <2> QED
      BY <2>1, Turns, OrdersTurnInSaga, PaymentsTurnInSaga
  <1> QED
    BY <1>1, <1>2, OrdersKept, SystemKept, PTL
       DEF SystemSpec, ImplementsSaga, Abstract!Spec, OrderView, PaymentView, Seen, SeenPaid

----------------------------------------------------------------------------
\* The price of an order is read some statements before the order is inserted,
\* and snapshots of the ticket go on arriving: an order is sold at the price of
\* the latest version that Orders has when it is inserted.
THEOREM PriceIsCurrent == SystemSpec => OrderCarriesCurrentPrice
  <1>1. ASSUME OrdersInv, OrdersTurn
        PROVE  \/ UNCHANGED outbox_events
               \/ \E e : /\ outbox_events' = Append(outbox_events, e)
                         /\ e.type = "OrderCreated" => e.price = tickets[e.ticket]
    <2>1. ASSUME NEW c \in Calls, NEW o \in OrderIds, InsertOrder(c, o)
          PROVE  \E e : /\ outbox_events' = Append(outbox_events, e)
                        /\ e.price = tickets[e.ticket]
      BY <1>1, <2>1 DEF InsertOrder, OrderCreated, OrdersInv, LockedReadsHold
    <2>2. ASSUME NEW o \in OrderIds, CancelWithEvent(o)
          PROVE  \E e : /\ outbox_events' = Append(outbox_events, e)
                        /\ e.type = "OrderCanceled"
      BY <2>2 DEF CancelWithEvent, OrderCanceled
    <2>3. ASSUME NEW c \in Calls, ReservationStep(c)
          PROVE  UNCHANGED outbox_events \/ \E o \in OrderIds : InsertOrder(c, o)
      BY <2>3 DEF ReservationStep, ReserveTicket, LockTicketRow, FindBlockingOrder,
                  RollbackReservation
    <2>4. ASSUME NEW o \in OrderIds, NEW u \in Users, CancelOrder(o, u)
          PROVE  CancelWithEvent(o)
      BY <2>4 DEF CancelOrder
    <2>5. ASSUME NEW o \in OrderIds,
                 \/ ApplyExpirationComplete(o) \/ ApplyPaymentCreated(o)
                 \/ ApplyPaymentSucceeded(o) \/ ApplyPaymentFailed(o)
          PROVE  UNCHANGED outbox_events \/ CancelWithEvent(o)
      BY <2>5 DEF ApplyExpirationComplete, ApplyPaymentCreated, ApplyPaymentSucceeded,
                  ApplyPaymentFailed
    <2>6. CASE (\E t \in TicketIds, v \in 0 .. MaxTicketVersion : UpsertTicketFromEvent(t, v)) \/ Tick
      BY <2>6 DEF UpsertTicketFromEvent, Tick
    <2> QED
      BY <1>1, <2>1, <2>2, <2>3, <2>4, <2>5, <2>6 DEF OrdersTurn
  <1>2. OrdersInv /\ [SystemNext]_systemVars =>
          (/\ Len(outbox_events') > Len(outbox_events)
           /\ Last(outbox_events').type = "OrderCreated"
           => Last(outbox_events').price = tickets[Last(outbox_events').ticket])
    <2> SUFFICES ASSUME OrdersInv, [SystemNext]_systemVars, Len(outbox_events') > Len(outbox_events),
                        Last(outbox_events').type = "OrderCreated"
                 PROVE  Last(outbox_events').price = tickets[Last(outbox_events').ticket]
      OBVIOUS
    <2>1. outbox_events \in Seq(OutboxEvents)
      BY DEF OrdersInv, TypeOK
    <2>2. outbox_events' # outbox_events
      BY <2>1
    <2>3. OrdersTurn
      BY <2>2, Turns DEF TicketsTurn, PaymentsTurn, systemVars, vars
    <2>4. PICK e : /\ outbox_events' = Append(outbox_events, e)
                   /\ e.type = "OrderCreated" => e.price = tickets[e.ticket]
      BY <1>1, <2>2, <2>3
    <2>5. Last(outbox_events') = e
      BY <2>1, <2>4 DEF Last
    <2> QED
      BY <2>4, <2>5
  <1> QED
    BY <1>2, OrdersKept, PTL DEF SystemSpec, OrderCarriesCurrentPrice

=============================================================================
