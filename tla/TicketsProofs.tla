---------------------------- MODULE TicketsProofs ---------------------------
(***************************************************************************)
(* Theorems about Tickets, for any users, tickets, orders and calls.       *)
(***************************************************************************)
EXTENDS Tickets, TLAPS

----------------------------------------------------------------------------
(* What the steps write. *)

\* An edit gives a ticket row, one version later, with the lock as it was.
LEMMA BumpedContent ==
    ASSUME NEW row \in Ticket, NEW content \in Contents
    PROVE  LET new == [Bumped(row) EXCEPT !.content = content]
           IN  /\ new \in Ticket
               /\ new.aggregate_version = row.aggregate_version + 1
               /\ new.reserved_by = row.reserved_by
               /\ new.content = content
  <1>1. PICK n \in Nat : n = row.aggregate_version + 1
    BY DEF Ticket
  <1> QED
    BY <1>1 DEF Bumped, Ticket

\* Setting or clearing the lock gives a ticket row, one version later, with the
\* content as it was.
LEMMA BumpedLock ==
    ASSUME NEW row \in Ticket, NEW order \in OrderIds \cup {None}
    PROVE  LET new == [Bumped(row) EXCEPT !.reserved_by = order]
           IN  /\ new \in Ticket
               /\ new.aggregate_version = row.aggregate_version + 1
               /\ new.reserved_by = order
               /\ new.content = row.content
  <1>1. PICK n \in Nat : n = row.aggregate_version + 1
    BY DEF Ticket
  <1> QED
    BY <1>1 DEF Bumped, Ticket

\* The writes of a ticket: it is created free at version 0, or gets the next
\* version, with another content only if it is free.
Writes(t, row) ==
    /\ row \in Ticket
    /\ WriteTicket(t, row)
    /\ IF Exists(t)
         THEN /\ row.aggregate_version = tickets[t].aggregate_version + 1
              /\ tickets[t].reserved_by # None => row.content = tickets[t].content
         ELSE row.aggregate_version = 0 /\ row.reserved_by = None

\* UpdateTicket writes an existing ticket, with its lock as it was, or nothing.
LEMMA UpdateWrites ==
    ASSUME TypeOK, NEW c \in Calls, UpdateTicket(c)
    PROVE  /\ \/ UNCHANGED <<tickets, outbox_events>>
              \/ \E t \in TicketIds, row \in Ticket :
                    /\ Exists(t) /\ Writes(t, row)
                    /\ row.reserved_by = tickets[t].reserved_by
           /\ UNCHANGED processed_events
           /\ updates' \in [Calls -> Update \cup {None}]
  <1> DEFINE t == updates[c].ticket
             row == [Bumped(tickets[t]) EXCEPT !.content = updates[c].content]
  <1>1. updates[c] \in Update
    BY DEF UpdateTicket, TypeOK
  <1>2. /\ UNCHANGED processed_events
        /\ updates' \in [Calls -> Update \cup {None}]
    BY DEF UpdateTicket, TypeOK
  <1>3. CASE /\ tickets[t] # None
             /\ tickets[t].reserved_by = None
             /\ WriteTicket(t, row)
    <2>1. t \in TicketIds /\ updates[c].content \in Contents /\ tickets[t] \in Ticket
      BY <1>1, <1>3 DEF Update, TypeOK
    <2>2. /\ row \in Ticket
          /\ row.aggregate_version = tickets[t].aggregate_version + 1
          /\ row.reserved_by = tickets[t].reserved_by
      BY <2>1, BumpedContent
    <2> QED
      BY <1>2, <1>3, <2>1, <2>2 DEF Writes, Exists
  <1>4. CASE UNCHANGED <<tickets, outbox_events>>
    BY <1>2, <1>4
  <1> QED
    BY <1>3, <1>4 DEF UpdateTicket

\* The handler of OrderCreated locks a free ticket or finds it locked for this order.
LEMMA ReserveWrites ==
    ASSUME TypeOK, NEW o \in OrderIds, ReserveTicketFromOrder(o)
    PROVE  \/ UNCHANGED <<tickets, outbox_events>> /\ tickets[TicketOf[o]].reserved_by = o
           \/ \E row \in Ticket :
                 /\ Writes(TicketOf[o], row)
                 /\ tickets[TicketOf[o]].reserved_by = None
                 /\ row.reserved_by = o
  <1> DEFINE t == TicketOf[o]
             row == [Bumped(tickets[t]) EXCEPT !.reserved_by = o]
  <1>1. t \in TicketIds /\ tickets[t] # None /\ tickets[t] \in Ticket
    BY ConstantsAssumption DEF ReserveTicketFromOrder, Exists, TypeOK
  <1>2. /\ row \in Ticket
        /\ row.aggregate_version = tickets[t].aggregate_version + 1
        /\ row.content = tickets[t].content
        /\ row.reserved_by = o
    BY <1>1, BumpedLock
  <1> QED
    BY <1>1, <1>2 DEF ReserveTicketFromOrder, Writes, Exists

\* The handler of OrderCanceled frees the ticket its order holds.
LEMMA UnreserveWrites ==
    ASSUME TypeOK, NEW o \in OrderIds, UnreserveTicketFromOrder(o)
    PROVE  \E row \in Ticket :
               /\ Exists(TicketOf[o])
               /\ Writes(TicketOf[o], row)
               /\ tickets[TicketOf[o]].reserved_by = o
               /\ row.reserved_by = None
  <1> DEFINE t == TicketOf[o]
             row == [Bumped(tickets[t]) EXCEPT !.reserved_by = None]
  <1>1. t \in TicketIds /\ tickets[t] # None /\ tickets[t] \in Ticket
    BY ConstantsAssumption DEF UnreserveTicketFromOrder, Exists, TypeOK
  <1>2. /\ row \in Ticket
        /\ row.aggregate_version = tickets[t].aggregate_version + 1
        /\ row.content = tickets[t].content
        /\ row.reserved_by = None
    BY <1>1, BumpedLock
  <1> QED
    BY <1>1, <1>2 DEF UnreserveTicketFromOrder, Writes, Exists

\* CreateTicket writes a ticket that did not exist, as version 0 and unlocked.
LEMMA CreateWrites ==
    ASSUME TypeOK, NEW t \in TicketIds, NEW u \in Users, NEW content \in Contents,
           CreateTicket(t, u, content)
    PROVE  \E row \in Ticket : Writes(t, row) /\ ~ Exists(t) /\ row.reserved_by = None
  <1> DEFINE row == [user |-> u, content |-> content, reserved_by |-> None,
                     aggregate_version |-> 0]
  <1>1. row \in Ticket
    BY DEF Ticket
  <1> QED
    BY <1>1 DEF CreateTicket, Writes, Exists

\* Every step leaves the tickets and the outbox alone or writes one ticket.
LEMMA StepWrites ==
    ASSUME TypeOK, [Next]_vars
    PROVE  \/ UNCHANGED <<tickets, outbox_events>>
           \/ \E t \in TicketIds, row \in Ticket : Writes(t, row)
  <1>1. ASSUME NEW t \in TicketIds, NEW u \in Users, NEW content \in Contents,
               CreateTicket(t, u, content)
        PROVE  \E row \in Ticket : Writes(t, row)
    BY <1>1, CreateWrites
  <1>2. ASSUME NEW c \in Calls, UpdateTicket(c)
        PROVE  \/ UNCHANGED <<tickets, outbox_events>>
               \/ \E t \in TicketIds, row \in Ticket : Writes(t, row)
    BY <1>2, UpdateWrites
  <1>3. ASSUME NEW o \in OrderIds, ReserveTicketFromOrder(o) \/ UnreserveTicketFromOrder(o)
        PROVE  \/ UNCHANGED <<tickets, outbox_events>>
               \/ \E row \in Ticket : Writes(TicketOf[o], row)
    BY <1>3, ReserveWrites, UnreserveWrites
  <1> QED
    BY <1>1, <1>2, <1>3, ConstantsAssumption DEF Next, CheckUpdate, AbandonUpdate, vars

----------------------------------------------------------------------------
(* Types. *)

\* A write keeps the table and the outbox well typed.
LEMMA WriteType ==
    ASSUME TypeOK, NEW t \in TicketIds, NEW row \in Ticket, Writes(t, row)
    PROVE  /\ tickets' \in [TicketIds -> Ticket \cup {None}]
           /\ outbox_events' \in Seq(OutboxEvents)
  <1>1. Snapshot(t, row) \in OutboxEvents
    BY DEF Snapshot, OutboxEvents, Ticket
  <1> QED
    BY <1>1 DEF Writes, WriteTicket, TypeOK

\* Every row, event and call of the tickets service has the shape of its type.
THEOREM TypeCorrect == Spec => []TypeOK
  <1>1. Init => TypeOK
    BY DEF Init, TypeOK
  <1>2. TypeOK /\ [Next]_vars => TypeOK'
    <2> SUFFICES ASSUME TypeOK, [Next]_vars PROVE TypeOK'
      OBVIOUS
    <2>1. /\ tickets' \in [TicketIds -> Ticket \cup {None}]
          /\ outbox_events' \in Seq(OutboxEvents)
      BY StepWrites, WriteType DEF TypeOK
    <2>2. /\ processed_events' \subseteq OrderEvents
          /\ updates' \in [Calls -> Update \cup {None}]
      <3>1. ASSUME NEW t \in TicketIds, NEW u \in Users, NEW content \in Contents,
                   CreateTicket(t, u, content)
            PROVE  UNCHANGED <<processed_events, updates>>
        BY <3>1 DEF CreateTicket
      <3>2. ASSUME NEW c \in Calls, NEW t \in TicketIds, NEW u \in Users,
                   NEW content \in Contents, CheckUpdate(c, t, u, content)
            PROVE  UNCHANGED processed_events /\ updates' \in [Calls -> Update \cup {None}]
        BY <3>2 DEF CheckUpdate, TypeOK, Update
      <3>3. ASSUME NEW c \in Calls, UpdateTicket(c) \/ AbandonUpdate(c)
            PROVE  UNCHANGED processed_events /\ updates' \in [Calls -> Update \cup {None}]
        BY <3>3 DEF UpdateTicket, AbandonUpdate, TypeOK
      <3>4. ASSUME NEW o \in OrderIds, ReserveTicketFromOrder(o) \/ UnreserveTicketFromOrder(o)
            PROVE  UNCHANGED updates /\ processed_events' \subseteq OrderEvents
        <4>1. OrderCreated(o) \in OrderEvents /\ OrderCanceled(o) \in OrderEvents
          BY DEF OrderCreated, OrderCanceled, OrderEvents
        <4> QED
          BY <3>4, <4>1 DEF ReserveTicketFromOrder, UnreserveTicketFromOrder, RecordProcessed,
                            TypeOK
      <3>5. TypeOK /\ UNCHANGED <<processed_events, updates>> =>
                /\ processed_events' \subseteq OrderEvents
                /\ updates' \in [Calls -> Update \cup {None}]
        BY DEF TypeOK
      <3> QED
        BY <3>1, <3>2, <3>3, <3>4, <3>5 DEF Next, vars, TypeOK
    <2> QED
      BY <2>1, <2>2 DEF TypeOK
  <1> QED
    BY <1>1, <1>2, PTL DEF Spec

----------------------------------------------------------------------------
(* The lock. *)

\* What is missing in LockFollowsOrderEvents to be inductive: a cancellation is
\* processed only after the reservation it undoes. Without it a reservation could
\* lock a ticket for an order that is canceled already.
CanceledWasReserved ==
    \A o \in OrderIds :
        OrderCanceled(o) \in processed_events => OrderCreated(o) \in processed_events

LockInv == TypeOK /\ LockFollowsOrderEvents /\ CanceledWasReserved

\* A ticket is locked by an order exactly between the two events of that order,
\* for any number of orders of the same ticket whose events come in any order.
THEOREM LockFollows == Spec => []LockFollowsOrderEvents
  <1>1. Init => LockInv
    BY ConstantsAssumption DEF Init, LockInv, TypeOK, LockFollowsOrderEvents,
                               CanceledWasReserved, Exists
  <1>2. TypeOK' /\ LockInv /\ [Next]_vars => LockInv'
    <2> SUFFICES ASSUME TypeOK', LockInv, [Next]_vars PROVE LockInv'
      OBVIOUS
    <2> USE DEF LockInv
    <2>1. ASSUME NEW t \in TicketIds, NEW u \in Users, NEW content \in Contents,
                 CreateTicket(t, u, content)
          PROVE  LockInv'
      <3>1. PICK row \in Ticket : Writes(t, row) /\ ~ Exists(t) /\ row.reserved_by = None
        BY <2>1, CreateWrites
      <3>2. UNCHANGED processed_events
        BY <2>1 DEF CreateTicket
      <3>3. ASSUME NEW o \in OrderIds
            PROVE  Exists(TicketOf[o])' /\ tickets'[TicketOf[o]].reserved_by = o
                     <=> Exists(TicketOf[o]) /\ tickets[TicketOf[o]].reserved_by = o
        BY <3>1, ConstantsAssumption, NoneAssumption DEF Writes, WriteTicket, Exists, TypeOK
      <3> QED
        BY <3>2, <3>3 DEF LockFollowsOrderEvents, CanceledWasReserved
    <2>2. ASSUME NEW c \in Calls, UpdateTicket(c)
          PROVE  LockInv'
      <3>1. CASE UNCHANGED <<tickets, processed_events>>
        BY <3>1 DEF LockFollowsOrderEvents, CanceledWasReserved, Exists
      <3>2. CASE \E t \in TicketIds, row \in Ticket :
                    /\ Exists(t) /\ Writes(t, row)
                    /\ row.reserved_by = tickets[t].reserved_by
        <4>1. PICK t \in TicketIds, row \in Ticket :
                    /\ Exists(t) /\ Writes(t, row)
                    /\ row.reserved_by = tickets[t].reserved_by
          BY <3>2
        <4>2. ASSUME NEW o \in OrderIds
              PROVE  Exists(TicketOf[o])' /\ tickets'[TicketOf[o]].reserved_by = o
                       <=> Exists(TicketOf[o]) /\ tickets[TicketOf[o]].reserved_by = o
          BY <4>1, ConstantsAssumption, NoneAssumption DEF Writes, WriteTicket, Exists, TypeOK
        <4> QED
          BY <2>2, <4>2, UpdateWrites DEF LockFollowsOrderEvents, CanceledWasReserved
      <3> QED
        BY <2>2, <3>1, <3>2, UpdateWrites
    <2>3. ASSUME NEW o \in OrderIds, ReserveTicketFromOrder(o)
          PROVE  LockInv'
      <3> DEFINE t == TicketOf[o]
      <3>1. /\ OrderCreated(o) \notin processed_events
            /\ processed_events' = processed_events \cup {OrderCreated(o)}
            /\ Exists(t)
        BY <2>3 DEF ReserveTicketFromOrder, RecordProcessed
      <3>2. tickets[t].reserved_by # o
        BY <3>1 DEF LockFollowsOrderEvents
      <3>3. PICK row \in Ticket : /\ Writes(t, row)
                                  /\ tickets[t].reserved_by = None
                                  /\ row.reserved_by = o
        BY <2>3, <3>2, ReserveWrites
      <3>4. /\ Exists(t)'
            /\ tickets'[t].reserved_by = o
            /\ \A s \in TicketIds \ {t} : tickets'[s] = tickets[s]
        BY <3>3, ConstantsAssumption, NoneAssumption DEF Writes, WriteTicket, Exists, TypeOK
      <3>5. ASSUME NEW p \in OrderIds, p # o
            PROVE  Exists(TicketOf[p])' /\ tickets'[TicketOf[p]].reserved_by = p
                     <=> Exists(TicketOf[p]) /\ tickets[TicketOf[p]].reserved_by = p
        BY <3>1, <3>3, <3>4, <3>5, ConstantsAssumption, NoneAssumption DEF Exists
      <3>6. ASSUME NEW p \in OrderIds, p # o
            PROVE  /\ OrderCreated(p) \in processed_events' <=> OrderCreated(p) \in processed_events
                   /\ OrderCanceled(p) \in processed_events' <=> OrderCanceled(p) \in processed_events
        BY <3>1, <3>6 DEF OrderCreated, OrderCanceled
      <3>7. /\ OrderCreated(o) \in processed_events'
            /\ OrderCanceled(o) \notin processed_events'
        BY <3>1 DEF CanceledWasReserved, OrderCreated, OrderCanceled
      <3>8. LockFollowsOrderEvents'
        BY <3>4, <3>5, <3>6, <3>7 DEF LockFollowsOrderEvents
      <3>9. CanceledWasReserved'
        BY <3>6, <3>7 DEF CanceledWasReserved
      <3> QED
        BY <3>8, <3>9
    <2>4. ASSUME NEW o \in OrderIds, UnreserveTicketFromOrder(o)
          PROVE  LockInv'
      <3> DEFINE t == TicketOf[o]
      <3>1. /\ OrderCanceled(o) \notin processed_events
            /\ processed_events' = processed_events \cup {OrderCanceled(o)}
        BY <2>4 DEF UnreserveTicketFromOrder, RecordProcessed
      <3>2. PICK row \in Ticket : /\ Exists(t) /\ Writes(t, row)
                                  /\ tickets[t].reserved_by = o
                                  /\ row.reserved_by = None
        BY <2>4, UnreserveWrites
      <3>3. /\ tickets'[t].reserved_by = None
            /\ \A s \in TicketIds \ {t} : tickets'[s] = tickets[s]
        BY <3>2, ConstantsAssumption DEF Writes, WriteTicket, TypeOK
      <3>4. ASSUME NEW p \in OrderIds, p # o
            PROVE  Exists(TicketOf[p])' /\ tickets'[TicketOf[p]].reserved_by = p
                     <=> Exists(TicketOf[p]) /\ tickets[TicketOf[p]].reserved_by = p
        BY <3>2, <3>3, <3>4, ConstantsAssumption, NoneAssumption DEF Exists
      <3>5. ASSUME NEW p \in OrderIds, p # o
            PROVE  /\ OrderCreated(p) \in processed_events' <=> OrderCreated(p) \in processed_events
                   /\ OrderCanceled(p) \in processed_events' <=> OrderCanceled(p) \in processed_events
        BY <3>1, <3>5 DEF OrderCreated, OrderCanceled
      <3>6. /\ OrderCreated(o) \in processed_events'
            /\ OrderCanceled(o) \in processed_events'
        BY <3>1, <3>2 DEF LockFollowsOrderEvents
      <3>7. LockFollowsOrderEvents'
        BY <3>3, <3>4, <3>5, <3>6, NoneAssumption DEF LockFollowsOrderEvents
      <3>8. CanceledWasReserved'
        BY <3>5, <3>6 DEF CanceledWasReserved
      <3> QED
        BY <3>7, <3>8
    <2>5. ASSUME UNCHANGED <<tickets, processed_events>>
          PROVE  LockInv'
      BY <2>5 DEF LockFollowsOrderEvents, CanceledWasReserved, Exists
    <2> QED
      BY <2>1, <2>2, <2>3, <2>4, <2>5 DEF Next, CheckUpdate, AbandonUpdate, vars
  <1>3. LockInv => LockFollowsOrderEvents
    BY DEF LockInv
  <1> QED
    BY <1>1, <1>2, <1>3, TypeCorrect, PTL DEF Spec

\* No step changes the content of a ticket that an order holds: the second look of
\* UpdateTicket, under the row lock, is enough for any number of calls.
THEOREM ReservedKept == Spec => ReservedTicketIsNotEdited
  <1>1. TypeOK /\ [Next]_vars =>
          [\A t \in TicketIds :
             Exists(t) /\ tickets[t].reserved_by # None => tickets'[t].content = tickets[t].content]_vars
    <2> SUFFICES ASSUME TypeOK, [Next]_vars,
                        NEW t \in TicketIds, Exists(t), tickets[t].reserved_by # None
                 PROVE  tickets'[t].content = tickets[t].content
      OBVIOUS
    <2>1. CASE UNCHANGED <<tickets, outbox_events>>
      BY <2>1
    <2>2. ASSUME NEW s \in TicketIds, NEW row \in Ticket, Writes(s, row)
          PROVE  tickets'[t].content = tickets[t].content
      BY <2>2 DEF Writes, WriteTicket, Exists, TypeOK
    <2> QED
      BY <2>1, <2>2, StepWrites
  <1> QED
    BY <1>1, TypeCorrect, PTL DEF Spec, ReservedTicketIsNotEdited

----------------------------------------------------------------------------
(* The outbox. *)

\* A write appends the snapshot of the new row to the history of its ticket.
LEMMA WriteAppends ==
    ASSUME TypeOK, NEW t \in TicketIds, NEW row \in Ticket, Writes(t, row)
    PROVE  /\ \A i \in DOMAIN outbox_events :
                i \in DOMAIN outbox_events' /\ outbox_events'[i] = outbox_events[i]
           /\ Len(outbox_events) + 1 \in DOMAIN outbox_events'
           /\ outbox_events'[Len(outbox_events) + 1] = Snapshot(t, row)
           /\ \A i \in DOMAIN outbox_events :
                i \in Nat /\ outbox_events[i] \in OutboxEvents /\ i < Len(outbox_events) + 1
           /\ \A s \in TicketIds \ {t} : SnapshotsOf(s)' = SnapshotsOf(s) /\ tickets'[s] = tickets[s]
           /\ SnapshotsOf(t)' = SnapshotsOf(t) \cup {Len(outbox_events) + 1}
           /\ tickets'[t] = row
  <1>1. /\ outbox_events \in Seq(OutboxEvents)
        /\ outbox_events' = Append(outbox_events, Snapshot(t, row))
        /\ tickets' = [tickets EXCEPT ![t] = row]
    BY DEF TypeOK, Writes, WriteTicket
  <1>2. Snapshot(t, row).ticket = t
    BY DEF Snapshot
  <1>3. /\ Len(outbox_events) \in Nat
        /\ DOMAIN outbox_events = 1 .. Len(outbox_events)
        /\ DOMAIN outbox_events' = 1 .. Len(outbox_events) + 1
        /\ \A i \in DOMAIN outbox_events : outbox_events'[i] = outbox_events[i]
        /\ outbox_events'[Len(outbox_events) + 1] = Snapshot(t, row)
        /\ \A i \in DOMAIN outbox_events : outbox_events[i] \in OutboxEvents
    BY <1>1
  <1>4. /\ tickets'[t] = row
        /\ \A s \in TicketIds \ {t} : tickets'[s] = tickets[s]
    BY <1>1 DEF TypeOK
  <1>5. SnapshotsOf(t)' = SnapshotsOf(t) \cup {Len(outbox_events) + 1}
    BY <1>2, <1>3 DEF SnapshotsOf
  <1>6. ASSUME NEW s \in TicketIds \ {t}
        PROVE  SnapshotsOf(s)' = SnapshotsOf(s)
    BY <1>2, <1>3 DEF SnapshotsOf
  <1> QED
    BY <1>3, <1>4, <1>5, <1>6

\* The outbox holds every version of every ticket once, in order and as it was, so
\* that a consumer that takes only the next version never waits in vain.
THEOREM OutboxHistory == Spec => []OutboxTellsTicketHistory
  <1>1. Init => OutboxTellsTicketHistory
    BY DEF Init, OutboxTellsTicketHistory, SnapshotsOf, Exists
  <1>2. TypeOK /\ OutboxTellsTicketHistory /\ [Next]_vars => OutboxTellsTicketHistory'
    <2> SUFFICES ASSUME TypeOK, OutboxTellsTicketHistory, [Next]_vars
                 PROVE  OutboxTellsTicketHistory'
      OBVIOUS
    <2>1. CASE UNCHANGED <<tickets, outbox_events>>
      BY <2>1 DEF OutboxTellsTicketHistory, SnapshotsOf, Exists
    <2>2. ASSUME NEW t \in TicketIds, NEW row \in Ticket, Writes(t, row)
          PROVE  OutboxTellsTicketHistory'
      <3> DEFINE last == Len(outbox_events) + 1
      <3>1. /\ tickets'[t] = row /\ row # None
            /\ SnapshotsOf(t)' = SnapshotsOf(t) \cup {last}
            /\ outbox_events'[last].aggregate_version = row.aggregate_version
            /\ outbox_events'[last].content = row.content
            /\ \A i \in SnapshotsOf(t) : /\ outbox_events'[i] = outbox_events[i]
                                         /\ i \in Nat /\ i < last
                                         /\ outbox_events[i].aggregate_version \in Nat
        <4>1. SnapshotsOf(t) \subseteq DOMAIN outbox_events
          BY DEF SnapshotsOf
        <4>2. /\ Snapshot(t, row).aggregate_version = row.aggregate_version
              /\ Snapshot(t, row).content = row.content
          BY DEF Snapshot
        <4>3. \A e \in OutboxEvents : e.aggregate_version \in Nat
          BY DEF OutboxEvents
        <4> QED
          BY <2>2, <4>1, <4>2, <4>3, WriteAppends, NoneAssumption
      <3>2. row.aggregate_version \in Nat
        BY DEF Ticket
      <3>3. \/ SnapshotsOf(t) = {} /\ row.aggregate_version = 0
            \/ /\ Exists(t) /\ tickets[t].aggregate_version \in Nat
               /\ row.aggregate_version = tickets[t].aggregate_version + 1
        BY <2>2 DEF Writes, OutboxTellsTicketHistory, Exists, TypeOK, Ticket
      <3>4. \A i \in SnapshotsOf(t) : outbox_events[i].aggregate_version < row.aggregate_version
        BY <3>1, <3>2, <3>3 DEF OutboxTellsTicketHistory
      <3>5. ASSUME NEW v \in 0 .. row.aggregate_version
            PROVE  \E i \in SnapshotsOf(t)' : outbox_events'[i].aggregate_version = v
        <4>1. CASE v = row.aggregate_version
          BY <3>1, <4>1
        <4>2. CASE v # row.aggregate_version
          <5>1. PICK i \in SnapshotsOf(t) : outbox_events[i].aggregate_version = v
            BY <3>2, <3>3, <4>2 DEF OutboxTellsTicketHistory
          <5> QED
            BY <3>1, <5>1
        <4> QED
          BY <4>1, <4>2
      <3>6. ASSUME NEW i \in SnapshotsOf(t)'
            PROVE  /\ outbox_events'[i].aggregate_version <= row.aggregate_version
                   /\ outbox_events'[i].aggregate_version = row.aggregate_version =>
                        outbox_events'[i].content = row.content
        BY <3>1, <3>2, <3>4
      <3>7. ASSUME NEW i \in SnapshotsOf(t)', NEW j \in SnapshotsOf(t)', i < j
            PROVE  outbox_events'[i].aggregate_version < outbox_events'[j].aggregate_version
        <4>1. CASE i = last
          BY <3>1, <3>7, <4>1
        <4>2. CASE i # last /\ j = last
          BY <3>1, <3>4, <4>2
        <4>3. CASE i # last /\ j # last
          BY <3>1, <3>7, <4>3 DEF OutboxTellsTicketHistory
        <4> QED
          BY <4>1, <4>2, <4>3
      <3>8. ASSUME NEW s \in TicketIds \ {t}
            PROVE  /\ SnapshotsOf(s)' = SnapshotsOf(s) /\ tickets'[s] = tickets[s]
                   /\ \A i \in SnapshotsOf(s) : outbox_events'[i] = outbox_events[i]
        BY <2>2, WriteAppends DEF SnapshotsOf
      <3>9. ASSUME NEW s \in TicketIds, s # t
            PROVE  /\ \A i \in SnapshotsOf(s)' :
                        /\ Exists(s)'
                        /\ outbox_events'[i].aggregate_version <= tickets'[s].aggregate_version
                        /\ outbox_events'[i].aggregate_version = tickets'[s].aggregate_version =>
                             outbox_events'[i].content = tickets'[s].content
                   /\ \A i, j \in SnapshotsOf(s)' :
                        i < j => outbox_events'[i].aggregate_version
                                   < outbox_events'[j].aggregate_version
                   /\ Exists(s)' => \A v \in 0 .. tickets'[s].aggregate_version :
                           \E i \in SnapshotsOf(s)' : outbox_events'[i].aggregate_version = v
        BY <3>8, <3>9 DEF OutboxTellsTicketHistory, Exists
      <3> QED
        BY <3>1, <3>5, <3>6, <3>7, <3>9 DEF OutboxTellsTicketHistory, Exists
    <2> QED
      BY <2>1, <2>2, StepWrites
  <1> QED
    BY <1>1, <1>2, TypeCorrect, PTL DEF Spec
=============================================================================
