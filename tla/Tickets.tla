------------------------------ MODULE Tickets -------------------------------
(***************************************************************************)
(* The tickets service (apps/tickets): the tickets, the lock an order puts *)
(* on one, the gRPC operations and the two durables that consume the order *)
(* events. A transaction locks the ticket row first and is one step;       *)
(* UpdateTicket reads the ticket before its transaction, in a step of its  *)
(* own. Deliveries are as in Orders: any order, any number of times.       *)
(***************************************************************************)
EXTENDS Integers, Sequences

CONSTANTS
    Users,       \* owners of tickets and callers
    TicketIds,   \* the ids uuid generation may draw; bounds the tickets
    OrderIds,    \* orders of the orders service
    TicketOf,    \* the ticket each order is about
    Contents,    \* what an owner may set: title and price
    Calls,       \* concurrent UpdateTicket calls
    MaxVersion,  \* bound on the versions owners bring a ticket to
    None         \* no row, no lock, no running call

VARIABLES
    tickets,           \* table tickets: TicketIds -> row or None
    processed_events,  \* table processed_events
    outbox_events,     \* table outbox_events, in insertion order
    updates            \* per call: the UpdateTicket past its first read, or None

vars == <<tickets, processed_events, outbox_events, updates>>

Ticket == [user : Users, content : Contents, reserved_by : OrderIds \cup {None},
           aggregate_version : Nat]

OrderCreated(o)  == [type |-> "OrderCreated", order |-> o]
OrderCanceled(o) == [type |-> "OrderCanceled", order |-> o]

OrderEvents == [type : {"OrderCreated", "OrderCanceled"}, order : OrderIds]

\* TicketCreated is the snapshot of version 0, TicketUpdated any later one. It
\* does not say whether the ticket is reserved.
Snapshot(t, row) ==
    [ticket |-> t, content |-> row.content, aggregate_version |-> row.aggregate_version]

OutboxEvents == [ticket : TicketIds, content : Contents, aggregate_version : Nat]

Update == [user : Users, ticket : TicketIds, content : Contents]

ASSUME ConstantsAssumption ==
    /\ TicketOf \in [OrderIds -> TicketIds]
    /\ MaxVersion \in Nat

ASSUME NoneAssumption == None \notin Ticket /\ None \notin Update /\ None \notin OrderIds

----------------------------------------------------------------------------
Exists(t) == tickets[t] # None

Init ==
    /\ tickets = [t \in TicketIds |-> None]
    /\ processed_events = {}
    /\ outbox_events = <<>>
    /\ updates = [c \in Calls |-> None]

\* A write of a ticket row and the snapshot of it that goes to the outbox.
WriteTicket(t, row) ==
    /\ tickets' = [tickets EXCEPT ![t] = row]
    /\ outbox_events' = Append(outbox_events, Snapshot(t, row))

CreateTicket(t, u, content) ==
    /\ ~ Exists(t)
    /\ WriteTicket(t, [user |-> u, content |-> content, reserved_by |-> None,
                       aggregate_version |-> 0])
    /\ UNCHANGED <<processed_events, updates>>

\* service.UpdateTicket up to the transaction: the ticket FindByID returns must
\* exist, be the caller's and be free; else the call ends with an error.
CheckUpdate(c, t, u, content) ==
    /\ updates[c] = None
    /\ Exists(t)
    /\ tickets[t].user = u
    /\ tickets[t].reserved_by = None
    /\ updates' = [updates EXCEPT ![c] = [user |-> u, ticket |-> t, content |-> content]]
    /\ UNCHANGED <<tickets, processed_events, outbox_events>>

\* A version bump sets the columns it names and advances the version.
Bumped(row) == [row EXCEPT !.aggregate_version = @ + 1]

\* Mutant: the transaction trusts the read that came before it.
UpdateTicketUnchecked(c) ==
    /\ updates[c] # None
    /\ LET t == updates[c].ticket
       IN  WriteTicket(t, [Bumped(tickets[t]) EXCEPT !.content = updates[c].content])
    /\ updates' = [updates EXCEPT ![c] = None]
    /\ UNCHANGED processed_events

\* repository.Update: the owner and the lock are read again, under the row
\* lock. Order events may still bump a ticket at MaxVersion: it bounds owners.
UpdateTicket(c) ==
    /\ updates[c] # None
    /\ LET t == updates[c].ticket
           row == tickets[t]
       IN  IF row # None /\ row.user = updates[c].user /\ row.reserved_by = None
             THEN /\ row.aggregate_version < MaxVersion
                  /\ WriteTicket(t, [Bumped(row) EXCEPT !.content = updates[c].content])
             ELSE UNCHANGED <<tickets, outbox_events>>  \* ErrNotFound, ErrReserved
    /\ updates' = [updates EXCEPT ![c] = None]
    /\ UNCHANGED processed_events

\* The caller goes away or the database fails before the commit.
AbandonUpdate(c) ==
    /\ updates[c] # None
    /\ updates' = [updates EXCEPT ![c] = None]
    /\ UNCHANGED <<tickets, processed_events, outbox_events>>

----------------------------------------------------------------------------
\* INSERT INTO processed_events ... ON CONFLICT DO NOTHING: a redelivery finds
\* the id and changes nothing, so a step is a first delivery.
RecordProcessed(e) ==
    /\ e \notin processed_events
    /\ processed_events' = processed_events \cup {e}

\* A missing ticket (ErrNotFound) and a ticket another order holds (ErrReserved)
\* roll the delivery back: no step. The order's own lock is left as it is.
ReserveTicketFromOrder(o) ==
    /\ RecordProcessed(OrderCreated(o))
    /\ LET t == TicketOf[o]
       IN  /\ Exists(t)
           /\ tickets[t].reserved_by \in {None, o}
           /\ IF tickets[t].reserved_by = o
                THEN UNCHANGED <<tickets, outbox_events>>
                ELSE WriteTicket(t, [Bumped(tickets[t]) EXCEPT !.reserved_by = o])
    /\ UNCHANGED updates

\* Mutant: a cancellation that finds no lock to clear is taken as done.
UnreserveDropsPending(o) ==
    /\ RecordProcessed(OrderCanceled(o))
    /\ LET t == TicketOf[o]
       IN  /\ Exists(t)
           /\ IF tickets[t].reserved_by = o
                THEN WriteTicket(t, [Bumped(tickets[t]) EXCEPT !.reserved_by = None])
                ELSE UNCHANGED <<tickets, outbox_events>>
    /\ UNCHANGED updates

\* Mutant: clearing the lock does not advance the version.
UnreserveWithoutBump(o) ==
    /\ RecordProcessed(OrderCanceled(o))
    /\ LET t == TicketOf[o]
       IN  /\ Exists(t)
           /\ tickets[t].reserved_by = o
           /\ WriteTicket(t, [tickets[t] EXCEPT !.reserved_by = None])
    /\ UNCHANGED updates

\* A cancellation that comes before its reservation (ErrOrderReservationPending)
\* is rolled back and retried: no step.
UnreserveTicketFromOrder(o) ==
    /\ RecordProcessed(OrderCanceled(o))
    /\ LET t == TicketOf[o]
       IN  /\ Exists(t)
           /\ tickets[t].reserved_by = o
           /\ WriteTicket(t, [Bumped(tickets[t]) EXCEPT !.reserved_by = None])
    /\ UNCHANGED updates

----------------------------------------------------------------------------
Next ==
    \/ \E t \in TicketIds, u \in Users, content \in Contents : CreateTicket(t, u, content)
    \/ \E c \in Calls :
         \/ \E t \in TicketIds, u \in Users, content \in Contents :
              CheckUpdate(c, t, u, content)
         \/ UpdateTicket(c)
         \/ AbandonUpdate(c)
    \/ \E o \in OrderIds : ReserveTicketFromOrder(o) \/ UnreserveTicketFromOrder(o)

Spec == Init /\ [][Next]_vars

----------------------------------------------------------------------------
\* Every row, event and call has the shape of its type.
TypeOK ==
    /\ tickets \in [TicketIds -> Ticket \cup {None}]
    /\ processed_events \subseteq OrderEvents
    /\ outbox_events \in Seq(OutboxEvents)
    /\ updates \in [Calls -> Update \cup {None}]

\* A ticket is locked by an order exactly from the reservation of that order to
\* its cancellation. So a redelivered or replayed OrderCreated never locks a
\* ticket again for a canceled order, an OrderCanceled that overtakes its
\* OrderCreated is not lost, and no lock passes from one order to another.
LockFollowsOrderEvents ==
    \A o \in OrderIds :
        Exists(TicketOf[o]) /\ tickets[TicketOf[o]].reserved_by = o
          <=> OrderCreated(o) \in processed_events /\ OrderCanceled(o) \notin processed_events

SnapshotsOf(t) == {i \in DOMAIN outbox_events : outbox_events[i].ticket = t}

\* The projection in Orders applies only contiguous versions, so the outbox
\* must hold each version of a ticket, once and in order, and its last snapshot
\* must be the ticket as it is.
OutboxTellsTicketHistory ==
    \A t \in TicketIds :
        /\ \A i \in SnapshotsOf(t) :
             /\ Exists(t)
             /\ outbox_events[i].aggregate_version <= tickets[t].aggregate_version
             /\ outbox_events[i].aggregate_version = tickets[t].aggregate_version =>
                  outbox_events[i].content = tickets[t].content
        /\ \A i, j \in SnapshotsOf(t) :
             i < j => outbox_events[i].aggregate_version < outbox_events[j].aggregate_version
        /\ Exists(t) => \A v \in 0 .. tickets[t].aggregate_version :
                          \E i \in SnapshotsOf(t) : outbox_events[i].aggregate_version = v

\* While an order holds a ticket its owner cannot change what the order is
\* about, even in an UpdateTicket call that found the ticket free.
ReservedTicketIsNotEdited ==
    [][\A t \in TicketIds :
         Exists(t) /\ tickets[t].reserved_by # None => tickets'[t].content = tickets[t].content]_vars
=============================================================================
