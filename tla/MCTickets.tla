----------------------------- MODULE MCTickets ------------------------------
(***************************************************************************)
(* An instance of Tickets for TLC. Every order is about the same ticket:   *)
(* no operation touches the rows of two tickets.                           *)
(***************************************************************************)
EXTENDS Tickets, TLC

OneTicket == [o \in OrderIds |-> CHOOSE t \in TicketIds : TRUE]

Symmetry == Permutations(OrderIds) \cup Permutations(Calls) \cup Permutations(Contents)
              \cup Permutations(Users)
=============================================================================
