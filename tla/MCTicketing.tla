---------------------------- MODULE MCTicketing -----------------------------
(***************************************************************************)
(* Instances of Ticketing for TLC, with one ticket. All orders are of it.  *)
(***************************************************************************)
EXTENDS Ticketing

CONSTANT t1

OneTicket == {t1}

OrdersOfTheTicket == [o \in OrderIds |-> t1]
=============================================================================
