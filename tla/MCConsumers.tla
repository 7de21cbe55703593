---------------------------- MODULE MCConsumers -----------------------------
(***************************************************************************)
(* An instance of Consumers for TLC: two durables that share the database  *)
(* and the dead letter stream of a service but not their streams, one with *)
(* versions to keep in order, one with events that turn out to be invalid. *)
(* Durables of different services have nothing in common but the messages  *)
(* of a stream, which none of them changes.                                *)
(***************************************************************************)
EXTENDS Durables, Consumers

SomeDurables == {OrdersTicketProjection, OrdersPaymentSucceeded}

MalformedPayment == OfType({"PaymentSucceeded"})
=============================================================================
