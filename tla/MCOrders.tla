------------------------------ MODULE MCOrders ------------------------------
(***************************************************************************)
(* Instances of Orders for TLC. Callers, order ids and calls are not       *)
(* distinguished by any definition: their permutations are symmetries.     *)
(***************************************************************************)
EXTENDS Orders, TLC

Symmetry == Permutations(Users) \cup Permutations(OrderIds) \cup Permutations(Calls)
=============================================================================
