----------------------------- MODULE MCPayments -----------------------------
(***************************************************************************)
(* An instance of Payments for TLC. It checks liveness, so it uses no      *)
(* symmetry.                                                               *)
(***************************************************************************)
EXTENDS Payments
=============================================================================
