------------------------------ MODULE MCOutbox ------------------------------
(***************************************************************************)
(* An instance of Outbox for TLC. A tick is 30 seconds of the real         *)
(* constants: a lease is 1 and the longest backoff 2. The duplicate window *)
(* is cut to 1, so that it is shorter than a backoff and longer than the   *)
(* time between two publishers' attempts.                                  *)
(***************************************************************************)
EXTENDS Outbox
=============================================================================
