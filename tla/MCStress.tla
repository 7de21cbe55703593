------------------------------ MODULE MCStress ------------------------------
(* Instances of Stress: no limit, an invalid one and the least one given. *)
EXTENDS Stress

MCSettings == {[set |-> FALSE, value |-> 0], [set |-> TRUE, value |-> 0], [set |-> TRUE, value |-> 1]}
=============================================================================
