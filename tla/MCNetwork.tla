------------------------------ MODULE MCNetwork ------------------------------
(* Instances of Network for TLC. *)
EXTENDS Network

CONSTANTS o1, i1, m1, a, b, none
==============================================================================
