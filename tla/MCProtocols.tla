----------------------------- MODULE MCProtocols ------------------------------
(* Protocols for TLC: the constants are small numbers and sets. *)
EXTENDS Protocols
==============================================================================
