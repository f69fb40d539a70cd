----------------------------- MODULE MCHandshake ------------------------------
(* Handshake for TLC: the constants are small numbers. *)
EXTENDS Handshake
==============================================================================
