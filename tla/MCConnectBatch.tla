--------------------------- MODULE MCConnectBatch ----------------------------
(* ConnectBatch for TLC: its only constant is a number. *)
EXTENDS ConnectBatch
==============================================================================
