----------------------------- MODULE MCBroadcast -----------------------------
(* Instances of Broadcast for TLC. *)
EXTENDS Broadcast

CONSTANTS c1, c2, tx, ping

MCDirects == {<<c1, ping>>}
==============================================================================
