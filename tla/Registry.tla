------------------------------- MODULE Registry -------------------------------
(***************************************************************************)
(* What the connection table of p2p promises (p2p::store(), remove() and   *)
(* stop() on pending_close_), whatever the sessions that use it: it holds  *)
(* at most one channel of an address; a channel leaves it only after it    *)
(* has stopped; from some point of p2p::stop() on it takes no channel any  *)
(* more, and when p2p::stop() returns every channel it holds has stopped.  *)
(***************************************************************************)
CONSTANTS Slot, Authority

VARIABLES
    table,      \* the channels and their addresses
    ended,      \* the channels of the table that have stopped
    phase       \* how far p2p::stop() is

vars == <<table, ended, phase>>

Init ==
    /\ table = {}
    /\ ended = {}
    /\ phase = "open"

\* The channel may have stopped before it is stored.
Store(c, a) ==
    /\ phase = "open"
    /\ \A entry \in table : entry[1] # c /\ entry[2] # a
    /\ table' = table \cup {<<c, a>>}
    /\ ended' \in {ended, ended \cup {c}}
    /\ UNCHANGED phase

End(c) ==
    /\ \E a \in Authority : <<c, a>> \in table
    /\ ended' = ended \cup {c}
    /\ UNCHANGED <<table, phase>>

Remove(c) ==
    /\ c \in ended
    /\ ended' = ended \ {c}
    /\ table' = {entry \in table : entry[1] # c}
    /\ UNCHANGED phase

Refuse ==
    /\ phase = "open"
    /\ phase' = "refusing"
    /\ UNCHANGED <<table, ended>>

Close ==
    /\ phase = "refusing"
    /\ \A entry \in table : entry[1] \in ended
    /\ phase' = "closed"
    /\ UNCHANGED <<table, ended>>

Next ==
    \/ Refuse \/ Close
    \/ \E c \in Slot : End(c) \/ Remove(c) \/ \E a \in Authority : Store(c, a)

Spec == Init /\ [][Next]_vars
==============================================================================
