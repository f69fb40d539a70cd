-------------------------------- MODULE Outbox --------------------------------
(***************************************************************************)
(* What proxy::send() promises its callers.  The messages of a channel are *)
(* written whole, one at a time, in the order in which they were given to  *)
(* send(); the handler of each is invoked once, after its write has ended, *)
(* and with an error only when the channel is stopped.  Nothing is said of *)
(* the order in which the handlers of different messages are invoked.      *)
(***************************************************************************)
EXTENDS Sequences

CONSTANTS Channel, Message

VARIABLES
    waiting,    \* per channel: the messages that are yet to be written, in order
    status,     \* per channel and message: how far the message is
    stopped     \* per channel: it is stopped

vars == <<waiting, status, stopped>>

Init ==
    /\ waiting = [c \in Channel |-> <<>>]
    /\ status = [c \in Channel |-> [m \in Message |-> "new"]]
    /\ stopped \in [Channel -> BOOLEAN]

Accept(c, m) ==
    /\ status[c][m] = "new"
    /\ status' = [status EXCEPT ![c][m] = "waiting"]
    /\ waiting' = [waiting EXCEPT ![c] = Append(@, m)]
    /\ UNCHANGED stopped

Write(c) ==
    /\ waiting[c] # <<>>
    /\ \A m \in Message : status[c][m] # "writing"
    /\ status' = [status EXCEPT ![c][Head(waiting[c])] = "writing"]
    /\ waiting' = [waiting EXCEPT ![c] = Tail(@)]
    /\ UNCHANGED stopped

Finish(c, m) ==
    /\ status[c][m] = "writing"
    /\ status' = [status EXCEPT ![c][m] = "written"]
    /\ UNCHANGED <<waiting, stopped>>

Report(c, m, ec) ==
    /\ status[c][m] = "written"
    /\ ec = "failed" => stopped[c]
    /\ status' = [status EXCEPT ![c][m] = ec]
    /\ UNCHANGED <<waiting, stopped>>

Stop(c) ==
    /\ stopped' = [stopped EXCEPT ![c] = TRUE]
    /\ UNCHANGED <<waiting, status>>

Next ==
    \E c \in Channel :
        \/ Write(c) \/ Stop(c)
        \/ \E m \in Message : Accept(c, m) \/ Finish(c, m)
                                  \/ \E ec \in {"success", "failed"} : Report(c, m, ec)

Spec == Init /\ [][Next]_vars
==============================================================================
