------------------------------- MODULE Inbound -------------------------------
(***************************************************************************)
(* The accept loop of the inbound session (session_inbound.cpp) and its    *)
(* acceptor (acceptor.cpp), which is stopped by a stop handler of its own. *)
(* The methods of the acceptor are atomic: each holds the acceptor's       *)
(* mutex.  What becomes of an accepted channel is modelled in Network.     *)
(***************************************************************************)
EXTENDS Sessions

VARIABLES
    acceptorStopped,    \* acceptor's stopped_
    acceptPc            \* the next step of the accept loop

inboundVars == <<acceptorStopped, acceptPc>>

\* "pending" is an asynchronous accept, "canceled" one that stop() canceled,
\* "refused" the answer of a stopped acceptor, "delayed" the pause before the
\* next start_accept().
AcceptSteps == {"off", "start", "accept", "pending", "canceled", "refused", "delayed"}

InitInbound ==
    /\ acceptorStopped = TRUE
    /\ acceptPc = "off"

\* acceptor::stop().
AcceptorStop ==
    /\ acceptorStopped' = TRUE
    /\ acceptPc' = IF acceptPc = "pending" THEN "canceled" ELSE acceptPc

\* session_inbound::handle_started() relays the stop of the network to the
\* acceptor it has just created; a stopped subscriber invokes handle_stop().
SubscribeAcceptor ==
    /\ \/ SubscriberStopped /\ AcceptorStop /\ UNCHANGED subscribed
       \/ /\ ~SubscriberStopped
          /\ subscribed' = Append(subscribed, "acceptor")
          /\ UNCHANGED inboundVars
    /\ UNCHANGED <<settings, stopPc, live, hostsOpen, hostCount>>

\* acceptor::listen(): stopped_ is cleared, with or without an error.
Listen(ec) ==
    /\ ec \in (IF acceptorStopped THEN {"success", "bad_port"} ELSE {"operation_failed"})
    /\ acceptorStopped' = FALSE
    /\ acceptPc' = IF ec = "success" THEN "start" ELSE "off"
    /\ UNCHANGED sessionVars

\* start_accept().
StartAccept ==
    /\ acceptPc = "start"
    /\ acceptPc' = IF "inbound" \in live THEN "accept" ELSE "off"
    /\ UNCHANGED <<acceptorStopped, sessionVars>>

\* A mutant of Accept: the acceptor is not asked whether it is stopped.
AcceptUntested ==
    /\ acceptPc = "accept"
    /\ acceptPc' = "pending"
    /\ UNCHANGED <<acceptorStopped, sessionVars>>

\* acceptor::accept().
Accept ==
    /\ acceptPc = "accept"
    /\ acceptPc' = IF acceptorStopped THEN "refused" ELSE "pending"
    /\ UNCHANGED <<acceptorStopped, sessionVars>>

\* A mutant of HandleAccept: a failed accept ends the loop.
HandleAcceptOnce(ec) ==
    /\ acceptPc \in {"pending", "canceled", "refused"}
    /\ acceptPc = "refused" <=> ec = "service_stopped"
    /\ acceptPc' = IF "inbound" \in live /\ ec = "success" THEN "delayed" ELSE "off"
    /\ UNCHANGED <<acceptorStopped, sessionVars>>

\* handle_accept(): an accept ends with a socket, with an error or, when the
\* acceptor was stopped, with its refusal; the loop goes on regardless.
HandleAccept(ec) ==
    /\ acceptPc \in {"pending", "canceled", "refused"}
    /\ acceptPc = "refused" <=> ec = "service_stopped"
    /\ acceptPc' = IF "inbound" \in live /\ ec # "service_stopped"
                   THEN "delayed" ELSE "off"
    /\ UNCHANGED <<acceptorStopped, sessionVars>>

AcceptCodes == {"success", "accept_failed", "service_stopped"}

\* The delayed dispatch of start_accept().
DelayEnds ==
    /\ acceptPc = "delayed"
    /\ acceptPc' = "start"
    /\ UNCHANGED <<acceptorStopped, sessionVars>>

AcceptLoop ==
    \/ StartAccept
    \/ Accept
    \/ \E ec \in AcceptCodes : HandleAccept(ec)
    \/ DelayEnds
==============================================================================
