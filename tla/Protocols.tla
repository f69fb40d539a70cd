------------------------------ MODULE Protocols -------------------------------
(***************************************************************************)
(* The protocols of one connection, in the order the session attaches      *)
(* them: the handshake, then, when p2p has stored the channel, ping        *)
(* (protocol_ping_31402/60001, on a perpetual protocol_timer), reject      *)
(* (protocol_reject_70002) and address (protocol_address_31402).  Of the   *)
(* handshake only what it promises is used (module Opening, which module   *)
(* Handshake implements).                                                  *)
(*                                                                         *)
(* The session attaches the protocols on the thread that reads: no message *)
(* is read until attach_protocols() returns, but the heartbeat may fire.   *)
(* Ping and pong are handled on the reading thread, address, get_address   *)
(* and reject are relayed to another.  Each protocol has an event handler  *)
(* and a stop subscription of its own.                                     *)
(*                                                                         *)
(* Sends are not modelled further than the ping itself: a send fails only  *)
(* on a channel that is stopped (module Outbox), where the stop() of       *)
(* handle_send_ping() and handle_send() changes nothing.  A ping of the    *)
(* peer is answered on the reading thread and changes nothing here.        *)
(***************************************************************************)
EXTENDS Opening

CONSTANTS
    Bip31, Bip61,       \* protocol levels of pong and of reject
    Nonces,             \* values of the pings' random nonces
    Self,               \* settings.self has a port
    HostPool            \* settings.host_pool_capacity is not zero

ASSUME ProtocolsAssumption ==
    /\ OwnVersion \in Nat /\ PeerVersions \subseteq Nat
    /\ Bip31 \in Nat /\ Bip61 \in Nat
    /\ Self \in BOOLEAN /\ HostPool \in BOOLEAN

VARIABLES
    attach,             \* what attach_protocols() does next
    events,             \* per protocol: handler_ is not null
    notices,            \* per protocol: its stop subscription
    heartbeat,          \* the deadline timer of the ping protocol
    pingPc,             \* per thread: what it does next in the ping protocol
    pending,            \* pending_
    awaiting,           \* the nonces of the subscribed handle_receive_pong()
    owed,               \* the nonces of the pings the peer has not answered
    listening,          \* the other message subscriptions
    relayed,            \* messages relayed to them
    dropped,            \* why the ping protocol has stopped the channel
    faults              \* what went wrong with the heartbeats and the pongs

eventsVars == <<events, notices>>
pongVars == <<pending, awaiting, owed>>
relayVars == <<listening, relayed>>
dropVars == <<dropped, faults>>
pingVars == <<attach, eventsVars, heartbeat, pingPc, pongVars, relayVars, dropVars>>
handshakeVars == <<toldVars, versionVars, verackReceived>>
vars == <<openingVars, pingVars>>

Attached == {"ping", "reject", "address"}
PingThread == {"main", "timer", "stop"}
Relayed == {"reject", "address", "get_address"}

Init ==
    /\ OpeningInit
    /\ attach = "none"
    /\ events = [p \in Attached |-> FALSE]
    /\ notices = [p \in Attached |-> "none"]
    /\ heartbeat = "none"
    /\ pingPc = [t \in PingThread |-> "idle"]
    /\ pending = FALSE
    /\ awaiting = {}
    /\ owed = {}
    /\ listening = {}
    /\ relayed = {}
    /\ dropped = "none"
    /\ faults = {}

-----------------------------------------------------------------------------
(* Stop.                                                                    *)

\* proxy::stop(): the stop subscriptions of the attached protocols are posted.
NotifyProtocols ==
    notices' = [p \in Attached |-> IF notices[p] = "subscribed" THEN "posted" ELSE notices[p]]

\* proxy::stop() as a protocol or the session calls it; again, it is ignored.
Stop ==
    IF halted THEN UNCHANGED <<halted, notices>>
    ELSE halted' = TRUE /\ NotifyProtocols

\* The channel stops for another reason: its peer, its own timers, p2p::stop()
\* or a handshake that failed.
ConnectionStops ==
    /\ Halt
    /\ NotifyProtocols
    /\ UNCHANGED <<attach, events, heartbeat, pingPc, pongVars, relayVars, dropVars>>

\* protocol_events::handle_stopped(): set_event() clears the handler; the one
\* of the ping protocol then goes on in handle_notify().
HandleProtocolStopped(p) ==
    /\ notices[p] = "posted"
    /\ notices' = [notices EXCEPT ![p] = "done"]
    /\ events' = [events EXCEPT ![p] = FALSE]
    /\ pingPc' = [pingPc EXCEPT !["stop"] = IF p = "ping" THEN "cancel" ELSE @]
    /\ UNCHANGED <<openingVars, attach, heartbeat, pongVars, relayVars, dropVars>>

\* protocol_timer::handle_notify() with channel_stopped.
CancelHeartbeat ==
    /\ pingPc["stop"] = "cancel"
    /\ pingPc' = [pingPc EXCEPT !["stop"] = "idle"]
    /\ heartbeat' = IF heartbeat = "armed" THEN "none" ELSE heartbeat
    /\ UNCHANGED <<openingVars, attach, eventsVars, pongVars, relayVars, dropVars>>

-----------------------------------------------------------------------------
(* Attaching.                                                               *)

\* session::handshake_complete() and handle_start(): p2p stores the channel,
\* or refuses it and the channel stops.
StoreConnection ==
    /\ outcome = "success"
    /\ attach = "none"
    /\ \/ attach' = "ping" /\ UNCHANGED <<halted, notices>>
       \/ attach' = "refused" /\ Stop
    /\ UNCHANGED <<handshakeVars, events, heartbeat, pingPc, pongVars, relayVars, dropVars>>

\* A mutant of StartEvents: a stopped channel does not call back.
StartEventsUnanswered(p) ==
    /\ events' = [events EXCEPT ![p] = TRUE]
    /\ notices' = [notices EXCEPT ![p] = IF halted THEN "none" ELSE "subscribed"]

\* protocol_events::start(): on a stopped channel the stop subscription calls
\* back at once, and the handler is cleared again.
StartEvents(p) ==
    /\ events' = [events EXCEPT ![p] = ~halted]
    /\ notices' = [notices EXCEPT ![p] = IF halted THEN "done" ELSE "subscribed"]

\* Nothing else runs on the main thread.
MainIdle == pingPc["main"] = "idle"

\* protocol_timer::start(): the events, then reset_timer().
AttachPing ==
    /\ attach = "ping"
    /\ attach' = "heartbeat"
    /\ StartEvents("ping")
    /\ pingPc' = [pingPc EXCEPT !["main"] = "reset"]
    /\ UNCHANGED <<openingVars, heartbeat, pongVars, relayVars, dropVars>>

\* protocol_ping_31402::start(): the first heartbeat is simulated.
FirstHeartbeat ==
    /\ attach = "heartbeat"
    /\ MainIdle
    /\ attach' = IF negotiated >= Bip61 THEN "reject" ELSE "address"
    /\ pingPc' = [pingPc EXCEPT !["main"] = "event"]
    /\ UNCHANGED <<openingVars, eventsVars, heartbeat, pongVars, relayVars, dropVars>>

\* SUBSCRIBE: a stopped channel takes no handler.
Listen(types) == listening' = IF halted THEN listening ELSE listening \cup types

\* protocol_reject_70002::start().
AttachReject ==
    /\ attach = "reject"
    /\ MainIdle
    /\ attach' = "address"
    /\ StartEvents("reject")
    /\ Listen({"reject"})
    /\ UNCHANGED <<openingVars, heartbeat, pingPc, pongVars, relayed, dropVars>>

\* protocol_address_31402::start(): without a pool of hosts it asks for nothing.
AttachAddress ==
    /\ attach = "address"
    /\ MainIdle
    /\ attach' = "done"
    /\ StartEvents("address")
    /\ Listen(IF HostPool THEN {"address", "get_address"} ELSE {})
    /\ UNCHANGED <<openingVars, heartbeat, pingPc, pongVars, relayed, dropVars>>

-----------------------------------------------------------------------------
(* The heartbeat.                                                           *)

\* What follows set_event() on the thread: a perpetual timer resets itself.
AfterEvent(t) == IF t = "timer" THEN "reset" ELSE "idle"

\* A pong that is still awaited is late; a heartbeat inside start() is early.
HeartbeatExpires ==
    /\ heartbeat = "armed"
    /\ heartbeat' = "expired"
    /\ faults' = faults \cup (IF awaiting # {} THEN {"late"} ELSE {})
                        \cup (IF attach # "done" THEN {"early"} ELSE {})
    /\ UNCHANGED <<openingVars, attach, eventsVars, pingPc, pongVars, relayVars, dropped>>

\* protocol_timer::handle_timer(): the stopped() test.
HandleHeartbeat ==
    /\ heartbeat = "expired"
    /\ pingPc["timer"] = "idle"
    /\ heartbeat' = "none"
    /\ pingPc' = [pingPc EXCEPT !["timer"] = IF events["ping"] THEN "event" ELSE "idle"]
    /\ UNCHANGED <<openingVars, attach, eventsVars, pongVars, relayVars, dropVars>>

\* The ping protocol stops the channel.
Drop(reason) ==
    /\ Stop
    /\ dropped' = IF halted THEN dropped ELSE reason

\* A mutant of TestPending: a pending pong only skips the ping.
TestPendingSkips(t) ==
    /\ pingPc[t] = "event"
    /\ pingPc' = [pingPc EXCEPT ![t] = IF events["ping"] /\ negotiated >= Bip31 /\ ~pending
                                      THEN "send" ELSE AfterEvent(t)]
    /\ UNCHANGED <<openingVars, attach, eventsVars, heartbeat, pongVars, relayVars, dropVars>>

\* send_ping(), to the test of pending_; protocol_ping_31402 only sends.
TestPending(t) ==
    /\ pingPc[t] = "event"
    /\ LET awaits == events["ping"] /\ negotiated >= Bip31 IN
       /\ pingPc' = [pingPc EXCEPT ![t] = IF awaits /\ ~pending THEN "send" ELSE AfterEvent(t)]
       /\ \/ awaits /\ pending /\ Drop("channel_timeout")
          \/ ~(awaits /\ pending) /\ UNCHANGED <<halted, notices, dropped>>
    /\ UNCHANGED <<handshakeVars, attach, events, heartbeat, pongVars, relayVars, faults>>

\* protocol_ping_60001::send_ping(): pending_ is set, the pong subscribed and
\* the ping sent.
SendPing(t, nonce) ==
    /\ pingPc[t] = "send"
    /\ pingPc' = [pingPc EXCEPT ![t] = AfterEvent(t)]
    /\ pending' = TRUE
    /\ awaiting' = IF halted THEN awaiting ELSE awaiting \cup {nonce}
    /\ owed' = IF halted THEN owed ELSE owed \cup {nonce}
    /\ UNCHANGED <<openingVars, attach, eventsVars, heartbeat, relayVars, dropVars>>

\* protocol_timer::reset_timer(): the stopped() test.
TestReset(t) ==
    /\ pingPc[t] = "reset"
    /\ pingPc' = [pingPc EXCEPT ![t] = IF events["ping"] THEN "arm" ELSE "idle"]
    /\ UNCHANGED <<openingVars, attach, eventsVars, heartbeat, pongVars, relayVars, dropVars>>

\* protocol_timer::reset_timer(): the start of the timer.
ArmHeartbeat(t) ==
    /\ pingPc[t] = "arm"
    /\ pingPc' = [pingPc EXCEPT ![t] = "idle"]
    /\ heartbeat' = "armed"
    /\ UNCHANGED <<openingVars, attach, eventsVars, pongVars, relayVars, dropVars>>

-----------------------------------------------------------------------------
(* Messages of the peer.                                                    *)

\* The main thread reads: no session handler is running on it.
Reading == ~halted /\ attach = "done" /\ MainIdle

\* A mutant of HandleReceivePong: pending_ stays set.
HandleReceivePongPending(nonce) ==
    /\ Reading
    /\ awaiting # {}
    /\ awaiting' = {}
    /\ owed' = owed \ {nonce}
    /\ faults' = IF nonce \in owed THEN faults ELSE faults \cup {"nonce"}
    /\ \/ events["ping"] /\ awaiting # {nonce} /\ Drop("bad_stream")
       \/ ~(events["ping"] /\ awaiting # {nonce}) /\ UNCHANGED <<halted, notices, dropped>>
    /\ UNCHANGED <<handshakeVars, attach, events, heartbeat, pingPc, pending, relayVars>>

\* handle_receive_pong() of every subscription, none of which stays: the pong
\* of another ping than theirs ends the channel.  The nonces of the ones the
\* peer was sent tell whether it is the peer that is wrong.
HandleReceivePong(nonce) ==
    /\ Reading
    /\ awaiting # {}
    /\ awaiting' = {}
    /\ owed' = owed \ {nonce}
    /\ faults' = IF nonce \in owed THEN faults ELSE faults \cup {"nonce"}
    /\ pending' = (pending /\ ~events["ping"])
    /\ \/ events["ping"] /\ awaiting # {nonce} /\ Drop("bad_stream")
       \/ ~(events["ping"] /\ awaiting # {nonce}) /\ UNCHANGED <<halted, notices, dropped>>
    /\ UNCHANGED <<handshakeVars, attach, events, heartbeat, pingPc, relayVars>>

\* message_subscriber::load() relays the message to its subscribers.
RelayMessage(type) ==
    /\ Reading
    /\ type \in listening \ relayed
    /\ relayed' = relayed \cup {type}
    /\ UNCHANGED <<openingVars, attach, eventsVars, heartbeat, pingPc, pongVars, listening, dropVars>>

\* protocol_reject_70002::handle_receive_reject(): it logs, and resubscribes
\* unless its protocol is stopped.
HandleReceiveReject == events["reject"]

\* protocol_address_31402::handle_receive_address(): hosts::store() answers with
\* success or service_stopped, on neither of which handle_store_addresses()
\* stops the channel.
HandleReceiveAddress == events["address"]

\* protocol_address_31402::handle_receive_get_address(): without an address of
\* our own it leaves its subscription.
HandleReceiveGetAddress == events["address"] /\ Self

\* The handler of a relayed message runs on a thread of the pool, and tells
\* whether it resubscribes.
HandleRelayed(type) ==
    LET resubscribes == \/ type = "reject" /\ HandleReceiveReject
                        \/ type = "address" /\ HandleReceiveAddress
                        \/ type = "get_address" /\ HandleReceiveGetAddress
    IN  /\ type \in relayed
        /\ relayed' = relayed \ {type}
        /\ listening' = IF resubscribes THEN listening ELSE listening \ {type}
        /\ UNCHANGED <<openingVars, attach, eventsVars, heartbeat, pingPc, pongVars, dropVars>>

-----------------------------------------------------------------------------
\* The handshake, up to its outcome.
Handshake ==
    /\ outcome = "none"
    /\ Acknowledge \/ Succeed \/ Fail \/ \E version \in PeerVersions : Meet(version)
    /\ UNCHANGED pingVars

AttachProtocols ==
    StoreConnection \/ AttachPing \/ FirstHeartbeat \/ AttachReject \/ AttachAddress

PingStep(t) ==
    \/ TestPending(t) \/ TestReset(t) \/ ArmHeartbeat(t)
    \/ \E nonce \in Nonces : SendPing(t, nonce)

Heartbeat == HeartbeatExpires \/ HandleHeartbeat

ProtocolStopped == CancelHeartbeat \/ \E p \in Attached : HandleProtocolStopped(p)

Next ==
    \/ Handshake \/ ConnectionStops \/ AttachProtocols \/ Heartbeat \/ ProtocolStopped
    \/ \E t \in PingThread : PingStep(t)
    \/ \E nonce \in Nonces : HandleReceivePong(nonce)
    \/ \E type \in Relayed : RelayMessage(type) \/ HandleRelayed(type)

Spec == Init /\ [][Next]_vars

\* Threads are scheduled and timers expire; the peer may fall silent.
FairSpec ==
    /\ Spec
    /\ WF_vars(AttachProtocols) /\ WF_vars(Heartbeat) /\ WF_vars(ProtocolStopped)
    /\ \A t \in PingThread : WF_vars(PingStep(t))

-----------------------------------------------------------------------------
\* The state of the attached protocols has the shape of the code's.
TypeOK ==
    /\ halted \in BOOLEAN
    /\ negotiated \in Nat
    /\ attach \in {"none", "ping", "heartbeat", "reject", "address", "done", "refused"}
    /\ events \in [Attached -> BOOLEAN]
    /\ notices \in [Attached -> {"none", "subscribed", "posted", "done"}]
    /\ heartbeat \in {"none", "armed", "expired"}
    /\ pingPc \in [PingThread -> {"idle", "event", "send", "reset", "arm", "cancel"}]
    /\ pending \in BOOLEAN
    /\ awaiting \subseteq Nonces
    /\ owed \subseteq Nonces
    /\ listening \subseteq Relayed
    /\ relayed \subseteq Relayed
    /\ dropped \in {"none", "channel_timeout", "bad_stream"}
    /\ faults \subseteq {"late", "early", "nonce"}

\* The ping protocol drops no peer that answers each ping with its nonce before
\* the next heartbeat, though heartbeats and pongs are handled on two threads:
\* a latency stop means a pong was still awaited when a heartbeat fired, a
\* nonce stop that the peer sent one it was not asked for.  Only a heartbeat
\* that fires inside attach_protocols() runs a second send_ping() beside the
\* first, and can make either stop wrong.
HonestPeerKept ==
    "early" \notin faults =>
        /\ dropped = "channel_timeout" => "late" \in faults
        /\ dropped = "bad_stream" => "nonce" \in faults

\* No heartbeat is lost: while the channel is open, the timer of the ping
\* protocol runs or a thread is on its way to start it again.
HeartbeatToCome ==
    ~halted /\ attach \notin {"none", "ping", "refused"} =>
        heartbeat # "none" \/ pingPc["main"] \in {"reset", "arm"} \/ pingPc["timer"] # "idle"

\* No stop is lost: a protocol with an event handler on a stopped channel has
\* its stop posted, wherever in attach_protocols() the channel stopped.
StopToCome ==
    \A p \in Attached : halted /\ events[p] => notices[p] = "posted"

\* A peer that owes a pong answers it or loses the connection: the heartbeat
\* goes on as long as the channel does.
SilentPeerDropped == []<>(halted \/ owed = {})

\* The protocol has no thread, timer or event handler left.
Released ==
    /\ heartbeat = "none"
    /\ pingPc = [t \in PingThread |-> "idle"]
    /\ events = [p \in Attached |-> FALSE]

\* When the channel stops, at any point of attach_protocols() or of a
\* heartbeat, the protocols let go of it: no timer is armed for ever by a
\* reset that raced the stop, and no handler is left set.
ProtocolsEnd == <>halted => <>[]Released
==============================================================================
