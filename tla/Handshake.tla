------------------------------ MODULE Handshake -------------------------------
(***************************************************************************)
(* The version handshake of one channel: protocol_version_31402/70002 on   *)
(* protocol_timer and protocol_events (src/protocols/), and the session    *)
(* that waits for its result (session::handle_handshake).                  *)
(*                                                                         *)
(* Four threads call set_event(): "main", which starts the protocol and    *)
(* then reads the peer's messages (message_subscriber::load invokes the    *)
(* version and verack handlers on it), "timer", "stop" (the channel's stop *)
(* subscriber) and "reject" (reject messages are relayed).  set_event() is *)
(* two steps: it loads the event handler, then clears and invokes it.      *)
(*                                                                         *)
(* Protocol versions are numbers; of the services of a version message     *)
(* only whether sufficient_peer() accepts them is kept.                    *)
(***************************************************************************)
EXTENDS Integers

CONSTANTS
    OwnVersion,         \* own_version_, at most settings.protocol_maximum
    MinimumVersion,     \* minimum_version_
    PeerVersions        \* values of the peer's version messages

ASSUME HandshakeAssumption ==
    /\ OwnVersion \in Nat
    /\ MinimumVersion \in Nat
    /\ MinimumVersion <= OwnVersion
    /\ PeerVersions \subseteq Nat

VARIABLES
    startPc,            \* what start(), and then the read cycle, does next
    handler,            \* handler_ is not null
    timer,              \* the protocol's deadline timer
    halted,             \* the channel is stopped
    notice,             \* the stop subscription of the protocol
    subscribed,         \* the message subscriptions of the protocol
    rejected,           \* a reject of our version is relayed
    loaded,             \* per thread: the code of the set_event() in progress
    count,              \* what the synchronizer has counted, of two
    calls,              \* how often it has invoked the session's handler
    outcome,            \* the code the session's handler was given
    peerVersion,        \* peer_version_ of the channel, -1 until it is set
    negotiated,         \* negotiated version of the channel
    verackReceived,     \* the peer has accepted our version
    endedBy             \* what stopped the channel

channelVars == <<halted, notice, endedBy>>
syncVars == <<count, calls, outcome>>
peerVars == <<peerVersion, negotiated, verackReceived>>
eventVars == <<handler, timer, loaded>>
messageVars == <<subscribed, rejected>>
vars == <<startPc, channelVars, syncVars, peerVars, eventVars, messageVars>>

Thread == {"main", "timer", "stop", "reject"}
EventCodes == {"success", "channel_stopped", "channel_timeout"}
Unset == -1

\* The channel has been started; session::handle_starting() attaches the
\* protocol, and the first read follows when start() returns.
Init ==
    /\ startPc = "handler"
    /\ handler = FALSE
    /\ timer = "none"
    /\ halted = FALSE
    /\ notice = "none"
    /\ subscribed = {}
    /\ rejected = FALSE
    /\ loaded = [t \in Thread |-> "none"]
    /\ count = 0
    /\ calls = 0
    /\ outcome = "none"
    /\ peerVersion = Unset
    /\ negotiated = OwnVersion
    /\ verackReceived = FALSE
    /\ endedBy = "none"

-----------------------------------------------------------------------------
(* Events.                                                                  *)

\* protocol_events::set_event(), first part: a null handler ends it.
LoadHandler(t, code) ==
    loaded' = [loaded EXCEPT ![t] = IF handler THEN code ELSE "none"]

\* The synchronizer counts up to n, and invokes the session's handler if due.
Clear(n, due, code) ==
    /\ count' = n
    /\ calls' = IF due THEN calls + 1 ELSE calls
    /\ outcome' = IF due THEN code ELSE outcome

\* A mutant of Join: an error does not keep later calls from counting.
JoinUncleared(code) ==
    IF count = 2 THEN UNCHANGED syncVars
    ELSE Clear(count + 1, code # "success" \/ count + 1 = 2, code)

\* The synchronizer of start() completes at the second success or the first
\* error; later calls are ignored.
Join(code) ==
    IF count = 2 THEN UNCHANGED syncVars
    ELSE LET n == IF code = "success" THEN count + 1 ELSE 2 IN Clear(n, n = 2, code)

\* protocol_events::set_event(), second part, and protocol_timer's
\* handle_notify(): a stop code clears the handler and cancels the timer.
InvokeHandler(t) ==
    /\ loaded[t] # "none"
    /\ loaded' = [loaded EXCEPT ![t] = "none"]
    /\ handler' = (handler /\ loaded[t] # "channel_stopped")
    /\ timer' = IF loaded[t] = "channel_stopped" /\ timer = "armed" THEN "none" ELSE timer
    /\ Join(loaded[t])
    /\ UNCHANGED <<startPc, channelVars, peerVars, messageVars>>

\* The main thread is between two calls.
MainReady == loaded["main"] = "none"

-----------------------------------------------------------------------------
(* Start: protocol_version_31402::start() and the starts it calls.          *)

\* protocol_events::start(): the handler is stored.
StoreHandler ==
    /\ startPc = "handler"
    /\ startPc' = "subscribe_stop"
    /\ handler' = TRUE
    /\ UNCHANGED <<timer, loaded, channelVars, syncVars, peerVars, messageVars>>

\* protocol_events::start(): a stopped channel invokes handle_stopped() at once.
SubscribeStop ==
    /\ startPc = "subscribe_stop"
    /\ startPc' = "test_timer"
    /\ \/ halted /\ LoadHandler("main", "channel_stopped") /\ notice' = notice
       \/ ~halted /\ notice' = "subscribed" /\ loaded' = loaded
    /\ UNCHANGED <<halted, endedBy, handler, timer, syncVars, peerVars, messageVars>>

\* A mutant of TestTimer: the timer is not started.
TestTimerSkips ==
    /\ startPc = "test_timer"
    /\ MainReady
    /\ startPc' = "subscribe"
    /\ UNCHANGED <<channelVars, syncVars, peerVars, eventVars, messageVars>>

\* protocol_timer::reset_timer(): the stopped() test.
TestTimer ==
    /\ startPc = "test_timer"
    /\ MainReady
    /\ startPc' = IF handler THEN "start_timer" ELSE "subscribe"
    /\ UNCHANGED <<channelVars, syncVars, peerVars, eventVars, messageVars>>

\* protocol_timer::reset_timer(): the start of the timer.
StartTimer ==
    /\ startPc = "start_timer"
    /\ startPc' = "subscribe"
    /\ timer' = "armed"
    /\ UNCHANGED <<handler, loaded, channelVars, syncVars, peerVars, messageVars>>

\* The message subscriptions and the send of our version; those of a stopped
\* channel call back with channel_stopped, which the handlers ignore.
SubscribeMessages ==
    /\ startPc = "subscribe"
    /\ startPc' = "reading"
    /\ subscribed' = IF halted THEN {} ELSE {"version", "verack", "reject"}
    /\ UNCHANGED <<rejected, channelVars, syncVars, peerVars, eventVars>>

-----------------------------------------------------------------------------
(* Messages of the peer, in the order it sends them.                        *)

\* proxy::handle_read_payload(): a message has been read on a channel that is
\* not stopped; it may be by the time the message is loaded.
HandleReadPayload ==
    /\ startPc = "reading"
    /\ MainReady
    /\ ~halted
    /\ startPc' = "load"
    /\ UNCHANGED <<channelVars, syncVars, peerVars, eventVars, messageVars>>

\* A message of this type reaches the subscription of the protocol.
Receive(type) ==
    /\ startPc = "load"
    /\ startPc' = "reading"
    /\ type \in subscribed

\* A message that is of another type, or finds the subscriptions stopped.
LoadOther ==
    /\ startPc = "load"
    /\ startPc' = "reading"
    /\ UNCHANGED <<channelVars, syncVars, peerVars, eventVars, messageVars>>

\* sufficient_peer(): the services are acceptable and the version is enough.
SufficientPeer(version, services) == services /\ version >= MinimumVersion

Lesser(a, b) == IF a < b THEN a ELSE b

\* handle_receive_version(): negotiate, remember the peer, acknowledge.
HandleReceiveVersion(version, services) ==
    /\ Receive("version")
    /\ subscribed' = subscribed \ {"version"}
    /\ \/ /\ ~handler
          /\ UNCHANGED <<loaded, negotiated, peerVersion>>
       \/ /\ handler
          /\ ~SufficientPeer(version, services)
          /\ LoadHandler("main", "channel_stopped")
          /\ UNCHANGED <<negotiated, peerVersion>>
       \/ /\ handler
          /\ SufficientPeer(version, services)
          /\ negotiated' = Lesser(version, OwnVersion)
          /\ peerVersion' = version
          /\ LoadHandler("main", "success")
    /\ UNCHANGED <<handler, timer, rejected, channelVars, syncVars, verackReceived>>

\* handle_receive_verack().
HandleReceiveVerack ==
    /\ Receive("verack")
    /\ subscribed' = subscribed \ {"verack"}
    /\ verackReceived' = TRUE
    /\ LoadHandler("main", "success")
    /\ UNCHANGED <<handler, timer, rejected, channelVars, syncVars, peerVersion, negotiated>>

\* A reject of our version message is read and relayed; rejects of other
\* messages stay with the reject protocol.
RelayReject ==
    /\ Receive("reject")
    /\ ~rejected
    /\ subscribed' = subscribed \ {"reject"}
    /\ rejected' = TRUE
    /\ UNCHANGED <<channelVars, syncVars, peerVars, eventVars>>

\* protocol_version_70002::handle_receive_reject(): obsolete or duplicate.
HandleReceiveReject ==
    /\ rejected
    /\ rejected' = FALSE
    /\ LoadHandler("reject", "channel_stopped")
    /\ UNCHANGED <<startPc, handler, timer, subscribed, channelVars, syncVars, peerVars>>

-----------------------------------------------------------------------------
(* The timer and the channel.                                               *)

TimerExpires ==
    /\ timer = "armed"
    /\ timer' = "expired"
    /\ UNCHANGED <<startPc, handler, loaded, channelVars, syncVars, peerVars, messageVars>>

\* A mutant of HandleTimer: it stops the channel instead of setting an event.
HandleTimerStops ==
    /\ timer = "expired"
    /\ timer' = "none"
    /\ halted' = TRUE
    /\ endedBy' = IF halted THEN endedBy ELSE "handshake"
    /\ notice' = IF notice = "subscribed" THEN "posted" ELSE notice
    /\ UNCHANGED <<startPc, handler, loaded, syncVars, peerVars, messageVars>>

\* protocol_timer::handle_timer().
HandleTimer ==
    /\ timer = "expired"
    /\ timer' = "none"
    /\ LoadHandler("timer", "channel_timeout")
    /\ UNCHANGED <<startPc, handler, channelVars, syncVars, peerVars, messageVars>>

\* proxy::stop(): the stop subscription is posted.
StopChannel(by) ==
    /\ halted' = TRUE
    /\ endedBy' = IF halted THEN endedBy ELSE by
    /\ notice' = IF notice = "subscribed" THEN "posted" ELSE notice

\* session::handle_handshake() with an error: handle_start() stops the channel.
HandshakeFails ==
    /\ outcome \notin {"none", "success"}
    /\ ~halted
    /\ StopChannel("handshake")
    /\ UNCHANGED <<startPc, syncVars, peerVars, eventVars, messageVars>>

\* The channel stops for a reason of its own: the peer, a timer, p2p::stop().
ChannelStops ==
    /\ ~halted
    /\ StopChannel("channel")
    /\ UNCHANGED <<startPc, syncVars, peerVars, eventVars, messageVars>>

\* A mutant of HandleStopped: it sets no event.
HandleStoppedSilent ==
    /\ notice = "posted"
    /\ notice' = "done"
    /\ UNCHANGED <<startPc, halted, endedBy, eventVars, syncVars, peerVars, messageVars>>

\* protocol_events::handle_stopped().
HandleStopped ==
    /\ notice = "posted"
    /\ notice' = "done"
    /\ LoadHandler("stop", "channel_stopped")
    /\ UNCHANGED <<startPc, halted, endedBy, handler, timer, syncVars, peerVars, messageVars>>

-----------------------------------------------------------------------------
Start == StoreHandler \/ SubscribeStop \/ TestTimer \/ StartTimer \/ SubscribeMessages

Peer ==
    \/ \E version \in PeerVersions, services \in BOOLEAN : HandleReceiveVersion(version, services)
    \/ HandleReceiveVerack \/ RelayReject \/ HandleReadPayload \/ LoadOther

Timer == TimerExpires \/ HandleTimer

Next ==
    \/ Start \/ Peer \/ Timer \/ HandleReceiveReject \/ HandshakeFails
    \/ ChannelStops \/ HandleStopped
    \/ \E t \in Thread : InvokeHandler(t)

Spec == Init /\ [][Next]_vars

\* Threads are scheduled and the timer expires; the peer may stay silent.
FairSpec ==
    /\ Spec
    /\ WF_vars(Start) /\ WF_vars(Timer) /\ WF_vars(HandleStopped) /\ WF_vars(HandshakeFails)
    /\ \A t \in Thread : WF_vars(InvokeHandler(t))

-----------------------------------------------------------------------------
\* The state of the handshake has the shape of the code's.
TypeOK ==
    /\ startPc \in {"handler", "subscribe_stop", "test_timer", "start_timer",
                    "subscribe", "reading", "load"}
    /\ handler \in BOOLEAN
    /\ timer \in {"none", "armed", "expired"}
    /\ halted \in BOOLEAN
    /\ notice \in {"none", "subscribed", "posted", "done"}
    /\ subscribed \subseteq {"version", "verack", "reject"}
    /\ rejected \in BOOLEAN
    /\ loaded \in [Thread -> EventCodes \cup {"none"}]
    /\ count \in 0..2
    /\ calls \in Nat
    /\ outcome \in EventCodes \cup {"none"}
    /\ peerVersion \in PeerVersions \cup {Unset}
    /\ negotiated \in Nat
    /\ verackReceived \in BOOLEAN
    /\ endedBy \in {"none", "handshake", "channel"}

\* The session hears of the handshake at most once, although the reader, the
\* timer, a reject and the stop of the channel race to set the last event.
CompletedOnce == calls <= 1

\* What the session sees of the handshake.
O == INSTANCE Opening

\* The handshake keeps its promise to the session (module Opening), although
\* the reader, the timer, a reject and the stop of the channel race to set the
\* last event: it is told once, of success only after a sufficient version and
\* a verack, and the versions it reads from the channel then stay.
ImplementsOpening == O!OpeningSpec

\* A handshake succeeds only after both messages: the peer's version is known
\* (session_inbound reads its nonce), its negotiated version is the lesser of
\* the two and not below the minimum, and the peer has sent its verack.
SuccessIsMutual ==
    outcome = "success" =>
        /\ verackReceived
        /\ peerVersion \in PeerVersions
        /\ negotiated = Lesser(peerVersion, OwnVersion)
        /\ negotiated >= MinimumVersion

\* The events left over after a success (the handshake timer, a reject) never
\* stop the channel.
LateEventsIgnored == outcome = "success" => endedBy # "handshake"

\* No end of the handshake is lost: once start() is past its timer, a session
\* that has not been told still will be, with no help of the peer, since
\* handler_ is set and the timer runs, has fired or has set its event.
OutcomeToCome ==
    calls = 0 /\ startPc \in {"subscribe", "reading", "load"} =>
        handler /\ (timer # "none" \/ loaded["timer"] = "channel_timeout")

\* No stop is lost: a protocol that still has its handler on a stopped channel,
\* which may have stopped before, in or after the subscription, will be told.
StopToCome ==
    halted /\ handler /\ startPc \notin {"handler", "subscribe_stop"} =>
        notice = "posted" \/ \E t \in {"main", "stop"} : loaded[t] = "channel_stopped"

\* The handshake always ends: the session's handler is called, whether the
\* peer is silent or the channel stops at any point of start().
HandshakeEnds == <>(calls > 0)

\* A handshake that fails ends the channel, and the protocol hears of the stop.
FailureStops ==
    (calls > 0 /\ outcome # "success") ~> (halted /\ ~handler)
==============================================================================
