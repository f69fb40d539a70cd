------------------------------- MODULE Network -------------------------------
(***************************************************************************)
(* The network (src/p2p.cpp) and its sessions (src/sessions/): the         *)
(* connections of the outbound, inbound and manual sessions, from the      *)
(* socket a connector or acceptor delivers, through the registration       *)
(* sequence of session.cpp, to the removal of the channel, while           *)
(* p2p::stop() runs on another thread.                                     *)
(*                                                                         *)
(* A slot is one connection at a time: one of the outbound_connections of  *)
(* the outbound session, one p2p::connect() of the manual session, or one  *)
(* accepted socket.  A handler is one step per call it makes to state      *)
(* shared with other threads (the sessions' stopped_, the two pending      *)
(* collections, the channel's stop subscriber); `pc' says what the thread  *)
(* that owns the slot does next.                                           *)
(*                                                                         *)
(* Connectors, handshakes and channels are abstracted to what they promise *)
(* their session: a connect and a handshake complete exactly once (modules *)
(* ConnectBatch and Handshake), and the stop of a channel posts each stop  *)
(* subscriber once (module Channel).                                       *)
(***************************************************************************)
EXTENDS Integers, FiniteSets

CONSTANTS
    Outbound,            \* slots of the outbound session
    Inbound,             \* slots of the inbound session
    Manual,              \* slots of the manual session
    Authority,           \* remote addresses
    NoAuthority,         \* the address of a slot without a channel
    ConnectionLimit,     \* connection_limit_ of the inbound session
    ManualAttemptLimit   \* settings.manual_attempt_limit, zero is forever

Slot == Outbound \cup Inbound \cup Manual

ASSUME NetworkAssumption ==
    /\ Outbound \cap Inbound = {}
    /\ Outbound \cap Manual = {}
    /\ Inbound \cap Manual = {}
    /\ ConnectionLimit \in Nat
    /\ ManualAttemptLimit \in Nat
    /\ NoAuthority \notin Authority

VARIABLES
    stopPc,            \* what p2p::stop() does next
    session,           \* per session: how far session::start() is
    sessionStopped,    \* per session: stopped_
    notify,            \* the sessions stop_subscriber_ holds
    pendingHandshake,  \* pending_handshake_
    pendingClose,      \* pending_close_
    toStop,            \* channels a pending collection's stop() has yet to stop
    pc,                \* per slot: the next step of its thread
    result,            \* per slot: the code its registration carries
    authority,         \* per slot: the channel's remote address
    halted,            \* per slot: the channel's stopped_ and stop subscriber
    subscribed,        \* slots whose handle_remove is subscribed
    posted,            \* slots whose handle_remove a stop has posted
    attempts,          \* per slot: remaining connect attempts (manual)
    caller             \* per slot: the handler given to p2p::connect() (manual)

netVars == <<stopPc, notify, toStop>>
sessionVars == <<session, sessionStopped>>
pendingVars == <<pendingHandshake, pendingClose>>
channelVars == <<authority, halted, subscribed, posted>>
manualVars == <<attempts, caller>>
vars == <<netVars, sessionVars, pendingVars, pc, result, channelVars, manualVars>>

Session == {"outbound", "inbound", "manual"}

SessionOf(c) == IF c \in Outbound THEN "outbound"
                ELSE IF c \in Inbound THEN "inbound" ELSE "manual"

\* The session's stopped(), as the thread of slot c reads it.
Stopped(c) == sessionStopped[SessionOf(c)]

StopStages == {"running", "clear_manual", "stop_subscriber", "notify",
               "pending_handshake", "stop_handshakes", "pending_close",
               "stop_closes", "stopped"}

\* p2p's stopped(), a null manual_, a stopped stop_subscriber_ and the stopped
\* pending collections: p2p::stop() sets each at one of its stages, for good.
NetStopped == stopPc # "running"
ManualCleared == stopPc \notin {"running", "clear_manual"}
SubscriberStopped == stopPc \notin {"running", "clear_manual", "stop_subscriber"}
HandshakesRefused == stopPc \in {"stop_handshakes", "pending_close",
                                 "stop_closes", "stopped"}
ClosesRefused == stopPc \in {"stop_closes", "stopped"}

PcValues == {"idle", "new", "request", "dial", "connect", "register", "pend",
             "start", "handshake", "store", "unpend", "begin", "open", "ended"}

\* The network runs: p2p::start() is complete, so the manual session is
\* started, and run() is about to start the other two.
Init ==
    /\ stopPc = "running"
    /\ session = [k \in Session |-> IF k = "manual" THEN "started" ELSE "off"]
    /\ sessionStopped = [k \in Session |-> k # "manual"]
    /\ notify = {"manual"}
    /\ pendingHandshake = {}
    /\ pendingClose = {}
    /\ toStop = {}
    /\ pc = [c \in Slot |-> "idle"]
    /\ result = [c \in Slot |-> "success"]
    /\ authority = [c \in Slot |-> NoAuthority]
    /\ halted = [c \in Slot |-> TRUE]
    /\ subscribed = {}
    /\ posted = {}
    /\ attempts = [c \in Slot |-> ManualAttemptLimit]
    /\ caller = [c \in Slot |-> "held"]

-----------------------------------------------------------------------------
(* The start of the inbound and outbound sessions, in the order of run().   *)

\* session::start(): the stopped() guard and the clearing of stopped_.
SessionStart(k) ==
    /\ session[k] = "off"
    /\ k = "outbound" => session["inbound"] = "started"
    /\ session' = [session EXCEPT ![k] = "starting"]
    /\ sessionStopped' = [sessionStopped EXCEPT ![k] = FALSE]
    /\ UNCHANGED <<netVars, pendingVars, pc, result, channelVars, manualVars>>

\* session::start(): a stopped stop_subscriber_ invokes handle_stop at once.
SessionSubscribe(k) ==
    /\ session[k] = "starting"
    /\ session' = [session EXCEPT ![k] = "subscribed"]
    /\ \/ /\ SubscriberStopped
          /\ sessionStopped' = [sessionStopped EXCEPT ![k] = TRUE]
          /\ notify' = notify
       \/ /\ ~SubscriberStopped
          /\ notify' = notify \cup {k}
          /\ sessionStopped' = sessionStopped
    /\ UNCHANGED <<stopPc, toStop, pendingVars, pc, result, channelVars, manualVars>>

\* handle_started(): the outbound session opens its connection cycles.
SessionStarted(k) ==
    /\ session[k] = "subscribed"
    /\ session' = [session EXCEPT ![k] = "started"]
    /\ pc' = [c \in Slot |-> IF k = "outbound" /\ c \in Outbound THEN "new" ELSE pc[c]]
    /\ UNCHANGED <<netVars, sessionStopped, pendingVars, result, channelVars, manualVars>>

-----------------------------------------------------------------------------
(* Connecting.                                                              *)

\* A mutant of NewConnection: the stopped() test is dropped.
NewConnectionUnguarded(c) ==
    /\ c \in Outbound
    /\ pc[c] = "new"
    /\ pc' = [pc EXCEPT ![c] = "connect"]
    /\ UNCHANGED <<netVars, sessionVars, pendingVars, result, channelVars, manualVars>>

\* session_outbound::new_connection().
NewConnection(c) ==
    /\ c \in Outbound
    /\ pc[c] = "new"
    /\ pc' = [pc EXCEPT ![c] = IF Stopped(c) THEN "ended" ELSE "connect"]
    /\ UNCHANGED <<netVars, sessionVars, pendingVars, result, channelVars, manualVars>>

\* p2p::connect(): the stopped() guard, before manual_ is loaded.
ManualConnect(c) ==
    /\ c \in Manual
    /\ pc[c] = "idle"
    /\ pc' = [pc EXCEPT ![c] = IF NetStopped THEN "ended" ELSE "request"]
    /\ caller' = [caller EXCEPT ![c] = IF NetStopped THEN "called" ELSE @]
    /\ UNCHANGED <<netVars, sessionVars, pendingVars, result, channelVars, attempts>>

\* p2p::connect(): manual_ is loaded, and may be null by now.
ManualLoad(c) ==
    /\ pc[c] = "request"
    /\ pc' = [pc EXCEPT ![c] = IF ManualCleared THEN "ended" ELSE "dial"]
    /\ caller' = [caller EXCEPT ![c] = IF ManualCleared THEN "dropped" ELSE @]
    /\ UNCHANGED <<netVars, sessionVars, pendingVars, result, channelVars, attempts>>

\* The connect sequence of slot c ends: the caller's handler is invoked, if
\* the cycle still carries it (later cycles carry the `unhandled' lambda).
Call(c) == [caller EXCEPT ![c] = IF @ = "held" THEN "called" ELSE @]

FloorSubtract(n) == IF n = 0 THEN 0 ELSE n - 1

\* session_manual::start_connect().
StartConnect(c) ==
    /\ pc[c] = "dial"
    /\ \/ /\ Stopped(c)
          /\ pc' = [pc EXCEPT ![c] = "ended"]
          /\ caller' = Call(c)
          /\ attempts' = attempts
       \/ /\ ~Stopped(c)
          /\ pc' = [pc EXCEPT ![c] = "connect"]
          /\ attempts' = [attempts EXCEPT ![c] = FloorSubtract(@)]
          /\ caller' = caller
    /\ UNCHANGED <<netVars, sessionVars, pendingVars, result, channelVars>>

\* handle_connect() with an error: retry after a delay, which is the time the
\* slot spends in "new" or "dial", or give up a manual connection.
ConnectFailed(c) ==
    /\ pc[c] = "connect"
    /\ LET remaining == IF ManualAttemptLimit = 0 THEN 1 ELSE attempts[c]
       IN  \/ /\ c \in Outbound
              /\ pc' = [pc EXCEPT ![c] = "new"]
              /\ UNCHANGED manualVars
           \/ /\ c \in Manual
              /\ remaining > 0
              /\ pc' = [pc EXCEPT ![c] = "dial"]
              /\ attempts' = [attempts EXCEPT ![c] = remaining]
              /\ caller' = caller
           \/ /\ c \in Manual
              /\ remaining = 0
              /\ pc' = [pc EXCEPT ![c] = "ended"]
              /\ caller' = Call(c)
              /\ attempts' = attempts
    /\ UNCHANGED <<netVars, sessionVars, pendingVars, result, channelVars>>

\* A channel object: proxy's stopped_ is set and nothing is subscribed.  A
\* later connect() of a manual slot has all of its attempts again.
NewChannel(c, a) ==
    /\ authority' = [authority EXCEPT ![c] = a]
    /\ halted' = [halted EXCEPT ![c] = TRUE]
    /\ pc' = [pc EXCEPT ![c] = "register"]
    /\ attempts' = [attempts EXCEPT ![c] = ManualAttemptLimit]
    /\ UNCHANGED <<subscribed, posted>>

\* handle_connect() of the outbound and manual sessions, without an error.
ConnectSucceeded(c, a) ==
    /\ pc[c] = "connect"
    /\ NewChannel(c, a)
    /\ UNCHANGED <<netVars, sessionVars, pendingVars, result, caller>>

\* session_inbound::handle_accept(): a stopped session, a blacklisted address
\* or a full connection count drops the channel, which changes nothing here.
HandleAccept(c, a) ==
    /\ c \in Inbound
    /\ pc[c] = "idle"
    /\ session["inbound"] = "started"
    /\ ~Stopped(c)
    /\ Cardinality(pendingClose) < ConnectionLimit
    /\ NewChannel(c, a)
    /\ UNCHANGED <<netVars, sessionVars, pendingVars, result, caller>>

-----------------------------------------------------------------------------
(* The registration sequence.                                               *)

\* A mutant of HandleChannelStop: a channel that failed to start is not
\* followed by another connect.
HandleChannelStopGivesUp(c, ec) ==
    /\ pc' = [pc EXCEPT ![c] = IF c \in Inbound THEN "idle"
                               ELSE IF ec # "success" THEN "ended"
                               ELSE IF c \in Outbound THEN "new" ELSE "dial"]
    /\ authority' = [authority EXCEPT ![c] = NoAuthority]
    /\ result' = [result EXCEPT ![c] = "success"]

\* A mutant of HandleChannelStop: only a failed start connects again.
HandleChannelStopOnce(c, ec) ==
    /\ pc' = [pc EXCEPT ![c] = IF c \in Inbound THEN "idle"
                               ELSE IF ec = "success" THEN "ended"
                               ELSE IF c \in Outbound THEN "new" ELSE "dial"]
    /\ authority' = [authority EXCEPT ![c] = NoAuthority]
    /\ result' = [result EXCEPT ![c] = "success"]

\* handle_channel_stop() of the session: outbound and manual connect again,
\* unless the manual address is in use.  The slot has no channel until then.
HandleChannelStop(c, ec) ==
    /\ pc' = [pc EXCEPT ![c] = IF c \in Outbound THEN "new"
                               ELSE IF c \in Inbound THEN "idle"
                               ELSE IF ec = "address_in_use" THEN "ended" ELSE "dial"]
    /\ authority' = [authority EXCEPT ![c] = NoAuthority]
    /\ result' = [result EXCEPT ![c] = "success"]

\* handle_channel_start() with an error returns without calling the caller's
\* handler, and handle_channel_stop() has gone on without it.
HandleChannelStartFailed(c) ==
    caller' = [caller EXCEPT ![c] = IF c \in Manual /\ @ = "held" THEN "dropped" ELSE @]

\* proxy::stop(): nothing more is subscribed, what is subscribed is posted.
StopChannel(c) ==
    /\ halted' = [halted EXCEPT ![c] = TRUE]
    /\ posted' = posted \cup (subscribed \cap {c})
    /\ subscribed' = subscribed \ {c}

\* session::register_channel().
RegisterChannel(c) ==
    /\ pc[c] = "register"
    /\ \/ /\ Stopped(c)
          /\ HandleChannelStartFailed(c)
          /\ HandleChannelStop(c, "service_stopped")
       \/ /\ ~Stopped(c)
          /\ pc' = [pc EXCEPT ![c] = IF c \in Outbound THEN "pend" ELSE "start"]
          /\ UNCHANGED <<authority, result, caller>>
    /\ UNCHANGED <<netVars, sessionVars, pendingVars, halted, subscribed, posted, attempts>>

\* session_outbound::start_channel().
PendChannel(c) ==
    /\ pc[c] = "pend"
    /\ \/ /\ HandshakesRefused
          /\ pc' = [pc EXCEPT ![c] = "unpend"]
          /\ result' = [result EXCEPT ![c] = "service_stopped"]
          /\ UNCHANGED pendingHandshake
       \/ /\ ~HandshakesRefused
          /\ pendingHandshake' = pendingHandshake \cup {c}
          /\ pc' = [pc EXCEPT ![c] = "start"]
          /\ UNCHANGED result
    /\ UNCHANGED <<netVars, sessionVars, pendingClose, channelVars, manualVars>>

\* session::start_channel() and proxy::start(): a channel that has been
\* stopped while it was pended is started like a new one.
StartChannel(c) ==
    /\ pc[c] = "start"
    /\ halted' = [halted EXCEPT ![c] = FALSE]
    /\ pc' = [pc EXCEPT ![c] = "handshake"]
    /\ UNCHANGED <<netVars, sessionVars, pendingVars, result, authority,
                   subscribed, posted, manualVars>>

\* A mutant of Started: a failed registration is not unpended.
StartedUnpendsSuccess(c, ec) ==
    /\ result' = [result EXCEPT ![c] = ec]
    /\ pc' = [pc EXCEPT ![c] = IF c \in Outbound /\ ec = "success" THEN "unpend" ELSE "begin"]

\* The registration of slot c goes on with code ec: an outbound channel is
\* unpended before handle_start() has the code.
Started(c, ec) ==
    /\ result' = [result EXCEPT ![c] = ec]
    /\ pc' = [pc EXCEPT ![c] = IF c \in Outbound THEN "unpend" ELSE "begin"]

\* handle_handshake() with an error: the timer, the peer or a stop ended it.
HandshakeFailed(c) ==
    /\ pc[c] = "handshake"
    /\ Started(c, "channel_stopped")
    /\ UNCHANGED <<netVars, sessionVars, pendingVars, channelVars, manualVars>>

\* handle_handshake() without an error.
HandshakeSucceeded(c) ==
    /\ pc[c] = "handshake"
    /\ ~halted[c]
    /\ pc' = [pc EXCEPT ![c] = "store"]
    /\ UNCHANGED <<netVars, sessionVars, pendingVars, result, channelVars, manualVars>>

\* session_inbound::handshake_complete(): the peer's nonce is that of a pended
\* outbound channel.
RejectLoopback(c) ==
    /\ pc[c] = "store"
    /\ c \in Inbound
    /\ pendingHandshake # {}
    /\ Started(c, "accept_failed")
    /\ UNCHANGED <<netVars, sessionVars, pendingVars, channelVars, manualVars>>

\* A mutant of StoreCode: no test of the stop.
StoreCodeUnstopped(c) ==
    IF \E d \in pendingClose : authority[d] = authority[c] THEN "address_in_use" ELSE "success"

\* The code of pending_close_.store(channel, match) in p2p::store().
StoreCode(c) ==
    IF ClosesRefused THEN "service_stopped"
    ELSE IF \E d \in pendingClose : authority[d] = authority[c] THEN "address_in_use"
    ELSE "success"

\* session::handshake_complete() and p2p::store().
StoreChannel(c) ==
    /\ pc[c] = "store"
    /\ pendingClose' = IF StoreCode(c) = "success" THEN pendingClose \cup {c}
                       ELSE pendingClose
    /\ Started(c, StoreCode(c))
    /\ UNCHANGED <<netVars, sessionVars, pendingHandshake, channelVars, manualVars>>

\* session_outbound::do_unpend().
UnpendChannel(c) ==
    /\ pc[c] = "unpend"
    /\ pendingHandshake' = pendingHandshake \ {c}
    /\ pc' = [pc EXCEPT ![c] = "begin"]
    /\ UNCHANGED <<netVars, sessionVars, pendingClose, result, channelVars, manualVars>>

\* session::handle_start() with an error.
HandleStartFailed(c) ==
    /\ pc[c] = "begin"
    /\ result[c] # "success"
    /\ StopChannel(c)
    /\ HandleChannelStop(c, result[c])
    /\ HandleChannelStartFailed(c)
    /\ UNCHANGED <<netVars, sessionVars, pendingVars, attempts>>

\* A mutant of HandleStart: a subscription to a stopped channel is only stored.
HandleStartUnnotified(c) ==
    /\ pc[c] = "begin"
    /\ result[c] = "success"
    /\ caller' = Call(c)
    /\ subscribed' = subscribed \cup {c}
    /\ pc' = [pc EXCEPT ![c] = "open"]
    /\ UNCHANGED <<netVars, sessionVars, pendingVars, result, authority, halted, posted, attempts>>

\* session::handle_start() without an error: the stop subscriber of a channel
\* that has stopped since invokes handle_remove() at once.
HandleStart(c) ==
    /\ pc[c] = "begin"
    /\ result[c] = "success"
    /\ caller' = Call(c)
    /\ \/ /\ ~halted[c]
          /\ subscribed' = subscribed \cup {c}
          /\ pc' = [pc EXCEPT ![c] = "open"]
          /\ UNCHANGED <<pendingClose, authority, result>>
       \/ /\ halted[c]
          /\ pendingClose' = pendingClose \ {c}
          /\ HandleChannelStop(c, "success")
          /\ UNCHANGED subscribed
    /\ UNCHANGED <<netVars, sessionVars, pendingHandshake, halted, posted, attempts>>

\* session::handle_remove(), posted by the stop of the channel.
HandleRemove(c) ==
    /\ c \in posted
    /\ posted' = posted \ {c}
    /\ pendingClose' = pendingClose \ {c}
    /\ HandleChannelStop(c, "success")
    /\ UNCHANGED <<netVars, sessionVars, pendingHandshake, halted, subscribed, manualVars>>

\* A started channel stops of itself: a failed read or write, a protocol or
\* one of its timers calls proxy::stop().
ChannelStops(c) ==
    /\ ~halted[c]
    /\ StopChannel(c)
    /\ UNCHANGED <<netVars, sessionVars, pendingVars, pc, result, authority, manualVars>>

-----------------------------------------------------------------------------
(* p2p::stop(), one stage per step.                                         *)

\* The stages that only move on: stopped_ and manual_ are set, the subscriber
\* is stopped, it has notified everyone, the copied channels are all stopped.
\* The subscribers to new connections are notified and the thread pool shut
\* down as well; neither touches this state (for the pool see Startup).
StopProceeds ==
    /\ \/ stopPc = "running" /\ stopPc' = "clear_manual"
       \/ stopPc = "clear_manual" /\ stopPc' = "stop_subscriber"
       \/ stopPc = "stop_subscriber" /\ stopPc' = "notify"
       \/ stopPc = "notify" /\ notify = {} /\ stopPc' = "pending_handshake"
       \/ stopPc = "stop_handshakes" /\ toStop = {} /\ stopPc' = "pending_close"
       \/ stopPc = "stop_closes" /\ toStop = {} /\ stopPc' = "stopped"
    /\ UNCHANGED <<notify, toStop, sessionVars, pendingVars, pc, result,
                   channelVars, manualVars>>

\* stop_subscriber_->invoke() calls session::handle_stop().
StopSession(k) ==
    /\ stopPc = "notify"
    /\ k \in notify
    /\ notify' = notify \ {k}
    /\ sessionStopped' = [sessionStopped EXCEPT ![k] = TRUE]
    /\ UNCHANGED <<stopPc, toStop, session, pendingVars, pc, result,
                   channelVars, manualVars>>

\* pending_handshake_.stop() and pending_close_.stop(): refuse from now on, and
\* copy the channels to be stopped outside of the lock.
StopPending ==
    /\ \/ stopPc = "pending_handshake" /\ stopPc' = "stop_handshakes" /\ toStop' = pendingHandshake
       \/ stopPc = "pending_close" /\ stopPc' = "stop_closes" /\ toStop' = pendingClose
    /\ UNCHANGED <<notify, sessionVars, pendingVars, pc, result, channelVars, manualVars>>

\* The stop of one copied channel.
StopPended(c) ==
    /\ c \in toStop
    /\ toStop' = toStop \ {c}
    /\ StopChannel(c)
    /\ UNCHANGED <<stopPc, notify, sessionVars, pendingVars, pc, result, authority, manualVars>>

-----------------------------------------------------------------------------
StopNetwork == StopProceeds \/ StopPending \/ (\E k \in Session : StopSession(k))
                   \/ (\E c \in Slot : StopPended(c))

\* What the thread of slot c does when it is scheduled; its connector and its
\* handshake are bounded by timers.
Proceed(c) ==
    \/ NewConnection(c) \/ ManualLoad(c) \/ StartConnect(c)
    \/ ConnectFailed(c) \/ (\E a \in Authority : ConnectSucceeded(c, a))
    \/ RegisterChannel(c) \/ PendChannel(c) \/ StartChannel(c)
    \/ HandshakeFailed(c) \/ HandshakeSucceeded(c)
    \/ RejectLoopback(c) \/ StoreChannel(c) \/ UnpendChannel(c)
    \/ HandleStartFailed(c) \/ HandleStart(c) \/ HandleRemove(c)

StartSessions == \E k \in Session : SessionStart(k) \/ SessionSubscribe(k) \/ SessionStarted(k)

Next ==
    \/ StartSessions
    \/ StopNetwork
    \/ \E c \in Slot : Proceed(c) \/ ManualConnect(c) \/ ChannelStops(c)
                          \/ (\E a \in Authority : HandleAccept(c, a))

Spec == Init /\ [][Next]_vars

\* p2p::stop() runs once called (its first step is not fair), threads are
\* scheduled, connects and handshakes end by their timers.
FairSpec ==
    /\ Spec
    /\ WF_vars(StartSessions)
    /\ WF_vars(NetStopped /\ StopNetwork)
    /\ \A c \in Slot : WF_vars(Proceed(c))

-----------------------------------------------------------------------------
\* The state of the network has the shape of the code's.
TypeOK ==
    /\ stopPc \in StopStages
    /\ session \in [Session -> {"off", "starting", "subscribed", "started"}]
    /\ sessionStopped \in [Session -> BOOLEAN]
    /\ notify \subseteq Session
    /\ pendingHandshake \subseteq Slot
    /\ pendingClose \subseteq Slot
    /\ toStop \subseteq Slot
    /\ pc \in [Slot -> PcValues]
    /\ result \in [Slot -> {"success", "service_stopped", "channel_stopped",
                            "accept_failed", "address_in_use"}]
    /\ authority \in [Slot -> Authority \cup {NoAuthority}]
    /\ halted \in [Slot -> BOOLEAN]
    /\ subscribed \subseteq Slot
    /\ posted \subseteq Slot
    /\ attempts \in [Slot -> Nat]
    /\ caller \in [Slot -> {"held", "called", "dropped"}]

\* No two open connections have the same address (p2p::store()), whatever
\* the sessions and threads that store, stop and remove them.
UniqueAuthority ==
    \A c, d \in pendingClose : authority[c] = authority[d] => c = d

\* A channel of pending_close_ is never forgotten there: either the thread that
\* stored it has yet to subscribe handle_remove(), or handle_remove() waits for
\* the stop of a running channel, or a stop has posted it.
StoredIsReclaimed ==
    \A c \in pendingClose :
        \/ pc[c] \in {"unpend", "begin"} /\ result[c] = "success"
        \/ pc[c] = "open" /\ c \in subscribed /\ ~halted[c]
        \/ pc[c] = "open" /\ c \in posted

\* Once p2p::stop() has returned every open connection is stopped, although
\* registrations went on while it ran.
OpenConnectionsStopped ==
    stopPc = "stopped" => \A c \in pendingClose : halted[c]

\* The outbound session keeps the configured number of connection cycles until
\* it is stopped: no failure, stop or rejection of a channel loses a cycle.
OutboundCyclesKept ==
    session["outbound"] = "started" /\ ~sessionStopped["outbound"]
        => \A c \in Outbound : pc[c] \notin {"idle", "ended"}

\* A channel waits in pending_handshake_ only while its registration runs, so
\* the loopback test of session_inbound never matches a finished handshake.
PendedWhileRegistering ==
    \A c \in pendingHandshake : pc[c] \in {"start", "handshake", "store", "unpend"}

-----------------------------------------------------------------------------
\* The connection table as its users see it.
Table == {<<c, authority[c]>> : c \in pendingClose}
Ended == {c \in pendingClose : halted[c]}
Phase == IF stopPc = "stopped" THEN "closed" ELSE IF ClosesRefused THEN "refusing" ELSE "open"

R == INSTANCE Registry WITH table <- Table, ended <- Ended, phase <- Phase

\* The registrations, removals and stops of the sessions, and p2p::stop(), keep
\* the promise of the connection table (module Registry) however they
\* interleave.
ImplementsRegistry == R!Spec

\* The collections are self-clearing: once p2p::stop() has returned nothing is
\* added to them.
NothingStoredAfterStop ==
    [][stopPc = "stopped" => /\ pendingClose' \subseteq pendingClose
                             /\ pendingHandshake' \subseteq pendingHandshake]_vars

\* A manual connection is maintained: its cycle ends only when the network has
\* stopped, its attempts are used up, or its address was found in use.
ManualMaintained ==
    [][\A c \in Manual : pc[c] # "ended" /\ pc'[c] = "ended" =>
            \/ NetStopped
            \/ ManualAttemptLimit > 0 /\ attempts[c] = 0
            \/ result[c] = "address_in_use"]_vars

Quiet(c) == pc[c] \in {"idle", "ended"} /\ c \notin pendingClose \cup pendingHandshake \cup posted

\* After p2p::stop() all connections and registrations end, so that the join of
\* p2p::close() returns.
Drains == (stopPc = "stopped") ~> (\A c \in Slot : Quiet(c))

\* An outbound connection that stops is replaced by a new connect, unless the
\* session stops.
OutboundReplaced ==
    \A c \in Outbound :
        (pc[c] = "open" /\ halted[c]) ~> (pc[c] = "connect" \/ sessionStopped["outbound"])

-----------------------------------------------------------------------------
\* p2p.hpp: the callback of connect() is invoked by the first connection
\* creation, so no manual connection is open whose caller was not told.
FirstConnectionReported ==
    \A c \in Manual : pc[c] = "open" => caller[c] = "called"
==============================================================================
