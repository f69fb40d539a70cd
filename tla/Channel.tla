------------------------------- MODULE Channel -------------------------------
(***************************************************************************)
(* One channel: the start, read and stop sequences of proxy.cpp, the       *)
(* timers of channel.cpp and the subscribers of message_subscriber.cpp.    *)
(*                                                                         *)
(* proxy::stop() is neither locked nor guarded.  It is called by the       *)
(* reader, by either timer, by the session that owns the channel, by its   *)
(* protocols and by p2p::stop(), on different threads, and each call runs  *)
(* all of its steps.  The call of p2p::stop() may even precede or overlap  *)
(* the start, because an outbound channel is pended before it is started.  *)
(*                                                                         *)
(* Each type of message has a subscriber of its own; they start and stop   *)
(* together and one of them, "message", stands for them all.               *)
(***************************************************************************)
EXTENDS Naturals, FiniteSets, Sequences

CONSTANTS
    MessageHandlers,    \* handlers given to subscribe() for a type of message
    StopHandlers,       \* handlers given to subscribe_stop()
    MaxReceived,        \* bound: messages read from the peer
    MaxStops            \* bound: calls of stop() on the started channel

ASSUME ChannelAssumption ==
    /\ MessageHandlers \cap StopHandlers = {}
    /\ MaxReceived \in Nat /\ MaxStops \in Nat \ {0}

VARIABLES
    stopped,        \* proxy's stopped_
    running,        \* the subscribers that store handlers
    socketStopped,  \* socket_->stop() was called
    starting,       \* the next step of channel::start()
    stage,          \* the next step of each call of proxy::stop()
    stored,         \* the handlers that a subscriber holds
    told,           \* how often each handler was invoked with channel_stopped
    heard,          \* how many messages each handler was invoked with
    received,       \* the number of messages that were loaded
    jobs,           \* each subscriber's relayed invocations, in order
    reader,         \* the next step of the read cycle
    armed,          \* the timers that run
    due             \* the timers whose expired callback is queued

flagVars == <<stopped, running, socketStopped>>
handlerVars == <<stored, told, heard>>
messageVars == <<received, jobs>>
timerVars == <<armed, due>>
vars == <<flagVars, starting, stage, handlerVars, messageVars, reader, timerVars>>

Subscribers == {"message", "stop"}
Timers == {"expiration", "inactivity"}

\* The calls of proxy::stop(): that of p2p::stop() through pending_handshake_,
\* and those on the started channel, in the order in which they are made.
P2pCall == 0
StartedCalls == 1..MaxStops
Calls == {P2pCall} \cup StartedCalls

Handlers == MessageHandlers \cup StopHandlers
HandlersOf(s) == IF s = "message" THEN MessageHandlers ELSE StopHandlers
SubscriberOf(h) == IF h \in MessageHandlers THEN "message" ELSE "stop"

StartStages == {"new", "stop_subscriber", "message_subscriber", "test_expiration",
                "start_expiration", "test_inactivity", "start_inactivity", "handler",
                "read", "done"}
StopStages == {"idle", "flag", "message_stop", "broadcast", "subscriber_stop", "relay",
               "timers", "socket", "done"}
ReadStages == {"off", "read_heading", "heading", "read_payload", "payload", "load",
               "signal", "restart"}

\* A constructed channel: the proxy is stopped, the subscribers are not started.
Init ==
    /\ stopped = TRUE
    /\ running = {}
    /\ socketStopped = FALSE
    /\ starting = "new"
    /\ stage = [n \in Calls |-> "idle"]
    /\ stored = {}
    /\ told = [h \in Handlers |-> 0]
    /\ heard = [h \in MessageHandlers |-> 0]
    /\ received = 0
    /\ jobs = [s \in Subscribers |-> <<>>]
    /\ reader = "off"
    /\ armed = {}
    /\ due = {}

\* A thread of the started channel enters proxy::stop().
CallStop ==
    \E n \in StartedCalls :
        /\ stage[n] = "idle"
        /\ \A k \in 1..(n - 1) : stage[k] # "idle"
        /\ stage' = [stage EXCEPT ![n] = "flag"]

-----------------------------------------------------------------------------
(* The subscribers.                                                         *)

\* A mutant of Subscribe: the handlers are invoked at once and stored as well.
SubscribeTwice(s, new) ==
    /\ stored' = stored \cup new
    /\ told' = [h \in Handlers |-> IF h \in new /\ s \notin running THEN told[h] + 1 ELSE told[h]]

\* subscribe() of subscriber s with the handlers in new: a subscriber that is
\* stopped invokes them at once.
Subscribe(s, new) ==
    /\ stored' = IF s \in running THEN stored \cup new ELSE stored
    /\ told' = [h \in Handlers |-> IF h \in new /\ s \notin running THEN told[h] + 1 ELSE told[h]]

\* The message handlers are invoked with a message, and stay.
Deliver ==
    heard' = [h \in MessageHandlers |-> IF h \in stored THEN heard[h] + 1 ELSE heard[h]]

\* The handlers that s holds are invoked with channel_stopped, and leave.
Release(s) ==
    /\ told' = [h \in Handlers |-> IF h \in stored \cap HandlersOf(s) THEN told[h] + 1
                                   ELSE told[h]]
    /\ stored' = stored \ HandlersOf(s)

\* A relayed invocation of subscriber s runs.
RunJob(s) ==
    /\ jobs[s] # <<>>
    /\ jobs' = [jobs EXCEPT ![s] = Tail(@)]
    /\ \/ Head(jobs[s]) = "message" /\ Deliver /\ UNCHANGED <<stored, told>>
       \/ Head(jobs[s]) = "stopped" /\ Release(s) /\ UNCHANGED heard
    /\ UNCHANGED <<flagVars, starting, stage, received, reader, timerVars>>

\* message_subscriber::start(), stop() and broadcast(), of all types of message.
MessageStart == running' = running \cup {"message"}
MessageStop == running' = running \ {"message"}
Broadcast == jobs' = [jobs EXCEPT !["message"] = Append(@, "stopped")]

\* A protocol or the session subscribes to the stop, once it has the channel.
SubscribeStop(h) ==
    /\ h \in StopHandlers \ stored
    /\ told[h] = 0
    /\ starting \in {"handler", "read", "done"}
    /\ Subscribe("stop", {h})
    /\ UNCHANGED <<flagVars, starting, stage, heard, messageVars, reader, timerVars>>

-----------------------------------------------------------------------------
(* channel::start().                                                        *)

\* Mutants of NextStart: the read cycle starts before the start handler has
\* subscribed; the expiration timer is not started.
NextStartReadsFirst == [new |-> "stop_subscriber", stop_subscriber |-> "message_subscriber",
    message_subscriber |-> "test_expiration", start_expiration |-> "test_inactivity",
    start_inactivity |-> "read", handler |-> "done", read |-> "handler"]

NextStartUntimed == [new |-> "stop_subscriber", stop_subscriber |-> "message_subscriber",
    message_subscriber |-> "test_inactivity", start_expiration |-> "test_inactivity",
    start_inactivity |-> "handler", handler |-> "read", read |-> "done"]

\* The order of proxy::start() and of channel::do_start(), which it calls.
NextStart == [new |-> "stop_subscriber", stop_subscriber |-> "message_subscriber",
    message_subscriber |-> "test_expiration", start_expiration |-> "test_inactivity",
    start_inactivity |-> "handler", handler |-> "read", read |-> "done"]

Started(step) == starting = step /\ starting' = NextStart[step]

\* proxy::start(): the flag and the two kinds of subscribers, one at a time.
StartProxy ==
    /\ \/ /\ Started("new")
          /\ stopped' = FALSE
          /\ running' = running
       \/ /\ Started("stop_subscriber")
          /\ running' = running \cup {"stop"}
          /\ stopped' = stopped
       \/ /\ Started("message_subscriber")
          /\ MessageStart
          /\ stopped' = stopped
    /\ UNCHANGED <<socketStopped, stage, handlerVars, messageVars, reader, timerVars>>

\* start_expiration() and start_inactivity(): the test of stopped().
TestTimer ==
    /\ \/ /\ starting = "test_expiration"
          /\ starting' = IF stopped THEN "test_inactivity" ELSE "start_expiration"
       \/ /\ starting = "test_inactivity"
          /\ starting' = IF stopped THEN NextStart["start_inactivity"] ELSE "start_inactivity"
    /\ UNCHANGED <<flagVars, stage, handlerVars, messageVars, reader, timerVars>>

\* The timer is started although the channel may have stopped since the test.
StartTimer ==
    /\ \/ Started("start_expiration") /\ armed' = armed \cup {"expiration"}
       \/ Started("start_inactivity") /\ armed' = armed \cup {"inactivity"}
    /\ UNCHANGED <<flagVars, stage, handlerVars, messageVars, reader, due>>

\* The start handler attaches the handshake, which subscribes to messages.
StartHandler ==
    /\ Started("handler")
    /\ Subscribe("message", MessageHandlers)
    /\ UNCHANGED <<flagVars, stage, heard, messageVars, reader, timerVars>>

\* The last step of proxy::start().
StartRead ==
    /\ Started("read")
    /\ reader' = "read_heading"
    /\ UNCHANGED <<flagVars, stage, handlerVars, messageVars, timerVars>>

-----------------------------------------------------------------------------
(* The read cycle.                                                          *)

\* read_heading() and read_payload(): nothing is read from a stopped channel.
Read ==
    /\ \/ reader = "read_heading" /\ reader' = IF stopped THEN "off" ELSE "heading"
       \/ reader = "read_payload" /\ reader' = IF stopped THEN "off" ELSE "payload"
    /\ UNCHANGED <<flagVars, starting, stage, handlerVars, messageVars, timerVars>>

\* handle_read_heading() and handle_read_payload(), up to the load: a failed
\* read, and an invalid heading or checksum, stop the channel.  A read on a
\* stopped socket fails.
HandleRead ==
    /\ reader \in {"heading", "payload"}
    /\ \/ /\ stopped
          /\ reader' = "off"
          /\ stage' = stage
       \/ /\ ~stopped
          /\ reader' = "off"
          /\ CallStop
       \/ /\ ~stopped
          /\ ~socketStopped
          /\ received < MaxReceived
          /\ reader' = IF reader = "heading" THEN "read_payload" ELSE "load"
          /\ stage' = stage
    /\ UNCHANGED <<flagVars, starting, handlerVars, messageVars, timerVars>>

\* message_subscriber::load(): six types of message are handled on the spot,
\* the others are relayed.
LoadMessage ==
    /\ received' = received + 1
    /\ \/ Deliver /\ jobs' = jobs
       \/ jobs' = [jobs EXCEPT !["message"] = Append(@, "message")] /\ heard' = heard

\* handle_read_payload(): the message is loaded before the trailing bytes of
\* an invalid one are noticed; one that does not parse is not forwarded.
Load ==
    /\ reader = "load"
    /\ \/ /\ reader' = "off"
          /\ CallStop
          /\ UNCHANGED <<messageVars, heard>>
       \/ /\ LoadMessage
          /\ \/ reader' = "signal" /\ stage' = stage
             \/ reader' = "off" /\ CallStop
    /\ UNCHANGED <<flagVars, starting, stored, told, timerVars>>

\* signal_activity(): start_inactivity() tests stopped() and then restarts the
\* timer; the cycle goes on to the next heading.
SignalActivity ==
    /\ \/ /\ reader = "signal"
          /\ reader' = IF stopped THEN "read_heading" ELSE "restart"
          /\ armed' = armed
       \/ /\ reader = "restart"
          /\ reader' = "read_heading"
          /\ armed' = armed \cup {"inactivity"}
    /\ UNCHANGED <<flagVars, starting, stage, handlerVars, messageVars, due>>

-----------------------------------------------------------------------------
(* The timers.                                                              *)

\* A timer's wait ends and its callback is queued.
TimerExpires(k) ==
    /\ k \in armed \ due
    /\ armed' = armed \ {k}
    /\ due' = due \cup {k}
    /\ UNCHANGED <<flagVars, starting, stage, handlerVars, messageVars, reader>>

\* A mutant of HandleTimer: the code of an expired wait is taken for a stop.
HandleTimerIgnored(k) ==
    /\ k \in due
    /\ due' = due \ {k}
    /\ UNCHANGED <<flagVars, starting, stage, handlerVars, messageVars, reader, armed>>

\* handle_expiration() and handle_inactivity().
HandleTimer(k) ==
    /\ k \in due
    /\ due' = due \ {k}
    /\ \/ stopped /\ stage' = stage
       \/ ~stopped /\ CallStop
    /\ UNCHANGED <<flagVars, starting, handlerVars, messageVars, reader, armed>>

-----------------------------------------------------------------------------
(* proxy::stop().                                                           *)

\* The session, or a protocol, stops the started channel.
SessionStops ==
    /\ starting = "done"
    /\ CallStop
    /\ UNCHANGED <<flagVars, starting, handlerVars, messageVars, reader, timerVars>>

\* p2p::stop() stops the channel, which may not be started yet.
NetworkStops ==
    /\ stage[P2pCall] = "idle"
    /\ stage' = [stage EXCEPT ![P2pCall] = "flag"]
    /\ UNCHANGED <<flagVars, starting, handlerVars, messageVars, reader, timerVars>>

\* A mutant of NextStop: stop() relays before it stops the subscriber.
NextStopRelaysFirst == [flag |-> "message_stop", message_stop |-> "broadcast",
    broadcast |-> "relay", relay |-> "subscriber_stop", subscriber_stop |-> "timers",
    timers |-> "socket", socket |-> "done"]

\* The order of the calls in stop().
NextStop == [flag |-> "message_stop", message_stop |-> "broadcast",
    broadcast |-> "subscriber_stop", subscriber_stop |-> "relay", relay |-> "timers",
    timers |-> "socket", socket |-> "done"]

AtStop(n, step) == stage[n] = step /\ stage' = [stage EXCEPT ![n] = NextStop[step]]

\* stopped_ is set; the message subscribers, and then the stop subscriber, take
\* no more handlers; the socket is shut down.
StopFlags(n) ==
    /\ \/ AtStop(n, "flag") /\ stopped' = TRUE /\ UNCHANGED <<running, socketStopped>>
       \/ AtStop(n, "message_stop") /\ MessageStop /\ UNCHANGED <<stopped, socketStopped>>
       \/ AtStop(n, "subscriber_stop") /\ running' = running \ {"stop"}
                                       /\ UNCHANGED <<stopped, socketStopped>>
       \/ AtStop(n, "socket") /\ socketStopped' = TRUE /\ UNCHANGED <<stopped, running>>
    /\ UNCHANGED <<starting, handlerVars, messageVars, reader, timerVars>>

\* The handlers are invoked later, in the order of the subscriber's relays.
StopRelays(n) ==
    /\ \/ AtStop(n, "broadcast")
          /\ Broadcast
       \/ AtStop(n, "relay")
          /\ jobs' = [jobs EXCEPT !["stop"] = Append(@, "stopped")]
    /\ UNCHANGED <<flagVars, starting, handlerVars, received, reader, timerVars>>

\* channel::handle_stopping().
HandleStopping(n) ==
    /\ AtStop(n, "timers")
    /\ armed' = {}
    /\ UNCHANGED <<flagVars, starting, handlerVars, messageVars, reader, due>>

-----------------------------------------------------------------------------
Start == StartProxy \/ TestTimer \/ StartTimer \/ StartHandler \/ StartRead

Stop(n) == StopFlags(n) \/ StopRelays(n) \/ HandleStopping(n)

ReadCycle == Read \/ HandleRead \/ Load \/ SignalActivity

Next ==
    \/ Start
    \/ ReadCycle
    \/ \E s \in Subscribers : RunJob(s)
    \/ \E h \in StopHandlers : SubscribeStop(h)
    \/ \E k \in Timers : TimerExpires(k) \/ HandleTimer(k)
    \/ SessionStops \/ NetworkStops
    \/ \E n \in Calls : Stop(n)

Spec == Init /\ [][Next]_vars

\* Threads run, timers expire and operations on a stopped socket end.  A peer
\* may keep an open socket's read and write waiting forever.  The session stops
\* a stopped channel at the latest when the handshake's timer expires.
Fairness ==
    /\ WF_vars(Start)
    /\ WF_vars(Read \/ Load \/ SignalActivity)
    /\ WF_vars(HandleRead /\ (stopped \/ socketStopped))
    /\ \A s \in Subscribers : WF_vars(RunJob(s))
    /\ \A k \in Timers : WF_vars(TimerExpires(k)) /\ WF_vars(HandleTimer(k))
    /\ WF_vars(SessionStops /\ stopped)
    /\ \A n \in Calls : WF_vars(Stop(n))

FairSpec == Spec /\ Fairness

-----------------------------------------------------------------------------
TypeOK ==
    /\ stopped \in BOOLEAN
    /\ running \subseteq Subscribers
    /\ socketStopped \in BOOLEAN
    /\ starting \in StartStages
    /\ stage \in [Calls -> StopStages]
    /\ stored \subseteq Handlers
    /\ told \in [Handlers -> Nat]
    /\ heard \in [MessageHandlers -> Nat]
    /\ received \in Nat
    /\ jobs \in [Subscribers -> Seq({"message", "stopped"})]
    /\ reader \in ReadStages
    /\ armed \subseteq Timers
    /\ due \subseteq Timers

\* proxy::stop() is final however many calls of it overlap: once one that was
\* made on a started channel has returned, the channel and its subscribers stay
\* stopped, and every handler that was stored is about to be told.
StopIsFinal ==
    (\E n \in StartedCalls : stage[n] = "done") =>
        /\ stopped
        /\ running = {}
        /\ socketStopped
        /\ \A h \in stored : \E i \in DOMAIN jobs[SubscriberOf(h)] :
                                 jobs[SubscriberOf(h)][i] = "stopped"

\* No handler is invoked with channel_stopped twice, although the calls of stop()
\* relay it once each and a late subscription is answered directly.
ToldOnce == \A h \in Handlers : told[h] <= 1 /\ (h \in stored => told[h] = 0)

\* An open channel that no thread is stopping ends whatever its peer does: it
\* has a read under way and both timers run, or its socket is shut down and the
\* read fails.  p2p::stop() may clear the timers and be undone by the start.
OpenIsWatched ==
    (starting = "done" /\ ~stopped /\ \A n \in StartedCalls : stage[n] # "flag") =>
        /\ reader # "off"
        /\ Timers \subseteq armed \cup due \/ stage[P2pCall] = "socket" \/ socketStopped

\* proxy::start(): "Allow for subscription before first read, so no messages are
\* missed."  A handler subscribed by the start handler has heard, or will hear
\* from the relay, every message that was loaded.
NoMessageMissed ==
    \A h \in stored \cap MessageHandlers :
        heard[h] + Cardinality({i \in DOMAIN jobs["message"] : jobs["message"][i] = "message"})
            = received

\* Whoever subscribes to the channel is told of its stop, although stops overlap
\* and a handler may subscribe during a stop.
EveryoneTold == <>[](stored = {})

\* A channel that is started ends, by its timers if by nothing else, and nothing
\* of it outlives the stop: no read, no timer (one may be started during the
\* stop) and no relayed notification.
ChannelEnds ==
    <>[] /\ stopped /\ socketStopped
         /\ reader = "off"
         /\ armed \cup due = {}
         /\ \A s \in Subscribers : jobs[s] = <<>>

\* proxy::stop(): "Prevent subscription after stop."  A channel whose start and
\* stops are complete, and that is stopped, takes no more handlers.
StoppedTakesNoHandlers ==
    (/\ stopped
     /\ starting = "done"
     /\ \A n \in Calls : stage[n] \in {"idle", "done"}) => running = {}
==============================================================================
