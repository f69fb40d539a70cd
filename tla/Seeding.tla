------------------------------- MODULE Seeding -------------------------------
(***************************************************************************)
(* The seeding of an empty address pool: session_seed.cpp connects to all  *)
(* seeds at once and joins their outcomes, and on each channel             *)
(* protocol_seed_31402.cpp asks for addresses, stores them and completes   *)
(* with the third event or with an error.  Connecting and registering a    *)
(* channel are modelled in ConnectBatch and Network; here they succeed or  *)
(* fail.                                                                   *)
(***************************************************************************)
EXTENDS Sessions, FiniteSets, FiniteSetsExt

CONSTANTS
    Seeds,              \* the seeds that may be configured
    Yields,             \* how many addresses of a message the pool may take;
                        \* zero is an empty message
    Capacity,           \* host_pool_capacity of an enabled pool
    MinimumIncrease     \* minimum_host_increase, 100 in the code

ASSUME SeedingAssumption ==
    /\ IsFiniteSet(Seeds)
    /\ Yields \subseteq Nat
    /\ Capacity \in Nat \ {0}
    /\ MinimumIncrease \in Nat \ {0}

VARIABLES
    seed,           \* the next step of each seed
    joined,         \* how often each seed called the session's join handler
    counted,        \* the calls the session's synchronizer has counted
    channel,        \* the seed's channel: "none", "open" or "stopped"
    handler,        \* the protocol's handler_ is set
    sends,          \* the protocol's sends that are under way
    successes,      \* the events its synchronizer has counted
    complete,       \* its synchronizer has fired
    timer,          \* its germination timer runs
    listening,      \* its address subscription stands
    told            \* its handle_stopped() has been invoked

eventVars == <<handler, timer, successes, complete>>
wireVars == <<channel, sends, listening, told>>
joinVars == <<joined, counted>>
seedVars == <<seed, joinVars, eventVars, wireVars>>

SeedSteps == {"idle", "start", "connect", "register", "attach", "protocol",
              "closing", "done"}
Messages == {"address", "get_address"}
StopCodes == {"channel_stopped", "service_stopped"}

InitSeeding ==
    /\ seed = [s \in Seeds |-> "idle"]
    /\ joined = [s \in Seeds |-> 0]
    /\ counted = 0
    /\ channel = [s \in Seeds |-> "none"]
    /\ handler = [s \in Seeds |-> FALSE]
    /\ sends = [s \in Seeds |-> {}]
    /\ successes = [s \in Seeds |-> 0]
    /\ complete = [s \in Seeds |-> FALSE]
    /\ timer = [s \in Seeds |-> FALSE]
    /\ listening = [s \in Seeds |-> FALSE]
    /\ told = [s \in Seeds |-> FALSE]

-----------------------------------------------------------------------------
(* session_seed.                                                            *)

\* start_seeding().
StartSeeding ==
    /\ seed' = [s \in Seeds |-> IF s \in settings.seeds THEN "start" ELSE "idle"]
    /\ UNCHANGED <<joinVars, eventVars, wireVars, sessionVars>>

\* The seed calls the join handler, which only counts, whatever the code.
JoinSeed(s) == joined' = [joined EXCEPT ![s] = @ + 1] /\ counted' = counted + 1

\* The seed goes to its step p; or it fails, which joins it.
SeedGoes(s, p) == seed' = [seed EXCEPT ![s] = p] /\ UNCHANGED joinVars
SeedFails(s) == seed' = [seed EXCEPT ![s] = "done"] /\ JoinSeed(s)

\* A mutant of StartSeed: a suspended seed is not joined.
StartSeedSuspended(s) ==
    /\ seed[s] = "start"
    /\ SeedGoes(s, IF "seed" \in live THEN "connect" ELSE "done")
    /\ UNCHANGED <<eventVars, wireVars, sessionVars>>

\* start_seed(): a stopped session joins the seed without connecting it.
StartSeed(s) ==
    /\ seed[s] = "start"
    /\ IF "seed" \in live THEN SeedGoes(s, "connect") ELSE SeedFails(s)
    /\ UNCHANGED <<eventVars, wireVars, sessionVars>>

\* handle_connect(): no connection, a blacklisted address, or a channel.
HandleConnect(s) ==
    /\ seed[s] = "connect"
    /\ SeedFails(s) \/ SeedGoes(s, "register")
    /\ UNCHANGED <<eventVars, wireVars, sessionVars>>

\* register_channel() and handle_channel_start(): the registration fails and
\* stops the channel, as it does when the session or the network is stopped,
\* or the channel is stored.
RegisterChannel(s) ==
    /\ seed[s] = "register"
    /\ \/ /\ SeedFails(s)
          /\ channel' = [channel EXCEPT ![s] = "stopped"]
       \/ /\ ~PendingStopped
          /\ SeedGoes(s, "attach")
          /\ channel' = [channel EXCEPT ![s] = "open"]
    /\ UNCHANGED <<eventVars, sends, listening, told, sessionVars>>

\* A mutant of Joined: the first seed that ends ends the seeding.
JoinedFirst == counted > 0

\* The synchronizer of start_seeding() has fired: it is cleared by the count.
Joined == counted = Cardinality(settings.seeds)

\* handle_complete(): the pool was empty when seeding began.
SeedingCode == IF hostCount >= MinimumIncrease THEN "success" ELSE "peer_throttling"

-----------------------------------------------------------------------------
(* protocol_seed_31402, with the events and the timer of its bases.         *)

\* A mutant of Fires: what comes after completion is not ignored.
FiresAgain(s, ec) == handler[s] /\ (ec # "success" \/ successes[s] = 2)

\* set_event(ec) completes the synchronizer of three events or any error.
Fires(s, ec) == handler[s] /\ ~complete[s] /\ (ec # "success" \/ successes[s] = 2)

\* handle_seeding_complete(), when the synchronizer fires: the seed is joined.
Completes(s, fires) ==
    IF fires THEN seed' = [seed EXCEPT ![s] = "closing"] /\ JoinSeed(s)
    ELSE UNCHANGED <<seed, joinVars>>

\* set_event() and handle_notify(): a stop code clears the handler and
\* channel_stopped the timer.
SetEvent(s, ec) ==
    /\ handler' = [handler EXCEPT ![s] = @ /\ ec \notin StopCodes]
    /\ timer' = [timer EXCEPT ![s] = @ /\ ~(handler[s] /\ ec = "channel_stopped")]
    /\ complete' = [complete EXCEPT ![s] = @ \/ Fires(s, ec)]
    /\ successes' = [successes EXCEPT ![s] =
                        IF handler[s] /\ ~complete[s] /\ ~Fires(s, ec) THEN @ + 1 ELSE @]
    /\ Completes(s, Fires(s, ec))

\* protocol_seed_31402::start() on an open channel: without an own address the
\* first event is set at once.
StartProtocol(s) ==
    /\ seed[s] = "attach"
    /\ channel[s] = "open"
    /\ SeedGoes(s, "protocol")
    /\ handler' = [handler EXCEPT ![s] = TRUE]
    /\ timer' = [timer EXCEPT ![s] = TRUE]
    /\ listening' = [listening EXCEPT ![s] = TRUE]
    /\ sends' = [sends EXCEPT ![s] = IF settings.self THEN Messages ELSE {"get_address"}]
    /\ successes' = [successes EXCEPT ![s] = IF settings.self THEN 0 ELSE 1]
    /\ UNCHANGED <<complete, channel, told, sessionVars>>

\* start() on a stopped channel: subscribing to the stop invokes
\* handle_stopped() at once, which completes the protocol.
StartStopped(s) ==
    /\ seed[s] = "attach"
    /\ channel[s] = "stopped"
    /\ Completes(s, TRUE)
    /\ complete' = [complete EXCEPT ![s] = TRUE]
    /\ told' = [told EXCEPT ![s] = TRUE]
    /\ sends' = [sends EXCEPT ![s] = IF settings.self THEN Messages ELSE {"get_address"}]
    /\ UNCHANGED <<handler, timer, successes, channel, listening, sessionVars>>

\* proxy::handle_send() and the send handlers.  A write fails on a stopped
\* channel, or fails and stops it; only get_address reports its failure, and
\* neither handler goes on with a stop code.
HandleSend(s, m, ec) ==
    /\ m \in sends[s]
    /\ ec = "channel_stopped" => channel[s] = "stopped"
    /\ sends' = [sends EXCEPT ![s] = @ \ {m}]
    /\ channel' = [channel EXCEPT ![s] = IF ec = "success" THEN @ ELSE "stopped"]
    /\ IF ec = "channel_stopped"
       THEN UNCHANGED <<seed, joinVars, eventVars>>
       ELSE SetEvent(s, IF m = "address" THEN "success" ELSE ec)
    /\ UNCHANGED <<listening, told, sessionVars>>

SendCodes == {"success", "bad_stream", "channel_stopped"}

\* The number of addresses after n more are stored: the pool is a circular
\* buffer of host_pool_capacity.
Stored(n) == Min({hostCount + n, Capacity})

\* handle_receive_address() and handle_store_addresses(): the addresses are
\* stored and the protocol completes, with channel_stopped; a stopped pool
\* refuses them, unless there are none, and nothing is set.  The subscription is not renewed.
ReceiveAddress(s, n) ==
    /\ listening[s]
    /\ channel[s] = "open"
    /\ listening' = [listening EXCEPT ![s] = FALSE]
    /\ \/ /\ handler[s] /\ (hostsOpen \/ n = 0)
          /\ hostCount' = Stored(n)
          /\ SetEvent(s, "channel_stopped")
       \/ /\ ~(handler[s] /\ (hostsOpen \/ n = 0))
          /\ UNCHANGED <<hostCount, seed, joinVars, eventVars>>
    /\ UNCHANGED <<channel, sends, told, settings, stopPc, subscribed, live, hostsOpen>>

\* protocol_timer::handle_timer(): the timer is not perpetual.
HandleTimer(s) ==
    /\ timer[s]
    /\ timer' = [timer EXCEPT ![s] = FALSE]
    /\ complete' = [complete EXCEPT ![s] = @ \/ Fires(s, "channel_timeout")]
    /\ Completes(s, Fires(s, "channel_timeout"))
    /\ UNCHANGED <<handler, successes, wireVars, sessionVars>>

\* A mutant of StopSeed: the channel is left open.
StopSeedOpen(s) ==
    /\ seed[s] = "closing"
    /\ SeedGoes(s, "done")
    /\ UNCHANGED <<eventVars, wireVars, sessionVars>>

\* handle_seeding_complete() stops the channel after it has joined the seed.
StopSeed(s) ==
    /\ seed[s] = "closing"
    /\ SeedGoes(s, "done")
    /\ channel' = [channel EXCEPT ![s] = "stopped"]
    /\ UNCHANGED <<eventVars, sends, listening, told, sessionVars>>

\* The channel stops of its own: by the peer or its timers, or because the
\* network stops what is registered.
ChannelStops(s) ==
    /\ channel[s] = "open"
    /\ channel' = [channel EXCEPT ![s] = "stopped"]
    /\ UNCHANGED <<seed, joinVars, eventVars, sends, listening, told, sessionVars>>

\* The protocol has a notification of its channel's stop to come.
StopDue(s) ==
    /\ channel[s] = "stopped"
    /\ seed[s] \in {"protocol", "closing", "done"}
    /\ complete[s] \/ handler[s]
    /\ ~told[s]

\* protocol_events::handle_stopped(), once per stopped channel.
HandleStopped(s) ==
    /\ StopDue(s)
    /\ told' = [told EXCEPT ![s] = TRUE]
    /\ SetEvent(s, "channel_stopped")
    /\ UNCHANGED <<channel, sends, listening, sessionVars>>

\* The seed has something queued or under way on the thread pool: a step, a
\* read, a write, a timer or a notification.
SeedBusy(s) ==
    \/ seed[s] \notin {"idle", "done"}
    \/ channel[s] = "open"
    \/ sends[s] # {}
    \/ timer[s]
    \/ StopDue(s)

\* The steps that end by themselves, and those that are up to the peer.
SeedStep(s) ==
    \/ StartSeed(s)
    \/ HandleConnect(s)
    \/ RegisterChannel(s)
    \/ StartProtocol(s)
    \/ StartStopped(s)
    \/ HandleTimer(s)
    \/ StopSeed(s)
    \/ HandleStopped(s)

PeerStep(s) ==
    \/ \E m \in Messages, ec \in SendCodes : HandleSend(s, m, ec)
    \/ \E n \in Yields : ReceiveAddress(s, n)
    \/ ChannelStops(s)
==============================================================================
