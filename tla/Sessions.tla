------------------------------- MODULE Sessions -------------------------------
(***************************************************************************)
(* What the sessions of a network share: the start of a session            *)
(* (session.cpp), which sets its stopped_ flag and subscribes to the stop  *)
(* of the network, and the steps of p2p::stop() (p2p.cpp) that end them,   *)
(* on a thread of its own.  Seeding and Inbound add their sessions and     *)
(* Startup composes them.                                                  *)
(***************************************************************************)
EXTENDS Naturals, Sequences

VARIABLES
    settings,       \* the settings read at start: see Settings
    stopPc,         \* the next step of p2p::stop()
    subscribed,     \* the handlers of p2p's stop_subscriber_, in order
    live,           \* the sessions whose stopped_ is false
    hostsOpen,      \* hosts: started and not stopped
    hostCount       \* hosts: the number of addresses

sessionVars == <<settings, stopPc, subscribed, live, hostsOpen, hostCount>>

\* Whether there is an address pool (host_pool_capacity), an own address
\* (self.port), inbound and outbound connections; and the seeds.
Settings(Seeds) == [pool : BOOLEAN, self : BOOLEAN, inbound : BOOLEAN,
                    outbound : BOOLEAN, seeds : SUBSET Seeds]

Session == {"manual", "seed", "inbound", "outbound"}

StopSteps == {"hosts", "flag", "subscriber", "notify", "pending", "shutdown", "stopped"}

\* p2p's stopped(), and a stop_subscriber_ that takes no more handlers.
NetStopped == stopPc \notin {"hosts", "flag"}
SubscriberStopped == NetStopped /\ stopPc # "subscriber"

\* The pending collections have stopped what was in them and refuse the rest.
PendingStopped == stopPc \in {"shutdown", "stopped"}

\* p2p::start() has cleared stopped_ and started the subscribers.
InitSessions ==
    /\ stopPc = "hosts"
    /\ subscribed = <<>>
    /\ live = {}
    /\ hostsOpen = FALSE
    /\ hostCount = 0

\* session::start(): stopped_ is cleared ...
SessionLive(k) ==
    /\ live' = live \cup {k}
    /\ UNCHANGED <<settings, stopPc, subscribed, hostsOpen, hostCount>>

\* ... and handle_stop() subscribed; a stopped subscriber invokes it at once.
SessionSubscribe(k) ==
    /\ subscribed' = IF SubscriberStopped THEN subscribed ELSE Append(subscribed, k)
    /\ live' = IF SubscriberStopped THEN live \ {k} ELSE live
    /\ UNCHANGED <<settings, stopPc, hostsOpen, hostCount>>

\* hosts::start(): a started pool is refused; a file that cannot be opened
\* reads as an empty one (see Hosts).
HostsStart(loaded, ec) ==
    /\ ec \in (IF ~settings.pool THEN {"success"}
               ELSE IF hostsOpen THEN {"operation_failed"} ELSE {"success"})
    /\ hostsOpen' = (hostsOpen \/ settings.pool)
    /\ hostCount' = IF settings.pool /\ ~hostsOpen /\ ec = "success"
                    THEN hostCount + loaded ELSE hostCount
    /\ UNCHANGED <<settings, stopPc, subscribed, live>>

\* p2p::stop() begins with hosts::stop(): an open pool is saved and cleared.
StopHosts ==
    /\ stopPc = "hosts"
    /\ stopPc' = "flag"
    /\ hostsOpen' = FALSE
    /\ hostCount' = IF hostsOpen THEN 0 ELSE hostCount
    /\ UNCHANGED <<settings, subscribed, live>>

\* p2p::stop() goes on: stopped_, the stop of the subscriber and, when all its
\* handlers were invoked, the stop of the pending collections and the shutdown of
\* the thread pool, whose threads end when they have nothing left to do (see
\* Startup).  The subscribers to new connections, of whom no session is one, are
\* left out.
StopProceeds ==
    /\ \/ stopPc = "flag" /\ stopPc' = "subscriber"
       \/ stopPc = "subscriber" /\ stopPc' = "notify"
       \/ stopPc = "notify" /\ subscribed = <<>> /\ stopPc' = "pending"
       \/ stopPc = "pending" /\ stopPc' = "shutdown"
       \/ stopPc = "shutdown" /\ stopPc' = "stopped"
    /\ UNCHANGED <<settings, subscribed, live, hostsOpen, hostCount>>

\* The next subscriber is invoked; for a session this is handle_stop().
NotifyNext ==
    /\ stopPc = "notify"
    /\ subscribed # <<>>
    /\ subscribed' = Tail(subscribed)
    /\ live' = live \ {Head(subscribed)}
    /\ UNCHANGED <<settings, stopPc, hostsOpen, hostCount>>
==============================================================================
