------------------------------- MODULE Startup -------------------------------
(***************************************************************************)
(* The start and run sequences of the network (p2p.cpp): the manual        *)
(* session, the address pool and the seeding, then, from run(), the        *)
(* inbound and the outbound session, each step called back by the one      *)
(* before, while p2p::stop() may run on another thread.  Seeding and       *)
(* Inbound model the two sessions that do something of their own; what the *)
(* running sessions do is modelled in Network.                             *)
(***************************************************************************)
EXTENDS Seeding, Inbound

CONSTANTS
    Configurations,     \* the settings the network may be given
    Loads               \* how many addresses the hosts file may hold

ASSUME StartupAssumption ==
    /\ Configurations \subseteq Settings(Seeds)
    /\ Loads \subseteq 0 .. Capacity

VARIABLES
    step,       \* the next step of the start or the run sequence
    code,       \* the code it carries
    report,     \* what the handlers of start() and of run() were called with
    threads,    \* the threads of the pool have not ended
    onPool      \* the step is queued for them or on one of them

poolVars == <<threads, onPool>>
startVars == <<step, code, report, poolVars>>
vars == <<sessionVars, seedVars, inboundVars, startVars>>

Steps == {<<k, p>> : k \in Session, p \in {"start", "subscribe", "started", "done"}}
            \cup {<<"hosts", p>> : p \in {"start", "done"}}
            \cup {<<"seed", "seeding">>, <<"inbound", "listen">>, <<"p2p", "idle">>}

Init ==
    /\ settings \in Configurations
    /\ InitSessions
    /\ InitSeeding
    /\ InitInbound
    /\ step = <<"manual", "start">>
    /\ code = "success"
    /\ report = [start |-> <<>>, run |-> <<>>]
    /\ threads = TRUE
    /\ onPool = FALSE

Goes(next, ec) == step' = next /\ code' = ec /\ UNCHANGED <<report, poolVars>>

Reports(call, ec) ==
    /\ report' = [report EXCEPT ![call] = Append(@, ec)]
    /\ step' = <<"p2p", "idle">>
    /\ code' = "success"
    /\ onPool' = FALSE
    /\ UNCHANGED threads

\* Whether session k is configured; a session that is not succeeds at once.
Configured(k) ==
    CASE k = "manual" -> TRUE
      [] k = "seed" -> settings.pool
      [] k = "inbound" -> settings.inbound
      [] k = "outbound" -> settings.outbound

-----------------------------------------------------------------------------
(* The start of a session.                                                  *)

StartSession(k) ==
    /\ step = <<k, "start">>
    /\ IF Configured(k)
       THEN Goes(<<k, "subscribe">>, "success") /\ SessionLive(k)
       ELSE Goes(<<k, "done">>, "success") /\ UNCHANGED sessionVars
    /\ UNCHANGED <<seedVars, inboundVars>>

\* The session's handle_started() is posted to the pool; once the threads of the
\* pool have ended nothing takes it from there.
SubscribeSession(k) ==
    /\ step = <<k, "subscribe">>
    /\ step' = <<k, "started">>
    /\ onPool' = threads
    /\ SessionSubscribe(k)
    /\ UNCHANGED <<code, report, threads>>
    /\ UNCHANGED <<seedVars, inboundVars>>

\* handle_started() of the manual and of the outbound session, whose
\* connections are modelled in Network.
HandleSessionStarted ==
    /\ onPool
    /\ \E k \in {"manual", "outbound"} : step = <<k, "started">> /\ Goes(<<k, "done">>, "success")
    /\ UNCHANGED <<sessionVars, seedVars, inboundVars>>

\* session_seed::handle_started().
HandleSeedStarted ==
    /\ step = <<"seed", "started">>
    /\ onPool
    /\ \/ /\ hostCount # 0
          /\ Goes(<<"seed", "done">>, "success")
          /\ UNCHANGED <<seedVars, sessionVars>>
       \/ /\ hostCount = 0 /\ settings.seeds = {}
          /\ Goes(<<"seed", "done">>, "operation_failed")
          /\ UNCHANGED <<seedVars, sessionVars>>
       \/ /\ hostCount = 0 /\ settings.seeds # {}
          /\ Goes(<<"seed", "seeding">>, "success")
          /\ StartSeeding
    /\ UNCHANGED inboundVars

\* session_seed::handle_complete(), when the last seed is joined.
HandleComplete ==
    /\ step = <<"seed", "seeding">>
    /\ Joined
    /\ Goes(<<"seed", "done">>, SeedingCode)
    /\ UNCHANGED <<sessionVars, seedVars, inboundVars>>

\* session_inbound::handle_started(): the stop of the acceptor is subscribed ...
HandleInboundStarted ==
    /\ step = <<"inbound", "started">>
    /\ onPool
    /\ Goes(<<"inbound", "listen">>, "success")
    /\ SubscribeAcceptor
    /\ UNCHANGED seedVars

\* ... before it listens, and the accept loop begins.
ListenInbound ==
    /\ step = <<"inbound", "listen">>
    /\ \E ec \in {"success", "bad_port", "operation_failed"} :
          Goes(<<"inbound", "done">>, ec) /\ Listen(ec)
    /\ UNCHANGED seedVars

-----------------------------------------------------------------------------
(* p2p.                                                                     *)

\* handle_manual_started().
HandleManualStarted ==
    /\ step = <<"manual", "done">>
    /\ IF NetStopped THEN Reports("start", "service_stopped")
       ELSE Goes(<<"hosts", "start">>, "success")
    /\ UNCHANGED <<sessionVars, seedVars, inboundVars>>

\* handle_manual_started() goes on with hosts_.start().
StartHosts ==
    /\ step = <<"hosts", "start">>
    /\ \E n \in Loads, ec \in {"success", "operation_failed"} :
          HostsStart(n, ec) /\ Goes(<<"hosts", "done">>, ec)
    /\ UNCHANGED <<seedVars, inboundVars>>

\* handle_hosts_loaded().
HandleHostsLoaded ==
    /\ step = <<"hosts", "done">>
    /\ IF NetStopped THEN Reports("start", "service_stopped")
       ELSE IF code # "success" THEN Reports("start", code)
       ELSE Goes(<<"seed", "start">>, "success")
    /\ UNCHANGED <<sessionVars, seedVars, inboundVars>>

\* A mutant of HandleStarted: the code of the seeding is not looked at.
HandleStartedUnchecked ==
    /\ step = <<"seed", "done">>
    /\ Reports("start", IF NetStopped THEN "service_stopped" ELSE "success")
    /\ UNCHANGED <<sessionVars, seedVars, inboundVars>>

\* handle_started().
HandleStarted ==
    /\ step = <<"seed", "done">>
    /\ Reports("start", IF NetStopped THEN "service_stopped" ELSE code)
    /\ UNCHANGED <<sessionVars, seedVars, inboundVars>>

\* run(), which the user calls once start() has succeeded, from the handler of
\* start(), and so on the pool, or from another thread; it does not ask whether
\* the network is stopped.  Its manual connections are in Network.
Run ==
    /\ step = <<"p2p", "idle">>
    /\ report.start = <<"success">>
    /\ report.run = <<>>
    /\ step' = <<"inbound", "start">>
    /\ onPool' \in {FALSE, threads}
    /\ UNCHANGED <<code, report, threads, sessionVars, seedVars, inboundVars>>

\* handle_inbound_started(): without the inbound session there is no outbound.
HandleInboundDone ==
    /\ step = <<"inbound", "done">>
    /\ IF code # "success" THEN Reports("run", code)
       ELSE Goes(<<"outbound", "start">>, "success")
    /\ UNCHANGED <<sessionVars, seedVars, inboundVars>>

\* handle_running().
HandleRunning ==
    /\ step = <<"outbound", "done">>
    /\ Reports("run", code)
    /\ UNCHANGED <<sessionVars, seedVars, inboundVars>>

\* p2p::stop(): the acceptor's handler stops the acceptor.
Notify ==
    /\ NotifyNext
    /\ IF Head(subscribed) = "acceptor" THEN AcceptorStop ELSE UNCHANGED inboundVars
    /\ UNCHANGED <<seedVars, startVars>>

Stop == StopHosts /\ UNCHANGED <<seedVars, inboundVars, startVars>>

StopContinues == StopProceeds /\ UNCHANGED <<seedVars, inboundVars, startVars>>

\* After its shutdown the pool runs until nothing is queued or under way; then
\* its threads end.
PoolEnds ==
    /\ stopPc = "stopped"
    /\ threads
    /\ ~onPool
    /\ acceptPc = "off"
    /\ \A s \in Seeds : ~SeedBusy(s)
    /\ threads' = FALSE
    /\ UNCHANGED <<step, code, report, onPool, sessionVars, seedVars, inboundVars>>

-----------------------------------------------------------------------------
Sequence ==
    \/ \E k \in Session : StartSession(k) \/ SubscribeSession(k)
    \/ HandleSessionStarted
    \/ HandleSeedStarted
    \/ HandleComplete
    \/ HandleInboundStarted
    \/ ListenInbound
    \/ HandleManualStarted
    \/ StartHosts
    \/ HandleHostsLoaded
    \/ HandleStarted
    \/ HandleInboundDone
    \/ HandleRunning

Stopping == Notify \/ StopContinues

SeedProceeds(s) == SeedStep(s) /\ UNCHANGED <<inboundVars, startVars>>

SeedPeer(s) == PeerStep(s) /\ UNCHANGED <<inboundVars, startVars>>

Accepting == AcceptLoop /\ UNCHANGED <<seedVars, startVars>>

Next ==
    \/ Sequence
    \/ Run
    \/ Stop
    \/ Stopping
    \/ \E s \in Seeds : SeedProceeds(s) \/ SeedPeer(s)
    \/ Accepting
    \/ PoolEnds

Spec == Init /\ [][Next]_vars

\* The threads of the pool go on; connects, handshakes and registrations end
\* and timers expire; p2p::stop(), once begun, runs to its end.  What a peer
\* sends, and whether anyone calls run() or stop(), is not fair; nor is the
\* end of an accept that nobody has canceled, nor that of the pool, which other
\* work may hold up.
FairSpec ==
    /\ Spec
    /\ WF_vars(Sequence)
    /\ WF_vars(Stopping)
    /\ \A s \in Seeds : WF_vars(SeedProceeds(s))
    /\ WF_vars(Accepting /\ acceptPc # "pending")

-----------------------------------------------------------------------------
\* session_seed joins a seed at most once (start_seed, handle_connect,
\* handle_channel_start or handle_seeding_complete), whatever sends, timeouts
\* and stops of its channel follow.
SeedsJoinedOnce == \A s \in Seeds : joined[s] <= 1

\* The join handler only counts; all the same it does not fire before every
\* seed that was started has ended.
SeedsAwaited ==
    \A s \in settings.seeds :
        seed[s] # "idle" /\ step # <<"seed", "seeding">> => joined[s] = 1

\* When start() has reported success, an enabled address pool has an address
\* for the outbound session to connect to, unless the network is stopping.
StartedHasHosts ==
    report.start = <<"success">> /\ settings.pool /\ stopPc = "hosts" => hostCount > 0

\* A seed that is done has no open channel: the seeding session keeps none.
SeedChannelsClosed ==
    \A s \in Seeds : seed[s] = "done" => channel[s] # "open"

\* No accept is outstanding on a stopped acceptor: its stop() cancels the one
\* that is, and its accept() refuses the next, whichever comes first while the
\* accept loop runs beside p2p::stop().
NoAcceptOnStopped ==
    acceptPc = "pending" => ~acceptorStopped

\* ~acceptor(): "The acceptor was not stopped." is never raised: when p2p::stop()
\* is through and the run sequence has ended, the acceptor is stopped.
AcceptorStopped ==
    stopPc = "stopped" /\ step = <<"p2p", "idle">> => acceptorStopped

\* No seed is lost: while the seeding has not been joined, some seed has a step
\* to take that needs no peer; one that waits for its peer is timed.
SeedToCome ==
    step = <<"seed", "seeding">> /\ ~Joined =>
        \E s \in settings.seeds :
            \/ seed[s] \in {"start", "connect", "register"}
            \/ seed[s] = "attach" /\ channel[s] \in {"open", "stopped"}
            \/ seed[s] = "protocol" /\ handler[s] /\ timer[s] /\ ~complete[s]

\* No accept is lost: a network that runs with an inbound session and is not
\* being stopped accepts, or is about to.
AcceptToCome ==
    report.run = <<"success">> /\ settings.inbound /\ stopPc = "hosts" =>
        acceptPc \in {"start", "accept", "pending", "delayed"}

\* A session's handle_started() was posted to a pool whose threads had ended.
Stranded == ~onPool /\ \E k \in Session : step = <<k, "started">>

\* p2p::stop() leaves nothing that goes on without it: once the threads of the
\* pool have ended, no step is on them, no accept is outstanding and no seed has
\* a channel, a timer or a notification left, whatever start() and run() still
\* do; so close(), which joins the threads, has waited for everything.
EndedPoolIdle ==
    ~threads => ~onPool /\ acceptPc = "off" /\ \A s \in Seeds : ~SeedBusy(s)

\* start() reports to its caller, and reports once, whatever seeds, files and a
\* concurrent stop() do; and so does run() when it is called.  The one exception
\* is a call that has not reached the pool when a stop() has ended it: its
\* handler is lost.  A call that has, as a run() from the handler of start()
\* always has, reports.
Reported ==
    /\ onPool ~> step = <<"p2p", "idle">>
    /\ <>[](/\ Len(report.start) <= 1 /\ Len(report.run) <= 1
            /\ Stranded \/ (step = <<"p2p", "idle">> /\ Len(report.start) = 1))

\* The accept loop goes on as long as the session: while a network that runs
\* with an inbound session is not stopped, an accept is outstanding again and
\* again, in whatever way the last one ended.
AcceptsAgain ==
    []<>(report.run = <<"success">> /\ settings.inbound /\ stopPc = "hosts"
            => acceptPc = "pending")
==============================================================================
